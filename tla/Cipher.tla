-------------------------------- MODULE Cipher --------------------------------
(***************************************************************************)
(* One cipher object of the 802.11 stack (struct rtllib_crypt_data with    *)
(* the private data of WEP, TKIP or CCMP): the numbers it puts on the      *)
(* frames it encrypts, the replay window and the cached first phase of the *)
(* TKIP key mixing on the frames it decrypts.                              *)
(*                                                                         *)
(* A packet number is a pair <<high, low>>: iv32 and iv16 of TKIP, the two *)
(* halves of the 48 bit number of CCMP, whose carry runs the same way.  A  *)
(* key stream is named by what it is computed from, so that two sides      *)
(* agree exactly when they mixed the same key and the same number.  Every  *)
(* installed key is a new one and counts as one generation.                *)
(*                                                                         *)
(* ieee->hwsec_active decides per frame whether the adapter does the       *)
(* arithmetic (bHwSec).  It is fixed when a key is installed, which is     *)
(* where EnableHWSecurityConfig8192 is called for a TKIP or CCMP key.      *)
(***************************************************************************)
EXTENDS Integers, FiniteSets

CONSTANTS
    Algs,      \* the ciphers considered, of {"WEP", "TKIP", "CCMP"}
    IvMod,     \* 2^16 in the driver: the values of iv16
    Byte,      \* 256 in the driver: the values of one byte of the WEP IV
    KLen,      \* 3 + wep->key_len: weak IVs have a first byte in 3 .. KLen-1
    MaxHigh,   \* bound: the high half of a packet number
    MaxKeys,   \* bound: keys installed
    MaxSent    \* bound: frames encrypted with one key

ASSUME CipherAssumption ==
    /\ Algs \subseteq {"WEP", "TKIP", "CCMP"} /\ Algs # {}
    /\ IvMod \in Nat \ {0, 1} /\ Byte \in Nat /\ Byte > 3 /\ KLen \in 4 .. Byte - 1
    /\ {MaxHigh, MaxKeys, MaxSent} \subseteq Nat
\* The IVs of WEP repeat; fewer frames than that are sent with one key.
ASSUME WepAssumption == "WEP" \in Algs => MaxSent * (Byte + 1) <= Byte * Byte * Byte

NoKey  == 0
NoTtak == <<NoKey, MaxHigh + 1>>
Tsc    == (0 .. MaxHigh) \X (0 .. IvMod - 1)
Iv     == 0 .. Byte * Byte * Byte - 1
Ttak   == {NoTtak} \cup ((0 .. MaxKeys) \X (0 .. MaxHigh))

VARIABLES
    alg,    \* crypt->ops
    key,    \* the key installed, NoKey before set_key (key_set)
    keys,   \* keys installed so far
    hw,     \* ieee->hwsec_active
    tx,     \* tx_iv32/tx_iv16 or tx_pn, and the TX phase 1 cache
    iv,     \* wep->iv
    rx,     \* rx_iv32/rx_iv16 or rx_pn, their pending values, the RX cache
    out,    \* the last encrypted frame: its header number and its key stream
    used,   \* the key streams used with this key
    res,    \* what became of the last received frame
    got,    \* the numbers of the frames accepted with this key
    taken,  \* how many frames software decryption accepted with this key
    base,   \* the number given with the key (rx_seq)
    heard   \* the highest number of an undamaged frame received, or given

txVars == <<tx, iv, out, used>>
rxVars == <<rx, res, got, taken, base, heard>>
cipherVars == <<alg, key, keys, hw, tx, iv, rx, out, used, res, got, taken, base, heard>>

Leq(a, b) == a[1] < b[1] \/ (a[1] = b[1] /\ a[2] <= b[2])
MaxTsc(a, b) == IF Leq(a, b) THEN b ELSE a

\* The two phases of the TKIP key mixing.  The first depends on the key and on
\* iv32 (the transmitter address is fixed), the second on its result and iv16.
tkip_mixing_phase1(k, iv32) == <<k, iv32>>
tkip_mixing_phase2(ttak, iv16) == <<ttak, iv16>>

\* The key stream the other side derives from the number in the header.
StreamOf(k, n) == tkip_mixing_phase2(tkip_mixing_phase1(k, n[1]), n[2])

NewTx(lo) == [num |-> <<0, lo>>, ttak |-> NoTtak, done |-> FALSE]
NewRx(n)  == [num |-> n, new |-> <<0, 0>>, inited |-> FALSE,
              ttak |-> NoTtak, done |-> FALSE]

\* ops->init: the private data is cleared; WEP draws its first IV at random.
rtllib_tkip_init == [tx |-> NewTx(0), rx |-> NewRx(<<0, 0>>)]
rtllib_ccmp_init == [tx |-> NewTx(0), rx |-> NewRx(<<0, 0>>)]
prism2_wep_init  == Iv

\* A key generation starts with the object in a known state.
NewObject(a, k, h, n, first) ==
    /\ alg' = a /\ key' = k /\ hw' = h
    /\ tx' = NewTx(first) /\ rx' = NewRx(n) /\ heard' = n /\ base' = n
    /\ out' = [num |-> <<0, 0>>, stream |-> <<>>] /\ used' = {} /\ got' = {}
    /\ res' = "none" /\ taken' = 0

CipherInit ==
    /\ alg \in Algs /\ key = NoKey /\ keys = 0 /\ hw \in BOOLEAN
    /\ iv \in (IF alg = "WEP" THEN prism2_wep_init ELSE {0})
    /\ LET o == IF alg = "TKIP" THEN rtllib_tkip_init ELSE rtllib_ccmp_init
       IN  tx = o.tx /\ rx = o.rx
    /\ heard = <<0, 0>> /\ base = <<0, 0>>
    /\ out = [num |-> <<0, 0>>, stream |-> <<>>] /\ used = {} /\ got = {}
    /\ res = "none" /\ taken = 0

\* ops->set_key of TKIP and CCMP: the private data is cleared, the TX number of
\* TKIP starts at 1, the RX number at the one the authenticator gave (seq).
\* WEP keeps its IV.  A length of zero leaves the object without a key.
rtllib_tkip_set_key(n) ==
    /\ alg = "TKIP" /\ \E h \in BOOLEAN : NewObject(alg, keys + 1, h, n, 1)
    /\ UNCHANGED iv

rtllib_ccmp_set_key(n) ==
    /\ alg = "CCMP" /\ \E h \in BOOLEAN : NewObject(alg, keys + 1, h, n, 0)
    /\ UNCHANGED iv

prism2_wep_set_key ==
    /\ alg = "WEP" /\ \E h \in BOOLEAN : NewObject(alg, keys + 1, h, <<0, 0>>, 0)
    /\ UNCHANGED iv

SetKey ==
    /\ keys < MaxKeys
    /\ keys' = keys + 1
    /\ \/ \E n \in Tsc : n[1] < MaxHigh /\ (rtllib_tkip_set_key(n) \/ rtllib_ccmp_set_key(n))
       \/ prism2_wep_set_key

ClearKey ==
    /\ key # NoKey /\ alg # "WEP"
    /\ NewObject(alg, NoKey, hw, <<0, 0>>, 0)
    /\ UNCHANGED <<keys, iv>>
-----------------------------------------------------------------------------
(* Transmission: rtllib_encrypt_fragment adds the MIC and encrypts.  The     *)
(* paths that return before the counter moves leave everything as it is.     *)

\* Mutant: no carry into the high half.
Next16NoCarry(n) == <<n[1], (n[2] + 1) % IvMod>>
\* The next packet number: iv16 wraps and carries into iv32; the same in tx_pn.
Next16(n) == LET lo == (n[2] + 1) % IvMod
             IN  <<IF lo = 0 THEN n[1] + 1 ELSE n[1], lo>>

\* Mutant: the first phase is not computed again when iv16 has wrapped.
TkipEncryptKeepsTtak ==
    /\ alg = "TKIP"
    /\ LET ttak == IF ~hw /\ ~tx.done THEN tkip_mixing_phase1(key, tx.num[1]) ELSE tx.ttak
           s    == IF hw THEN StreamOf(key, tx.num) ELSE tkip_mixing_phase2(ttak, tx.num[2])
       IN  /\ tx' = [num |-> Next16(tx.num), ttak |-> ttak, done |-> TRUE]
           /\ out' = [num |-> tx.num, stream |-> s]
           /\ used' = used \cup {s}
    /\ UNCHANGED iv

\* With bHwSec the adapter mixes the key of the CAM and the number in the header.
rtllib_tkip_encrypt ==
    /\ alg = "TKIP"
    /\ LET ttak == IF ~hw /\ ~tx.done THEN tkip_mixing_phase1(key, tx.num[1]) ELSE tx.ttak
           n    == Next16(tx.num)
           s    == IF hw THEN StreamOf(key, tx.num) ELSE tkip_mixing_phase2(ttak, tx.num[2])
       IN  /\ tx' = [num |-> n, ttak |-> ttak, done |-> n[2] # 0]
           /\ out' = [num |-> tx.num, stream |-> s]
           /\ used' = used \cup {s}
    /\ UNCHANGED iv

\* The nonce of the counter blocks holds the packet number.
ccmp_init_blocks(k, pn) == StreamOf(k, pn)

\* The number is incremented before it is used.
rtllib_ccmp_encrypt ==
    /\ alg = "CCMP"
    /\ LET n == Next16(tx.num)
       IN  /\ tx' = [tx EXCEPT !.num = n]
           /\ out' = [num |-> n, stream |-> ccmp_init_blocks(key, n)]
           /\ used' = used \cup {ccmp_init_blocks(key, n)}
    /\ UNCHANGED iv

IvByte(v, i) == (v \div (IF i = 1 THEN Byte * Byte ELSE Byte)) % Byte
WeakIv(v) == IvByte(v, 2) = Byte - 1 /\ IvByte(v, 1) \in 3 .. KLen - 1

\* iv is incremented and moved past a weak value; the frame carries it as it is.
prism2_wep_encrypt ==
    /\ alg = "WEP"
    /\ LET v1 == (iv + 1) % (Byte * Byte * Byte)
           v  == IF WeakIv(v1) THEN (v1 + Byte) % (Byte * Byte * Byte) ELSE v1
       IN  /\ iv' = v
           /\ out' = [num |-> <<0, v>>, stream |-> <<key, v>>]
           /\ used' = used \cup {<<key, v>>}
    /\ UNCHANGED tx

rtllib_encrypt_fragment ==
    /\ Cardinality(used) < MaxSent /\ tx.num[1] < MaxHigh
    /\ rtllib_tkip_encrypt \/ rtllib_ccmp_encrypt \/ prism2_wep_encrypt
    /\ UNCHANGED <<alg, key, keys, hw, rxVars>>
-----------------------------------------------------------------------------
(* Reception: rtllib_rx calls decrypt_mpdu on every frame and decrypt_msdu   *)
(* on the last fragment.  f.good says that the peer encrypted the frame      *)
(* with this key and that it arrived undamaged, f.mic that its MIC is right  *)
(* (force_mic_error makes it wrong for one frame), f.whole that no           *)
(* fragment is missing.  Frames of the peer are newer than the number the    *)
(* authenticator gave with the key, and may come late or twice.  The adapter *)
(* has already thrown away the damaged frames it decrypts itself.            *)

Frames == [num : Tsc, good : BOOLEAN, mic : BOOLEAN, whole : BOOLEAN]

Refuse(why) == res' = why /\ UNCHANGED <<got, taken>>
Accept(f)   == /\ res' = "ok" /\ got' = got \cup {f.num}
               /\ taken' = IF hw THEN taken ELSE taken + 1

\* decrypt_msdu of TKIP: the pending number becomes the last one seen once the
\* MIC is verified.
rtllib_michael_mic_verify(r, f) ==
    IF f.mic
    THEN rx' = [r EXCEPT !.num = r.new] /\ Accept(f)
    ELSE rx' = r /\ Refuse("mic")

\* The tail of decrypt_mpdu of TKIP and the call of decrypt_msdu.
TkipDecrypted(r, f) ==
    LET r1 == [r EXCEPT !.new = f.num]
    IN  IF f.whole THEN rtllib_michael_mic_verify(r1, f)
                   ELSE rx' = r1 /\ Refuse("fragment")

\* Mutant: the last number seen is accepted again.
TkipReplayOlder(f) == rx.inited /\ Leq(f.num, rx.num) /\ f.num # rx.num

\* A number at or below the last one seen is a replay, once a frame was seen.
TkipReplay(f) == rx.inited /\ Leq(f.num, rx.num)

\* The cached first phase is used while iv32 is the one of the last frame.
TkipPhase1(f) ==
    IF f.num[1] # rx.num[1] \/ ~rx.done
    THEN tkip_mixing_phase1(key, f.num[1]) ELSE rx.ttak

\* Mutant: the first phase of a damaged frame stays in the cache.
TkipIcvErrorKeepsTtak(f, ttak) ==
    /\ rx' = [rx EXCEPT !.inited = TRUE, !.ttak = ttak, !.done = TRUE]
    /\ Refuse("icv")

\* A damaged frame whose iv32 was not the current one invalidates the cache.
TkipIcvError(f, ttak) ==
    /\ rx' = [rx EXCEPT !.inited = TRUE, !.ttak = ttak,
                        !.done = (f.num[1] = rx.num[1])]
    /\ Refuse("icv")

rtllib_tkip_decrypt(f) ==
    /\ alg = "TKIP"
    /\ IF hw
       THEN TkipDecrypted(rx, f)
       ELSE IF TkipReplay(f)
       THEN rx' = rx /\ Refuse("replay")
       ELSE LET ttak == TkipPhase1(f)
            IN  IF f.good /\ tkip_mixing_phase2(ttak, f.num[2]) = StreamOf(key, f.num)
                THEN TkipDecrypted([rx EXCEPT !.inited = TRUE, !.ttak = ttak, !.done = TRUE], f)
                ELSE TkipIcvError(f, ttak)

\* CCMP compares with rx_pn in both modes and advances it in software only.
rtllib_ccmp_decrypt(f) ==
    /\ alg = "CCMP"
    /\ IF Leq(f.num, rx.num) THEN rx' = rx /\ Refuse("replay")
       ELSE IF ~f.good THEN rx' = rx /\ Refuse("icv")
       ELSE /\ rx' = IF hw THEN rx ELSE [rx EXCEPT !.num = f.num]
            /\ Accept(f)

\* WEP has no replay window: the frame is decrypted if it is undamaged.
prism2_wep_decrypt(f) ==
    /\ alg = "WEP" /\ rx' = rx
    /\ IF f.good THEN Refuse("ok") ELSE Refuse("icv")

rtllib_rx_frame_decrypt(f) ==
    /\ hw => f.good
    /\ (f.good /\ alg # "WEP") => ~Leq(f.num, base)
    /\ IF key = NoKey
       THEN rx' = rx /\ Refuse("nokey") /\ UNCHANGED heard
       ELSE /\ rtllib_tkip_decrypt(f) \/ rtllib_ccmp_decrypt(f) \/ prism2_wep_decrypt(f)
            /\ heard' = IF f.good THEN MaxTsc(heard, f.num) ELSE heard
    /\ UNCHANGED <<alg, key, keys, hw, base, txVars>>

CipherNext == SetKey \/ ClearKey \/ rtllib_encrypt_fragment
              \/ \E f \in Frames : rtllib_rx_frame_decrypt(f)
CipherSpec == CipherInit /\ [][CipherNext]_cipherVars
-----------------------------------------------------------------------------
CipherTypeOK ==
    /\ alg \in Algs /\ key \in 0 .. keys /\ keys \in 0 .. MaxKeys /\ hw \in BOOLEAN
    /\ tx \in [num : Tsc, ttak : Ttak, done : BOOLEAN] /\ iv \in Iv
    /\ rx \in [num : Tsc, new : Tsc, inited : BOOLEAN, ttak : Ttak, done : BOOLEAN]
    /\ {heard, base} \subseteq Tsc /\ got \subseteq Tsc /\ taken \in Nat
    /\ res \in {"none", "ok", "fragment", "replay", "icv", "mic", "nokey"}

\* No two frames are encrypted with the same key stream (tx_iv16 and the carry
\* into tx_iv32, tx_pn, wep->iv), and WEP never uses an IV of the weak class,
\* whatever it started from.
FreshStream == [][(out' # out /\ key' = key) =>
                    /\ out'.stream \notin used
                    /\ alg = "WEP" => ~WeakIv(iv')]_cipherVars

\* The key stream of a frame is the one its header announces: the cached TTAK
\* belongs to the current iv32, on both sides of a wrap of iv16.
HeaderTells ==
    (alg # "WEP" /\ out.stream # <<>>) => out.stream = StreamOf(key, out.num)

\* Software decryption accepts a packet number at most once per key, although
\* the counters move only after the MIC was verified and fragments, damaged
\* frames and MIC failures come in between.
AcceptedOnce == ~hw => taken = Cardinality(got)

\* A frame of the peer that is newer than every frame heard before is not taken
\* for a replay and decrypts: whatever damaged frames, lost fragments or MIC
\* failures came before, the cached TTAK is not a stale one.
NewestDecrypts == [][(heard' # heard /\ key' = key) => res' \notin {"replay", "icv"}]_cipherVars

\* Sender and receiver agree on the packet numbers: the header announces the key
\* stream that was used, and no number is accepted twice (rtllib_tkip_encrypt,
\* rtllib_tkip_decrypt, rtllib_ccmp_decrypt).
NumbersAgree == CipherTypeOK /\ HeaderTells /\ AcceptedOnce

\* No key stream is used twice, and the newest frame of the peer is decrypted
\* (rtllib_tkip_encrypt, prism2_wep_encrypt, rtllib_tkip_decrypt).
StreamsFit == FreshStream /\ NewestDecrypts
===============================================================================
