------------------------------- MODULE KeyCache -------------------------------
(***************************************************************************)
(* The keys of the station, kept four times: the cipher objects of         *)
(* ieee->crypt, the adapter's key table (CAM), its copy swcamtable from     *)
(* which a silent reset fills the CAM again, and the two key types that say *)
(* which entries that is.  Entries 0 to WepKeys-1 belong to the key indices, *)
(* Pair (4 in the driver) to the pairwise key of WPA.                       *)
(*                                                                         *)
(* A retired cipher object waits on crypt_deinit_list for a timer, because  *)
(* an encryption or decryption may still be using it.                       *)
(***************************************************************************)
EXTENDS Integers, FiniteSets

CONSTANTS
    Nets,     \* BSSIDs
    Wep, Wpa, \* KEY_TYPE_WEP40 and WEP104, KEY_TYPE_TKIP and CCMP
    None,     \* no object, no entry
    Zero, Bcast, \* addresses of default keys and of group keys
    WepKeys,  \* WEP_KEYS, 4 in the driver
    Objs,     \* bound: cipher objects
    Smp,      \* several processors
    MaxOps    \* bound: calls, resets and restarts

ASSUME KeyCacheAssumption == WepKeys \in 1 .. 4 /\ MaxOps \in Nat /\ Smp \in BOOLEAN

Index == 0 .. WepKeys - 1
Pair  == 4
NA    == "NA"

VARIABLES
    up,       \* priv->up
    bssid,    \* current_network.bssid
    apMac,    \* ieee->ap_mac_addr
    leap,     \* ieee->auth_mode = 2
    crypt,    \* ieee->crypt: a cipher object or None
    obj,      \* what each object is: None (free memory), or its cipher and key
    refcnt,
    retired,  \* crypt_deinit_list
    dtimer,   \* crypt_deinit_timer: "off", "new" (started, a second to go) or "due"
    pType, gType, \* pairwise_key_type, group_key_type
    cam, swcam,   \* entry -> None or its type, address and key
    late,     \* a setKey whose set_swcam is still to come: <<entry, content>>
    reset,    \* phase of a silent reset: "no" or "started"
    user,     \* an object an encryption or decryption works with
    ops,      \* calls so far; also the material of the next key
    odd       \* a call after which the tables may disagree, see CamAgrees

ciphers == <<crypt, obj, refcnt, retired, dtimer>>
tables  == <<pType, gType, cam, swcam, late>>
vars    == <<up, bssid, apMac, leap, ciphers, tables, reset, user, ops, odd>>

Entries  == Index \cup {Pair}
NoKeys   == [e \in Entries |-> None]
Content(t, a, k) == [type |-> t, addr |-> a, key |-> k]
Idle     == [o |-> None, st |-> "idle"]

Init ==
    /\ up = TRUE /\ bssid = Zero /\ apMac = Zero /\ leap = FALSE
    /\ crypt = [i \in Index |-> None] /\ obj = [o \in Objs |-> None] /\ refcnt = [o \in Objs |-> 0]
    /\ retired = {} /\ dtimer = "off"
    /\ pType = NA /\ gType = NA /\ cam = NoKeys /\ swcam = NoKeys /\ late = <<>>
    /\ reset = "no" /\ user = Idle /\ ops = 0 /\ odd = FALSE
-----------------------------------------------------------------------------
(* rtl_cam.c *)

CamResetAllEntry == NoKeys

setKey(table, e, c) == [table EXCEPT ![e] = c]

\* EnableHWSecurityConfig8192: the adapter looks for a default key (UseDK) with
\* a WEP pairwise type, else for the entry of the address.
EnableHWSecurityConfig8192(type) == type \in Wep /\ ~leap

\* Mutant: the pairwise key is the only one of WPA that comes back.
CamRestoreNoGroup ==
    [e \in Entries |->
        IF pType \in Wep /\ e \in Index /\ swcam[e] # None THEN Content(pType, Zero, swcam[e].key)
        ELSE IF pType \in Wpa /\ e = Pair
            THEN Content(pType, bssid, IF swcam[e] = None THEN None ELSE swcam[e].key)
        ELSE cam[e]]

\* CamRestoreAllEntry, with the station in infrastructure mode: WEP keys; or the
\* pairwise key, whether the entry is used or not; then the group keys.
CamRestoreAllEntry ==
    [e \in Entries |->
        IF gType \in Wpa /\ e \in Index \ {0} /\ swcam[e] # None
            THEN Content(gType, Bcast, swcam[e].key)
        ELSE IF pType \in Wep /\ e \in Index /\ swcam[e] # None
            THEN Content(pType, Zero, swcam[e].key)
        ELSE IF pType \in Wpa /\ e = Pair
            THEN Content(pType, bssid, IF swcam[e] = None THEN None ELSE swcam[e].key)
        ELSE cam[e]]
-----------------------------------------------------------------------------
(* rtllib_crypt.c *)

\* On one processor nothing runs between reading the pointer to an object and
\* counting the reference: the frame paths are not preempted.
NotReading == Smp \/ user.st # "read"

\* rtllib_crypt_delayed_deinit on a set of key indices: the objects go to the
\* list, and the timer is started if it is not pending.
Retire(ks) ==
    LET old == {crypt[i] : i \in ks} \ {None}
    IN  retired' = retired \cup old /\ dtimer' = IF dtimer = "off" /\ old # {} THEN "new" ELSE dtimer

\* Mutant: what is in use is freed as well.
DeinitAll == retired

rtllib_crypt_deinit_entries == {o \in retired : refcnt[o] = 0}

\* Mutant: the timer is not started again for the objects still in use.
DeinitOnce ==
    /\ dtimer = "due" /\ NotReading
    /\ LET gone == rtllib_crypt_deinit_entries
       IN  /\ obj' = [o \in Objs |-> IF o \in gone THEN None ELSE obj[o]]
           /\ retired' = retired \ gone
    /\ dtimer' = "off"
    /\ UNCHANGED <<up, bssid, apMac, leap, crypt, refcnt, tables, reset, user, ops, odd>>

\* rtllib_crypt_deinit_handler frees what is not in use and comes back for the rest.
rtllib_crypt_deinit_handler ==
    /\ dtimer = "due" /\ NotReading
    /\ LET gone == rtllib_crypt_deinit_entries
       IN  /\ obj' = [o \in Objs |-> IF o \in gone THEN None ELSE obj[o]]
           /\ retired' = retired \ gone
    /\ dtimer' = IF retired' = {} THEN "off" ELSE "new"
    /\ UNCHANGED <<up, bssid, apMac, leap, crypt, refcnt, tables, reset, user, ops, odd>>

\* The second goes by.  The few instructions between reading the pointer and
\* counting the reference take less.
SecondPasses ==
    /\ dtimer = "new" /\ user.st # "read" /\ dtimer' = "due"
    /\ UNCHANGED <<up, bssid, apMac, leap, crypt, obj, refcnt, retired, tables, reset, user, ops, odd>>

\* rtllib_encrypt_fragment and rtllib_rx read ieee->crypt, then count a reference
\* around the cipher's work.
GetCrypt(i) ==
    /\ user = Idle /\ crypt[i] # None
    /\ user' = [o |-> crypt[i], st |-> "read"]
    /\ UNCHANGED <<up, bssid, apMac, leap, ciphers, tables, reset, ops, odd>>

Count ==
    /\ user.st = "read" /\ user' = [user EXCEPT !.st = "busy"]
    /\ refcnt' = [refcnt EXCEPT ![user.o] = @ + 1]
    /\ UNCHANGED <<up, bssid, apMac, leap, crypt, obj, retired, dtimer, tables, reset, ops, odd>>

PutCrypt ==
    /\ user.st = "busy" /\ user' = Idle
    /\ refcnt' = [refcnt EXCEPT ![user.o] = @ - 1]
    /\ UNCHANGED <<up, bssid, apMac, leap, crypt, obj, retired, dtimer, tables, reset, ops, odd>>
-----------------------------------------------------------------------------
(* The user's calls.  late # <<>> while one is between setKey and set_swcam. *)

MayCall == NotReading /\ late = <<>> /\ ops < MaxOps /\ ops' = ops + 1

\* The memory a new object gets, at most one choice.
Unallocated == LET free == {o \in Objs : obj[o] = None}
               IN  IF free = {} THEN {} ELSE {CHOOSE o \in free : TRUE}

\* The object of index i holds this cipher and key: the old object if it has the
\* cipher, else a new one.
SetCrypt(i, alg, k) ==
    IF crypt[i] # None /\ obj[crypt[i]].alg = alg
    THEN /\ obj' = [obj EXCEPT ![crypt[i]].key = k]
         /\ UNCHANGED <<crypt, retired, dtimer>>
    ELSE \E o \in Unallocated :
         /\ obj' = [obj EXCEPT ![o] = [alg |-> alg, key |-> k]]
         /\ crypt' = [crypt EXCEPT ![i] = o] /\ Retire({i})

\* No memory for a new object: the old one is retired all the same.
SetCryptFails(i, alg) ==
    /\ (crypt[i] # None => obj[crypt[i]].alg # alg)
    /\ crypt' = [crypt EXCEPT ![i] = None] /\ Retire({i}) /\ UNCHANGED obj

Drop(ks) == /\ crypt' = [i \in Index |-> IF i \in ks THEN None ELSE crypt[i]]
            /\ Retire(ks) /\ UNCHANGED <<obj, refcnt>>

ClearTables == pType' = NA /\ gType' = NA /\ cam' = CamResetAllEntry /\ swcam' = NoKeys /\ late' = <<>>

\* set_swcam, the last step of every call that sets a key.
set_swcam ==
    /\ late # <<>> /\ NotReading /\ swcam' = setKey(swcam, late[1], late[2]) /\ late' = <<>>
    /\ UNCHANGED <<up, bssid, apMac, leap, ciphers, pType, gType, cam, reset, user, ops, odd>>

\* r8192_wx_set_enc with a key of 5 or 13 bytes.  The tables are written after
\* wx_sem was released, also when rtllib_wx_set_encode failed.
r8192_wx_set_enc(i, type, k) ==
    /\ MayCall /\ up
    /\ \/ SetCrypt(i, "WEP", k) /\ UNCHANGED odd
       \/ SetCryptFails(i, "WEP") /\ odd' = TRUE
    /\ leap' = FALSE /\ pType' = type
    /\ cam' = setKey(cam, i, Content(type, Zero, k)) /\ late' = <<i, Content(type, Zero, k)>>
    /\ UNCHANGED <<up, bssid, apMac, refcnt, gType, swcam, reset, user>>

\* With no key: the index becomes the transmit key (tx_keyidx, which nothing here
\* depends on) and gets an all zero key if it has none.
SetEncDefault(i) ==
    /\ MayCall /\ up
    /\ IF crypt[i] # None /\ obj[crypt[i]].alg = "WEP"
       THEN UNCHANGED <<crypt, obj, retired, dtimer, odd>>
       ELSE SetCrypt(i, "WEP", -1) /\ odd' = TRUE
    /\ leap' = FALSE
    /\ UNCHANGED <<up, bssid, apMac, refcnt, tables, reset, user>>

\* With IW_ENCODE_DISABLED: one key, or all of them.  The tables lose them all.
SetEncDisable(ks) ==
    /\ MayCall /\ up
    /\ Drop(ks) /\ leap' = FALSE /\ ClearTables
    /\ odd' = \E i \in Index \ ks : crypt[i] # None
    /\ UNCHANGED <<up, bssid, apMac, reset, user>>

\* r8192_wx_set_enc_ext.  The type given with a group key is the pairwise type as
\* well if it is WEP.  Pairwise keys other than WEP have index 0.
r8192_wx_set_enc_ext(i, alg, type, group, k) ==
    /\ MayCall /\ (group \/ i = 0 \/ alg = "WEP")
    /\ LET wep == EnableHWSecurityConfig8192(type)
           e == IF wep \/ group THEN i ELSE Pair
           c == Content(type, IF wep THEN Zero ELSE IF group THEN Bcast ELSE apMac, k)
       IN  /\ \/ SetCrypt(i, alg, k) /\ UNCHANGED odd
              \/ SetCryptFails(i, alg) /\ odd' = TRUE
           /\ pType' = IF ~group \/ type \in Wep THEN type ELSE pType
           /\ gType' = IF group /\ ~wep THEN type ELSE gType
           /\ cam' = setKey(cam, e, c) /\ late' = <<e, c>>
    /\ UNCHANGED <<up, bssid, apMac, leap, refcnt, swcam, reset, user>>

\* With IW_ENCODE_DISABLED or no cipher.
SetEncExtDisable(i) ==
    /\ MayCall /\ Drop({i}) /\ ClearTables
    /\ odd' = (leap \/ \E j \in Index \ {i} : crypt[j] # None)
    /\ UNCHANGED <<up, bssid, apMac, leap, reset, user>>

\* rtllib_wx_set_auth: the LEAP algorithm.
rtllib_wx_set_auth ==
    /\ MayCall /\ ~leap /\ leap' = TRUE /\ odd' = TRUE
    /\ UNCHANGED <<up, bssid, apMac, ciphers, tables, reset, user>>

\* The station associates: the assoc request notes the address of the access point.
Associate(n) ==
    /\ NotReading /\ ops < MaxOps /\ ops' = ops + 1 /\ up /\ n # bssid /\ bssid' = n /\ apMac' = n
    /\ odd' = (odd \/ cam[Pair] # None)
    /\ UNCHANGED <<up, leap, ciphers, tables, reset, user>>

\* rtl8192_down clears the tables and leaves the ciphers.
rtl8192_down ==
    /\ MayCall /\ up /\ reset = "no" /\ up' = FALSE
    /\ bssid' = Zero /\ cam' = CamResetAllEntry /\ swcam' = NoKeys
    /\ odd' = TRUE
    /\ UNCHANGED <<apMac, leap, ciphers, pType, gType, late, reset, user>>

\* _rtl8192_up, or rtl8192_commit of an interface that is up: the CAM is emptied.
_rtl8192_up ==
    /\ MayCall /\ reset = "no" /\ up' = TRUE /\ cam' = CamResetAllEntry
    /\ odd' = (odd \/ cam # NoKeys)
    /\ UNCHANGED <<bssid, apMac, leap, ciphers, pType, gType, swcam, late, reset, user>>
-----------------------------------------------------------------------------
(* The silent reset: rtl8192_adapter_start empties the CAM, and the end of    *)
(* rtl819x_ifsilentreset fills it.  It takes no lock between the two.         *)

\* A key of another kind than the ones the two key types name, or WEP keys and the
\* group keys of WPA together.
Mixed(e) == /\ swcam[e] # None
            /\ \/ pType \in Wep /\ gType \in Wpa
               \/ swcam[e].type # IF e = Pair \/ swcam[e].type \in Wep THEN pType ELSE gType

ResetStarts ==
    /\ NotReading /\ reset = "no" /\ up /\ ops < MaxOps /\ ops' = ops + 1
    /\ reset' = "started" /\ cam' = CamResetAllEntry
    /\ UNCHANGED <<up, bssid, apMac, leap, ciphers, pType, gType, swcam, late, user, odd>>

ResetEnds ==
    /\ NotReading /\ reset = "started" /\ reset' = "no" /\ cam' = CamRestoreAllEntry
    /\ odd' = (odd \/ late # <<>> \/ \E e \in Entries : Mixed(e))
    /\ UNCHANGED <<up, bssid, apMac, leap, ciphers, pType, gType, swcam, late, user, ops>>

\* The group keys of WPA have the indices 1 to 3.
Keyed(i, k) ==
    \/ \E t \in Wep : r8192_wx_set_enc(i, t, k) \/ \E g \in BOOLEAN : r8192_wx_set_enc_ext(i, "WEP", t, g, k)
    \/ \E a \in Wpa, g \in BOOLEAN : (g => i # 0) /\ r8192_wx_set_enc_ext(i, a, a, g, k)

Next ==
    \/ \E i \in Index : GetCrypt(i) \/ SetEncDefault(i) \/ SetEncDisable({i}) \/ SetEncExtDisable(i)
                        \/ Keyed(i, ops)
    \/ Count \/ PutCrypt \/ SetEncDisable(Index) \/ set_swcam \/ rtllib_wx_set_auth
    \/ (\E n \in Nets : Associate(n))
    \/ rtl8192_down \/ _rtl8192_up \/ ResetStarts \/ ResetEnds
    \/ SecondPasses \/ rtllib_crypt_deinit_handler

Spec == Init /\ [][Next]_vars
\* Time passes and the timer is served however many frames go by.
Fairness == /\ SF_vars(SecondPasses) /\ SF_vars(rtllib_crypt_deinit_handler)
            /\ WF_vars(Count) /\ WF_vars(PutCrypt)
-----------------------------------------------------------------------------
Keys     == Int
Objects  == [alg : {"WEP"} \cup Wpa, key : Keys]
Contents == [type : Wep \cup Wpa, addr : Nets \cup {Zero, Bcast}, key : Keys \cup {None}]
Types    == Wep \cup Wpa \cup {NA}

ASSUME NamesAssumption ==
    /\ Wep \cap Wpa = {} /\ "WEP" \notin Wpa
    /\ None \notin Objs \cup Objects \cup Contents

TypeOK ==
    /\ {up, leap, odd} \subseteq BOOLEAN /\ {bssid, apMac} \subseteq Nets \cup {Zero}
    /\ crypt \in [Index -> Objs \cup {None}] /\ obj \in [Objs -> Objects \cup {None}]
    /\ retired \subseteq Objs /\ refcnt \in [Objs -> 0 .. 1] /\ dtimer \in {"off", "new", "due"}
    /\ pType \in Types /\ gType \in Types
    /\ cam \in [Entries -> Contents \cup {None}] /\ swcam \in [Entries -> Contents \cup {None}]
    /\ late \in {<<>>} \cup Entries \X Contents
    /\ reset \in {"no", "started"} /\ ops \in 0 .. MaxOps
    /\ user = Idle \/ user \in [o : Objs, st : {"read", "busy"}]

\* The entry in which the adapter looks for the key of index i.
EntryOf(i) == IF i = 0 /\ obj[crypt[i]].alg \in Wpa THEN Pair ELSE i

\* Whatever calls, associations and silent resets came before, the adapter holds
\* every key the software ciphers hold, and the pairwise key under the address of
\* the access point the station is associated with.  The exceptions are what sets
\* odd: no memory for a cipher object, an all zero key that only the software has,
\* one of several keys disabled, LEAP, another network joined with the key of the
\* last, the interface closed or restarted, a reset with keys of different kinds
\* (Mixed) or wholly between setKey and set_swcam.
CamAgrees ==
    (~odd /\ late = <<>> /\ reset = "no") =>
        \A i \in Index : crypt[i] # None =>
            LET c == cam[EntryOf(i)]
            IN  /\ c # None /\ c.key = obj[crypt[i]].key /\ c.type = swcam[EntryOf(i)].type
                /\ EntryOf(i) = Pair /\ bssid = apMac => c.addr = apMac

\* A cipher object is not freed while an encryption or decryption works with it,
\* on one processor.
BusyNotFreed == user.st = "busy" => obj[user.o] # None

\* A retired object is freed in the end: the timer comes back for the ones that
\* were in use.
RetiredFreed == \A o \in Objs : (o \in retired) ~> (o \notin retired)

\* The tables have their types, the adapter's agrees with the software's (setKey,
\* set_swcam, CamRestoreAllEntry), and no cipher object is freed while an encryption
\* or decryption works with it (rtllib_crypt_deinit_entries).
TablesAgree == TypeOK /\ CamAgrees /\ BusyNotFreed
=============================================================================
