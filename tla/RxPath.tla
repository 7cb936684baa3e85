-------------------------------- MODULE RxPath --------------------------------
(***************************************************************************)
(* From the receive ring to the network stack: the adapter fills the       *)
(* descriptors it owns, the interrupt schedules the RX tasklet, rtl8192_rx *)
(* takes one frame after the other, and rtllib_rx drops duplicates, joins   *)
(* fragments and hands the MSDU up.  One sender and one traffic class, the  *)
(* frames addressed to the station; the frames of HT streams go on to       *)
(* RxReorder.                                                              *)
(*                                                                         *)
(* The sender numbers its MSDUs 1, 2, ... (which only the properties see),  *)
(* sends their fragments in order, repeats a fragment whose acknowledgement *)
(* was lost, and gives up an MSDU when it likes.  An acknowledged fragment  *)
(* can still be lost between the adapter and the driver.                    *)
(***************************************************************************)
EXTENDS Integers, Sequences

CONSTANTS
    Ring,      \* priv->rxringcount, 64 in the driver
    CacheLen,  \* RTLLIB_FRAG_CACHE_LEN, 4 in the driver
    SeqMod,    \* sequence numbers, 4096 in the driver
    MaxFrags,  \* bound: fragments of an MSDU
    MaxMsdus,  \* bound: MSDUs sent
    MaxTimes,  \* bound: times one fragment is received
    MaxErrs    \* bound: errors and failed allocations

ASSUME RxPathAssumption ==
    /\ Ring \in Nat \ {0} /\ CacheLen \in Nat \ {0} /\ SeqMod \in Nat \ {0, 1}
    /\ {MaxFrags, MaxMsdus, MaxTimes, MaxErrs} \subseteq Nat

None  == [msdu |-> 0]
Slots == 0 .. Ring - 1

VARIABLES
    tx,      \* the fragment being sent: msdu, frag, of (fragments of the MSDU), times
    lapse,   \* the MSDU sent last when the sender last paused for five seconds
    ring,    \* slot -> the frame in it, None while the adapter owns it
    hwIdx,   \* the slot the adapter fills next
    rxIdx,   \* priv->rx_idx
    rok, rdu, rduMasked, \* interrupt causes; IMR_RDU is cleared
    sched,   \* irq_rx_tasklet is scheduled
    count,   \* frames the running tasklet may still take, -1: not running
    last,    \* last_rxseq_num, last_rxfrag_num, and within 5 seconds of it
    cache,   \* frag_cache: None or the entry
    next,    \* frag_next_idx
    out,     \* what was handed up: the sequence of fragments of each MSDU
    errs,
    cur,     \* of the MSDU being sent: fragments that reached the ring, met an error
    due,     \* MSDUs that reached the ring in full without an error, not yet handed up
    twice    \* a buffer was freed twice

sender == <<tx, lapse>>
irq    == <<rok, rdu, rduMasked, sched>>
frags  == <<last, cache, next>>
hist   == <<errs, cur, due, twice>>
vars   == <<tx, lapse, ring, hwIdx, rxIdx, rok, rdu, rduMasked, sched, count,
            last, cache, next, out, errs, cur, due, twice>>

Init ==
    /\ tx = [msdu |-> 0, frag |-> 0, of |-> 1, times |-> 0] /\ lapse = 0
    /\ ring = [s \in Slots |-> None] /\ hwIdx = 0 /\ rxIdx = 0
    /\ rok = FALSE /\ rdu = FALSE /\ rduMasked = FALSE /\ sched = FALSE /\ count = -1
    /\ last = [seq |-> -1, frag |-> -1, fresh |-> FALSE]
    /\ cache = [i \in 0 .. CacheLen - 1 |-> None] /\ next = 0
    /\ out = <<>> /\ errs = 0 /\ cur = [got |-> {}, hurt |-> FALSE] /\ due = {}
    /\ twice = FALSE
-----------------------------------------------------------------------------
(* The sender and the adapter. *)

\* A new MSDU.  A sequence number is not used again within five seconds.
NewMsdu(n) ==
    /\ tx.msdu < MaxMsdus /\ tx.msdu + 1 - SeqMod <= lapse
    /\ tx' = [msdu |-> tx.msdu + 1, frag |-> 0, of |-> n, times |-> 0]
    /\ cur' = [got |-> {}, hurt |-> FALSE]
    /\ UNCHANGED <<lapse, ring, hwIdx, rxIdx, irq, count, frags, out, errs, due, twice>>

NextFragment ==
    /\ tx.times > 0 /\ tx.frag + 1 < tx.of
    /\ tx' = [tx EXCEPT !.frag = @ + 1, !.times = 0]
    /\ UNCHANGED <<lapse, ring, hwIdx, rxIdx, irq, count, frags, out, hist>>

\* The sender is silent for five seconds: the frames it sent have been handled.
Pause ==
    /\ tx.msdu > lapse /\ ~sched /\ count = -1 /\ \A s \in Slots : ring[s] = None
    /\ lapse' = tx.msdu /\ tx' = [tx EXCEPT !.frag = tx.of - 1, !.times = MaxTimes]
    /\ last' = [last EXCEPT !.fresh = FALSE]
    /\ cache' = [i \in DOMAIN cache |->
                    IF cache[i] = None THEN None ELSE [cache[i] EXCEPT !.old = TRUE]]
    /\ UNCHANGED <<ring, hwIdx, rxIdx, irq, count, next, out, hist>>

\* A frame is received: into the ring, or lost with the cause RDU.  It may have a
\* CRC or ICV error, be too short or without a key (crc), be for another station or
\* fail to decrypt (mpdu), or turn out bad as an MSDU (msdu).
Receive(fate) ==
    /\ tx.msdu > 0 /\ tx.times < MaxTimes /\ tx' = [tx EXCEPT !.times = @ + 1]
    /\ fate # "ok" => errs < MaxErrs
    /\ errs' = IF fate = "ok" THEN errs ELSE errs + 1
    /\ IF ring[hwIdx] = None
       THEN /\ ring' = [ring EXCEPT ![hwIdx] =
                          [msdu |-> tx.msdu, seq |-> tx.msdu % SeqMod, frag |-> tx.frag,
                           more |-> tx.frag + 1 < tx.of, fate |-> fate]]
            /\ hwIdx' = (hwIdx + 1) % Ring /\ rok' = TRUE
            /\ cur' = [got |-> cur.got \cup {tx.frag}, hurt |-> cur.hurt \/ fate # "ok"]
            /\ due' = IF cur'.hurt THEN due \ {tx.msdu}
                      ELSE IF cur'.got # cur.got /\ cur'.got = 0 .. tx.of - 1
                      THEN due \cup {tx.msdu} ELSE due
            /\ UNCHANGED rdu
       ELSE rdu' = TRUE /\ UNCHANGED <<ring, hwIdx, rok, cur, due>>
    /\ UNCHANGED <<lapse, rxIdx, rduMasked, sched, count, frags, out, twice>>

\* Mutant: no tasklet for a cause that comes while one runs.
InterruptWhileIdle ==
    /\ rok \/ (rdu /\ ~rduMasked)
    /\ rok' = FALSE /\ rdu' = FALSE /\ sched' = (sched \/ count = -1)
    /\ rduMasked' = (rduMasked \/ rdu)
    /\ UNCHANGED <<sender, ring, hwIdx, rxIdx, count, frags, out, hist>>

\* rtl8192_interrupt, its receive causes.  ISR is cleared as a whole.
rtl8192_interrupt ==
    /\ rok \/ (rdu /\ ~rduMasked)
    /\ rok' = FALSE /\ rdu' = FALSE /\ sched' = TRUE
    /\ rduMasked' = (rduMasked \/ rdu)
    /\ UNCHANGED <<sender, ring, hwIdx, rxIdx, count, frags, out, hist>>
-----------------------------------------------------------------------------
(* rtllib_rx *)

\* Mutant: the age of the remembered number is not looked at.
DuplicateWhateverAge(f) == last.seq = f.seq /\ last.frag + 1 # f.frag

\* is_duplicate_packet: what it answers, and what it remembers.
is_duplicate_packet(f) ==
    last.seq = f.seq /\ last.fresh /\ last.frag + 1 # f.frag
Remember(f) == last' = [seq |-> f.seq, frag |-> f.frag, fresh |-> TRUE]

\* rtllib_frag_cache_find frees the entries older than two seconds it passes, and
\* stops at the first that matches.
LiveForEver(i) == cache[i] # None   \* mutant: entries do not expire
Live(i) == cache[i] # None /\ ~cache[i].old
rtllib_frag_cache_find(seq, frag) ==
    {i \in DOMAIN cache :
        /\ Live(i) /\ cache[i].seq = seq /\ (frag = -1 \/ cache[i].frag + 1 = frag)
        /\ \A j \in 0 .. i - 1 :
             ~(Live(j) /\ cache[j].seq = seq /\ (frag = -1 \/ cache[j].frag + 1 = frag))}
Swept == [i \in DOMAIN cache |-> IF Live(i) THEN cache[i] ELSE None]

\* rtllib_frag_cache_get for the first fragment: the next entry in turn is used.
FirstFragment(f) ==
    /\ cache' = [cache EXCEPT ![next] =
                    [msdu |-> f.msdu, seq |-> f.seq, frag |-> 0, parts |-> <<f>>, old |-> FALSE]]
    /\ next' = (next + 1) % CacheLen

\* A later one goes to its entry i; the last one takes the frame out of the cache,
\* by the sequence number alone.
LaterFragment(f, i) ==
    /\ cache' = [Swept EXCEPT ![i].frag = f.frag, ![i].parts = Append(@, f)]
    /\ UNCHANGED next
rtllib_frag_cache_invalidate(f) ==
    /\ cache' = [i \in DOMAIN cache |-> IF i \in rtllib_frag_cache_find(f.seq, -1) THEN None ELSE Swept[i]]
    /\ UNCHANGED next

Deliver(parts) ==
    /\ out' = Append(out, parts) /\ due' = due \ {parts[1].msdu} /\ UNCHANGED <<errs, cur, twice>>
Drop == UNCHANGED <<out, errs, cur, due, twice>>

\* An error that the MSDUs ms meet.
Fault(ms) ==
    /\ errs < MaxErrs /\ errs' = errs + 1 /\ due' = due \ ms
    /\ cur' = [cur EXCEPT !.hurt = @ \/ tx.msdu \in ms] /\ UNCHANGED <<out, twice>>

\* A whole frame, or a frame that was joined in a buffer of its own: the buffer
\* the frame came in has been freed, and a drop makes the caller free it again.
Msdu(f, parts, joined) ==
    \/ f.fate = "ok" /\ Deliver(parts)
    \/ f.fate = "msdu" /\ twice' = (twice \/ joined) /\ UNCHANGED <<out, errs, cur, due>>

\* What the frame control field, the addresses or the decryption of the frame say
\* against it.  The fragment has been remembered by then.
Filtered(f) == f.fate = "mpdu" /\ Drop /\ UNCHANGED <<cache, next>>

\* A fragment: the first needs a buffer, a later one its entry in the cache.
Fragment(f) ==
    IF f.frag = 0
    THEN \/ FirstFragment(f) /\ Drop
         \/ Fault({f.msdu}) /\ UNCHANGED <<cache, next>>
    ELSE LET hit == rtllib_frag_cache_find(f.seq, f.frag)
         IN  \/ hit = {} /\ Drop /\ cache' = Swept /\ UNCHANGED next
             \/ f.more /\ (\E i \in hit : LaterFragment(f, i)) /\ Drop
             \/ /\ ~f.more /\ rtllib_frag_cache_invalidate(f)
                /\ \E i \in hit : Msdu(f, Append(cache[i].parts, f), TRUE)

rtllib_rx(f) ==
    IF is_duplicate_packet(f) THEN Drop /\ UNCHANGED frags
    ELSE /\ Remember(f)
         /\ \/ Filtered(f)
            \/ /\ f.fate # "mpdu"
               /\ \/ f.frag = 0 /\ ~f.more /\ Msdu(f, <<f>>, FALSE) /\ UNCHANGED <<cache, next>>
                  \/ (f.frag # 0 \/ f.more) /\ Fragment(f)
-----------------------------------------------------------------------------
(* rtl8192_irq_rx_tasklet and rtl8192_rx *)

TaskletStarts ==
    /\ sched /\ count = -1 /\ sched' = FALSE /\ count' = Ring
    /\ UNCHANGED <<sender, ring, hwIdx, rxIdx, rok, rdu, rduMasked, frags, out, hist>>

\* rtl8192_rx_query_status_desc refuses frames with an error and short ones, and
\* rtllib_rx those without a key, before it remembers them.
rtl8192_rx_query_status_desc(f) == f.fate # "crc"

\* One turn of the loop.  The slot gets a new buffer, or keeps the old one if the
\* frame had an error or there is no memory.
RxFrame ==
    /\ count > 0 /\ ring[rxIdx] # None
    /\ ring' = [ring EXCEPT ![rxIdx] = None] /\ rxIdx' = (rxIdx + 1) % Ring
    /\ count' = count - 1
    /\ IF rtl8192_rx_query_status_desc(ring[rxIdx]) THEN rtllib_rx(ring[rxIdx])
       ELSE Drop /\ UNCHANGED frags
    /\ UNCHANGED <<sender, hwIdx, irq>>

\* The end of the loop and of the tasklet: RDU is unmasked.
TaskletEnds ==
    /\ count = 0 \/ (count > 0 /\ ring[rxIdx] = None)
    /\ count' = -1 /\ rduMasked' = FALSE
    /\ UNCHANGED <<sender, ring, hwIdx, rxIdx, rok, rdu, sched, frags, out, hist>>

\* rtl8192_pci_resetdescring: the frames in the ring are lost.
rtl8192_pci_resetdescring ==
    /\ count = -1 /\ Fault({ring[s].msdu : s \in Slots})
    /\ ring' = [s \in Slots |-> None] /\ rxIdx' = 0 /\ hwIdx' = 0
    /\ UNCHANGED <<sender, irq, count, frags>>

Next ==
    \/ (\E n \in 1 .. MaxFrags : NewMsdu(n)) \/ NextFragment \/ Pause
    \/ (\E fate \in {"ok", "crc", "mpdu", "msdu"} : Receive(fate))
    \/ rtl8192_interrupt \/ TaskletStarts \/ RxFrame \/ TaskletEnds \/ rtl8192_pci_resetdescring

Spec == Init /\ [][Next]_vars
FairSpec == /\ Spec /\ WF_vars(rtl8192_interrupt) /\ WF_vars(TaskletStarts)
            /\ WF_vars(RxFrame) /\ WF_vars(TaskletEnds)
-----------------------------------------------------------------------------
TypeOK ==
    /\ hwIdx \in Slots /\ rxIdx \in Slots /\ count \in -1 .. Ring /\ next \in DOMAIN cache
    /\ errs \in 0 .. MaxErrs

\* What is handed up is one MSDU, all of it, in the order of its fragments: no
\* fragment of another frame with the same sequence number is joined to it.
Whole ==
    \A k \in DOMAIN out : LET p == out[k] IN
        /\ \A i \in DOMAIN p : p[i].msdu = p[1].msdu /\ p[i].frag = i - 1
        /\ ~p[Len(p)].more

\* MSDUs are handed up in the order they were sent, each at most once, whatever
\* is repeated.
InOrder == \A j, k \in DOMAIN out : j < k => out[j][1].msdu < out[k][1].msdu

\* An MSDU whose fragments all reached the ring without error is handed up: it is
\* not taken for a duplicate, nor for a fragment out of order.
NothingLost == (\A s \in Slots : ring[s] = None) => due = {}

\* A frame in the ring is taken out of it: the interrupt that comes while the
\* tasklet runs starts it again, also when the tasklet stopped at its limit.
RingServed == \A s \in Slots : (ring[s] # None) ~> (ring[s] = None)

\* A buffer is freed once.
FreedOnce == ~twice

\* What rtllib_rx hands up: whole MSDUs, in order, each at most once, although the
\* duplicate filter and the fragment cache know sequence numbers only.
Delivered == TypeOK /\ Whole /\ InOrder
=============================================================================
