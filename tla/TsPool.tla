------------------------------- MODULE TsPool -------------------------------
(***************************************************************************)
(* The pool of traffic stream records of one direction: TSInitialize,      *)
(* GetTs, SearchAdmitTRStream, RemovePeerTS and RemoveAllTS of             *)
(* rtl819x_TSProc.c, on the next and prev pointers of the kernel's lists.  *)
(*                                                                         *)
(* GetTs runs in the transmit path and in the RX tasklet, RemovePeerTS and *)
(* RemoveAllTS in the management code; nothing locks the lists.  The model *)
(* interleaves them between list operations.  Nothing is ever put on the   *)
(* pending lists, so their loops do nothing.                               *)
(***************************************************************************)
EXTENDS Integers, FiniteSets

CONSTANTS
    Dir,      \* "TX" or "RX": which array of records
    NumTs,    \* TOTAL_TS_NUM (16)
    Addrs,    \* unicast addresses
    Group,    \* a broadcast or multicast address
    TIDs      \* TIDs the callers ask for

ASSUME PoolAssumption ==
    /\ Dir \in {"TX", "RX"} /\ NumTs \in Nat \ {0}
    /\ Group \notin Addrs /\ TIDs \subseteq 0..15

Records == 0..(NumTs - 1)
Unused == -1                       \* the head Tx_ or Rx_TS_Unused_List
Admit == -2                        \* the head Tx_ or Rx_TS_Admit_List
Nodes == Records \cup {Unused, Admit}
NULL == -3
None == "none"
AllPeers == "all"
NoKey == [addr |-> None, up |-> 0]

VARIABLES
    list,    \* the List member of every record and of the two list heads
    key,     \* Addr and ucTSID of every record
    qos,     \* current_network.qos_data.supported
    rm,      \* the running RemovePeerTS or RemoveAllTS and its loop variables
    got      \* result of the last GetTs: the request and the record or NULL

poolVars == <<list, key, qos, rm, got>>

Idle == [pc |-> "idle", addr |-> None, pTS |-> Admit, pTmpTS |-> Admit]
NoCall == [key |-> NoKey, add |-> FALSE, ts |-> NULL]

-----------------------------------------------------------------------------
(* The kernel's list operations, pointer by pointer.                       *)
INIT_LIST_HEAD(l, n) == [next |-> [l.next EXCEPT ![n] = n], prev |-> [l.prev EXCEPT ![n] = n]]

list_add_tail(l, n, head) ==
    LET prev == l.prev[head]
    IN  [next |-> [l.next EXCEPT ![n] = head, ![prev] = n], prev |-> [l.prev EXCEPT ![head] = n, ![n] = prev]]

list_del_init(l, n) ==
    LET prev == l.prev[n]
        next == l.next[n]
    IN  INIT_LIST_HEAD([next |-> [l.next EXCEPT ![prev] = next],
                        prev |-> [l.prev EXCEPT ![next] = prev]], n)

(* The nodes a walk along the next pointers visits, up to one of stop: the *)
(* least set that has the first node and, unless it ends there, the next.  *)
Walk(l, from, stop) ==
    LET closed == {S \in SUBSET Nodes : from \in S /\ \A m \in S \ stop : l.next[m] \in S}
    IN  {n \in Nodes : \A S \in closed : n \in S}

OnList(l, head) == Walk(l, l.next[head], {head}) \ {head}

-----------------------------------------------------------------------------
(* TSInitialize.  Its first loop initialises and adds each TX record and,  *)
(* each time round, adds the first RX record; the second loop initialises  *)
(* and adds each RX record.                                                *)
EmptyLists == [next |-> [n \in Nodes |-> n], prev |-> [n \in Nodes |-> n]]
InitAndAdd(l) ==
    LET at[n \in 0..NumTs] ==
            IF n = 0 THEN l
            ELSE list_add_tail(INIT_LIST_HEAD(at[n - 1], n - 1), n - 1, Unused)
    IN  at[NumTs]
AddFirst(l) ==
    LET at[n \in 0..NumTs] == IF n = 0 THEN l ELSE list_add_tail(at[n - 1], 0, Unused)
    IN  at[NumTs]

(* Mutant of TSInitialize: record 0 is added for every record.             *)
TSInitializeAddsFirst == InitAndAdd(AddFirst(EmptyLists))

TSInitialize ==
    IF Dir = "TX" THEN InitAndAdd(EmptyLists) ELSE InitAndAdd(AddFirst(EmptyLists))

PoolInit ==
    /\ list = TSInitialize
    /\ key = [r \in Records |-> NoKey]
    /\ qos \in BOOLEAN
    /\ rm = Idle
    /\ got = NoCall

-----------------------------------------------------------------------------
(* The user priority a TID is served with.                                 *)
UP(tid) ==
    CASE ~qos -> 0
      [] qos /\ tid \in {0, 3} -> 0
      [] qos /\ tid \in {1, 2} -> 2
      [] qos /\ tid \in {4, 5} -> 5
      [] qos /\ tid \in {6, 7} -> 7

(* IsACValid.                                                              *)
Served(a, tid) == a # Group /\ (qos => tid <= 7)

(* Mutant of SearchAdmitTRStream: it misses every record.                  *)
SearchMisses(k) == NULL

(* SearchAdmitTRStream walks to the first admitted record of the stream.   *)
(* All records of a direction have the same ucDirection.                   *)
Of(k) == {r \in Records : key[r] = k}
SearchAdmitTRStream(k) ==
    LET found == Walk(list, list.next[Admit], Of(k) \cup {Admit}) \cap Of(k)
    IN  IF found = {} THEN NULL ELSE CHOOSE r \in found : TRUE

Answer(k, add, ts) == got' = [key |-> k, add |-> add, ts |-> ts]

(* GetTs takes the first unused record for a stream without one; the reset *)
(* of the record and its BA state are in RxReorder and BlockAck.           *)
TakeUnused(k) ==
    LET ts == list.next[Unused]
    IN  /\ list.next[Unused] # Unused
        /\ list' = list_add_tail(list_del_init(list, ts), ts, Admit)
        /\ key' = [key EXCEPT ![ts] = k]
        /\ Answer(k, TRUE, ts)

GetTs(a, tid, bAddNewTs) ==
    LET k == [addr |-> a, up |-> UP(tid)]
        found == SearchAdmitTRStream(k)
    IN  /\ UNCHANGED <<qos, rm>>
        /\ \/ /\ ~Served(a, tid)
              /\ got' = NoCall /\ UNCHANGED <<list, key>>
           \/ /\ Served(a, tid) /\ found # NULL
              /\ Answer(k, bAddNewTs, found) /\ UNCHANGED <<list, key>>
           \/ /\ Served(a, tid) /\ found = NULL /\ ~bAddNewTs
              /\ Answer(k, FALSE, NULL) /\ UNCHANGED <<list, key>>
           \/ Served(a, tid) /\ found = NULL /\ bAddNewTs /\ TakeUnused(k)
           \/ /\ Served(a, tid) /\ found = NULL /\ bAddNewTs /\ list.next[Unused] = Unused
              /\ Answer(k, TRUE, NULL) /\ UNCHANGED <<list, key>>

(* list_for_each_entry_safe over the admitted records.                     *)
StartRemoval(a) ==
    /\ rm.pc = "idle"
    /\ rm' = [pc |-> "loop", addr |-> a,
              pTS |-> list.next[Admit], pTmpTS |-> list.next[list.next[Admit]]]
    /\ got' = NoCall
    /\ UNCHANGED <<list, key, qos>>

RemovePeerTS(a) == StartRemoval(a)
RemoveAllTS == StartRemoval(AllPeers)

(* Mutant of NextRecord: list_for_each_entry, which reads the next pointer *)
(* after the record has moved.                                             *)
NextRecordUnsafe(l) ==
    [rm EXCEPT !.pc = "loop", !.pTS = l.next[rm.pTS], !.pTmpTS = l.next[l.next[rm.pTS]]]

NextRecord(l) == [rm EXCEPT !.pc = "loop", !.pTS = rm.pTmpTS, !.pTmpTS = l.next[rm.pTmpTS]]

(* A record of another peer is passed over.                                *)
Skip ==
    /\ rm.pc = "loop" /\ rm.pTS # Admit
    /\ rm.addr # AllPeers /\ key[rm.pTS].addr # rm.addr
    /\ rm' = NextRecord(list)
    /\ got' = NoCall
    /\ UNCHANGED <<list, key, qos>>

(* Mutant of Unlink: no list_del_init.                                     *)
UnlinkNothing ==
    /\ rm.pc = "loop" /\ rm.pTS # Admit
    /\ rm.addr \in {AllPeers, key[rm.pTS].addr}
    /\ rm' = [rm EXCEPT !.pc = "unlinked"]
    /\ got' = NoCall
    /\ UNCHANGED <<list, key, qos>>

(* RemoveTsEntry and list_del_init.                                        *)
Unlink ==
    /\ rm.pc = "loop" /\ rm.pTS # Admit
    /\ rm.addr \in {AllPeers, key[rm.pTS].addr}
    /\ list' = list_del_init(list, rm.pTS)
    /\ rm' = [rm EXCEPT !.pc = "unlinked"]
    /\ got' = NoCall
    /\ UNCHANGED <<key, qos>>

(* Mutant of Return: no list_add_tail.                                     *)
ReturnNothing ==
    /\ rm.pc = "unlinked"
    /\ rm' = NextRecord(list)
    /\ got' = NoCall
    /\ UNCHANGED <<list, key, qos>>

(* list_add_tail and the step of the loop.                                 *)
Return ==
    /\ rm.pc = "unlinked"
    /\ list' = list_add_tail(list, rm.pTS, Unused)
    /\ rm' = NextRecord(list')
    /\ got' = NoCall
    /\ UNCHANGED <<key, qos>>

EndRemoval ==
    /\ rm.pc = "loop" /\ rm.pTS = Admit
    /\ rm' = Idle
    /\ got' = NoCall
    /\ UNCHANGED <<list, key, qos>>

(* The station joins a network with or without QoS (rtllib_softmac.c).     *)
ChangeNetwork ==
    /\ qos' \in BOOLEAN /\ qos' # qos
    /\ got' = NoCall
    /\ UNCHANGED <<list, key, rm>>

PoolNext ==
    \/ \E a \in Addrs \cup {Group}, tid \in TIDs, add \in BOOLEAN : GetTs(a, tid, add)
    \/ \E a \in Addrs : RemovePeerTS(a)
    \/ RemoveAllTS \/ Skip \/ Unlink \/ Return \/ EndRemoval
    \/ ChangeNetwork

PoolSpec == PoolInit /\ [][PoolNext]_poolVars

-----------------------------------------------------------------------------
Admitted == OnList(list, Admit)
InTransit == IF rm.pc = "unlinked" THEN {rm.pTS} ELSE {}

(* The variables stay in their types: the list operations of GetTs and of  *)
(* the removal loops only link records and heads, and a record's ucTSID is *)
(* one of the four user priorities GetTs maps TIDs to.                     *)
PoolTypeOK ==
    /\ list \in [next : [Nodes -> Nodes], prev : [Nodes -> Nodes]]
    /\ key \in [Records -> [addr : Addrs \cup {None}, up : {0, 2, 5, 7}]]
    /\ qos \in BOOLEAN
    /\ rm.pc \in {"idle", "loop", "unlinked"} /\ rm.pTS \in Nodes /\ rm.pTmpTS \in Nodes
    /\ got.ts \in Records \cup {NULL}

(* Both lists are rings whose prev pointers undo the next pointers, and    *)
(* together they hold every record once, except the one being moved:       *)
(* whatever GetTs does between two steps of a removal loop.                *)
ListsSound ==
    LET unused == OnList(list, Unused) IN
    /\ \A n \in Nodes : list.prev[list.next[n]] = n /\ list.next[list.prev[n]] = n
    /\ unused \cap Admitted = {}
    /\ unused \cup Admitted \cup InTransit = Records
    /\ InTransit \cap (unused \cup Admitted) = {}

(* A removal loop never leaves the admit list: its saved next record is    *)
(* still admitted when the loop gets there.                                *)
LoopOnList == rm.pc # "idle" => rm.pTmpTS \in Admitted \cup {Admit}

(* A peer has one record per user priority.                                *)
OneRecordPerStream == \A r, s \in Admitted : key[r] = key[s] => r = s

(* A stream keeps the record it was given until a removal takes it away:   *)
(* GetTs hands out only records that no stream uses.                       *)
KeepsRecordStep ==
    \/ UNCHANGED <<list, key>>
    \/ {r \in Admitted : ~(rm.pc = "loop" /\ rm.pTS = r)} \subseteq {r \in Admitted' : key'[r] = key[r]}
KeepsRecord == [][KeepsRecordStep]_poolVars

(* The message of GetTs, "There is not enough ... TS record to be used":   *)
(* a stream is refused only when all records are in use.                   *)
RefusedOnlyWhenFull ==
    got.add /\ got.ts = NULL => Cardinality(Admitted \cup InTransit) = NumTs

(* The pool of TSInitialize at every moment: its variables have their types, both  *)
(* lists are sound, and a removal loop (RemovePeerTS, RemoveAllTS) stays on the    *)
(* admit list although GetTs runs between its steps.                               *)
PoolSound == PoolTypeOK /\ ListsSound /\ LoopOnList

(* GetTs: a peer has one record per user priority, and a stream is refused a       *)
(* record only when all are in use.                                                *)
StreamsServed == OneRecordPerStream /\ RefusedOnlyWhenFull
=============================================================================
