---------------------------- MODULE AdapterProofs ----------------------------
(***************************************************************************)
(* Whatever the user, the watchdog and rtl8192_restart do, in any order:   *)
(* the flags of a reset are returned, a closed interface is down, and one  *)
(* that works has its watchdog; and a firmware download that fits once     *)
(* fits always.  For every image, ring size and number of retries, and for *)
(* every number of calls and hangs.  And whatever threads ask for a channel *)
(* and a bandwidth: the radio is as the last accepted request wanted it.   *)
(***************************************************************************)
EXTENDS MCAdapter, Sequences, TLAPS

(* Where a thread is starting the adapter, and where it holds wx_sem.      *)
Starting == {"start", "startRf", "started", "failed"}
Holding == Starting \cup {"unlock"}

(* wx_sem is held by the call that took it.  The silent reset holds it     *)
(* only while it brings the interface down.                                *)
Holders ==
    /\ pc["us"] \in Holding \cup {"cancel"} => sem = "us"
    /\ pc["rs"] \in Holding => sem = "rs"
    /\ pc["wd"] = "cancel" => sem = "wd"

(* A start failed, or a close met a reset.                                 *)
Odd == "failed" \in stray \/ "skipped" \in stray

Opening == pc["us"] = "open" => admin = "opening"

(* An interface that the reset has taken down is open.  That is why a      *)
(* reset does not bring up a closed one: it begins only when up is set.    *)
TakenDown == pc["wd"] \in {"cancel", "up"} => Odd \/ (admin = "up" /\ ~up)

(* An interface that is up was opened or is being opened.                  *)
UpWasOpened ==
    up /\ admin # "up" => Odd \/ (admin = "opening" /\ pc["us"] \in Starting)

(* priv->up is set at the beginning of a start and the timer started at    *)
(* its end; whoever stops the timer clears priv->up with it.               *)
Watched ==
    up /\ adapter = "ready" => timer \/ \E t \in Threads : pc[t] \in {"start", "started"}

Inv ==
    /\ TypeOK /\ FirmwareFits /\ FlagsReturned
    /\ Holders /\ Opening /\ TakenDown /\ UpWasOpened /\ Watched

-----------------------------------------------------------------------------
(* The firmware.                                                           *)

(* An image is cut into a number of packets.                               *)
LEMMA PacketsNat ==
    ASSUME NEW len \in Nat
    PROVE  Packets(len) \in Nat
<1>1. Threshold \in Nat \ {0} /\ len + Threshold - 1 \in Nat
  BY ImageAssumption
<1>2. \A a \in Nat, b \in Nat \ {0} : a \div b \in Nat
  OBVIOUS
<1> QED
  BY <1>1, <1>2 DEF Packets

LEMMA FirmwareNat == FirmwarePackets \in Nat
<1>1. ImageLen[1] \in Nat /\ ImageLen[2] \in Nat /\ ImageLen[3] \in Nat
  BY ImageAssumption
<1> QED
  BY <1>1, PacketsNat DEF FirmwarePackets

(* A download into the emptied ring leaves nothing waiting.                *)
LEMMA Download ==
    ASSUME TypeOK, FirmwareFits, init_firmware(rtl8192_pci_resetdescring)
    PROVE  cmdWait' = FALSE /\ cmd' \in 0 .. CmdEntries
<1>1. FirmwarePackets \in Nat /\ CmdEntries \in Nat /\ FirmwarePackets <= CmdEntries - 1
  BY FirmwareNat, SizeAssumption, FitAssumption
<1>2. cmdWait = FALSE
  BY DEF TypeOK, FirmwareFits
<1>3. ~(FirmwarePackets > CmdEntries - 1 - 0)
  BY <1>1
<1>4. cmdWait' = FALSE
  BY <1>2, <1>3 DEF init_firmware, rtl8192_pci_resetdescring
<1>5. cmd' = 0 + FirmwarePackets
  BY <1>2, <1>3 DEF init_firmware, rtl8192_pci_resetdescring
<1> QED
  BY <1>1, <1>4, <1>5

-----------------------------------------------------------------------------
(* The initial state satisfies the invariant.                              *)
LEMMA InvInit == Init => Inv
<1>1. {CmdEntries, FwRetries, ResetTimes} \subseteq Nat
  BY SizeAssumption
<1>2. Init => TypeOK
  <2> SUFFICES ASSUME Init PROVE TypeOK
    OBVIOUS
  <2>1. {up, hung, timer, wdq, rsq, silent, rfChange, forced, cmdWait} \subseteq BOOLEAN
    BY DEF Init
  <2>2. /\ admin \in {"down", "opening", "up"} /\ sem \in Threads \cup {Free}
        /\ adapter \in {"halted", "partial", "ready"}
        /\ stray \subseteq {"returned", "skipped", "failed"}
    BY DEF Init
  <2>3. cnt \in 0 .. 3 /\ cmd \in 0 .. CmdEntries /\ times \in 0 .. ResetTimes
    BY <1>1 DEF Init
  <2>4. pc \in [Threads -> Points]
    BY DEF Init, Points
  <2>5. tries \in [Threads -> 0 .. FwRetries]
    BY <1>1 DEF Init
  <2> QED
    BY <2>1, <2>2, <2>3, <2>4, <2>5 DEF TypeOK
<1> QED
  BY <1>2 DEF Init, Inv, FirmwareFits, FlagsReturned, Holders, Opening, TakenDown,
              UpWasOpened, Watched, Holding, Starting, Threads

-----------------------------------------------------------------------------
(* Types.                                                                  *)
Flag(b) == b \in BOOLEAN

LEMMA TypeParts ==
    TypeOK <=>
      /\ Flag(up) /\ Flag(hung) /\ Flag(timer) /\ Flag(wdq) /\ Flag(rsq) /\ Flag(silent)
      /\ Flag(rfChange) /\ Flag(forced) /\ Flag(cmdWait)
      /\ admin \in {"down", "opening", "up"}
      /\ sem \in Threads \cup {Free} /\ adapter \in {"halted", "partial", "ready"}
      /\ pc \in [Threads -> Points]
      /\ cnt \in 0 .. 3 /\ cmd \in 0 .. CmdEntries /\ times \in 0 .. ResetTimes
      /\ tries \in [Threads -> 0 .. FwRetries]
      /\ stray \subseteq {"returned", "skipped", "failed"}
BY DEF TypeOK, Flag

(* The types in three groups, before and after a step.                     *)
Switches ==
    /\ up \in BOOLEAN /\ hung \in BOOLEAN /\ timer \in BOOLEAN /\ wdq \in BOOLEAN /\ rsq \in BOOLEAN
    /\ silent \in BOOLEAN /\ rfChange \in BOOLEAN /\ forced \in BOOLEAN /\ cmdWait = FALSE
Modes ==
    /\ admin \in {"down", "opening", "up"} /\ sem \in Threads \cup {Free}
    /\ adapter \in {"halted", "partial", "ready"} /\ stray \subseteq {"returned", "skipped", "failed"}
Counts ==
    /\ cnt \in 0 .. 3 /\ cmd \in 0 .. CmdEntries /\ times \in 0 .. ResetTimes
    /\ pc \in [Threads -> Points] /\ tries \in [Threads -> 0 .. FwRetries]

LEMMA PartsNow == ASSUME TypeOK, FirmwareFits PROVE Switches /\ Modes /\ Counts
<1>1. Switches
  BY DEF TypeOK, FirmwareFits, Switches
<1>2. Modes
  BY DEF TypeOK, Modes
<1>3. Counts
  BY DEF TypeOK, Counts
<1> QED
  BY <1>1, <1>2, <1>3

LEMMA PartsThen == ASSUME Switches', Modes', Counts' PROVE TypeOK' /\ FirmwareFits'
BY DEF TypeOK, FirmwareFits, Switches, Modes, Counts

(* A thread goes to another point.                                         *)
LEMMA GoType ==
    ASSUME pc \in [Threads -> Points], NEW t \in Threads, NEW to \in Points, Go(t, to)
    PROVE  pc' \in [Threads -> Points]
BY DEF Go

(* A start begins with no retry made.                                      *)
LEMMA UpType ==
    ASSUME TypeOK, NEW t \in Threads, _rtl8192_up(t)
    PROVE  up' = TRUE /\ tries' \in [Threads -> 0 .. FwRetries] /\ pc' \in [Threads -> Points]
<1>1. FwRetries \in Nat
  BY SizeAssumption
<1> QED
  BY <1>1, GoType DEF _rtl8192_up, TypeOK, Points

(* The steps of a start keep the types.                                    *)
LEMMA StartType ==
    ASSUME TypeOK, FirmwareFits, NEW t \in Threads, Start(t)
    PROVE  TypeOK' /\ FirmwareFits'
<1>1. CASE StartHw(t)
  <2>1. /\ adapter' = "partial"
        /\ UNCHANGED <<up, admin, sem, hung, timer, wdq, rsq, silent, rfChange, forced, cnt,
                       times, hangs, calls, stray>>
    BY <1>1 DEF StartHw, work, flags
  <2>2. cmdWait' = FALSE /\ cmd' \in 0 .. CmdEntries
    BY <1>1, Download DEF StartHw, TypeOK, FirmwareFits
  <2>3. pc' \in [Threads -> Points]
    BY <1>1, GoType DEF StartHw, TypeOK, Points
  <2>4. tries' \in [Threads -> 0 .. FwRetries]
    BY <1>1, SizeAssumption DEF StartHw, TypeOK
  <2>a. Switches /\ Modes /\ Counts
    BY ONLY TypeOK, FirmwareFits, PartsNow
  <2>b. Switches'
    BY ONLY <2>1, <2>2, <2>3, <2>4, <2>a DEF Switches
  <2>c. Modes'
    BY ONLY <2>1, <2>2, <2>3, <2>4, <2>a DEF Modes
  <2>d. Counts'
    BY ONLY <2>1, <2>2, <2>3, <2>4, <2>a DEF Counts
  <2> QED
    BY ONLY <2>b, <2>c, <2>d, PartsThen
<1>2. CASE StartRf(t)
  <2>1. pc' \in [Threads -> Points]
    BY <1>2, GoType DEF StartRf, TypeOK, Points
  <2>a. Switches /\ Modes /\ Counts
    BY ONLY TypeOK, FirmwareFits, PartsNow
  <2>b. Switches'
    BY ONLY <1>2, <2>1, <2>a DEF Switches, StartRf, work, flags, loc
  <2>c. Modes'
    BY ONLY <1>2, <2>1, <2>a DEF Modes, StartRf, work, flags, loc
  <2>d. Counts'
    BY ONLY <1>2, <2>1, <2>a DEF Counts, StartRf, work, flags, loc
  <2> QED
    BY ONLY <2>b, <2>c, <2>d, PartsThen
<1> QED
  BY <1>1, <1>2 DEF Start

(* The steps of the silent reset keep the types.                           *)
LEMMA SilentType ==
    ASSUME TypeOK, FirmwareFits, Silent
    PROVE  TypeOK' /\ FirmwareFits'
<1> USE DEF TypeOK, Flag, FirmwareFits, work, flags, chip, loc
<1>a. "wd" \in Threads /\ "us" \in Threads /\ "rs" \in Threads
  BY DEF Threads
<1>1. CASE rtl819x_watchdog_wqcallback
  <2>1. /\ UNCHANGED <<up, admin, sem, adapter, hung, cmd, cmdWait, timer, rsq, tries, stray>>
        /\ wdq' = FALSE
    BY <1>1 DEF rtl819x_watchdog_wqcallback
  <2>2. pc' \in [Threads -> Points]
    BY <1>1, <1>a, GoType DEF rtl819x_watchdog_wqcallback, TypeOK, Points
  <2>3. cnt' \in 0 .. 3
    BY <1>1 DEF rtl819x_watchdog_wqcallback, TypeOK
  <2>4. times' \in 0 .. ResetTimes
    BY <1>1, SizeAssumption DEF rtl819x_watchdog_wqcallback, TypeOK
  <2>5. Flag(silent') /\ Flag(rfChange') /\ Flag(forced')
    BY <1>1, TypeParts DEF rtl819x_watchdog_wqcallback
  <2> HIDE DEF TypeOK, Flag, FirmwareFits
  <2>a. Switches /\ Modes /\ Counts
    BY ONLY TypeOK, FirmwareFits, PartsNow
  <2>b. Switches'
    BY ONLY <2>1, <2>2, <2>3, <2>4, <2>5, <2>a DEF Switches, Flag
  <2>c. Modes'
    BY ONLY <2>1, <2>2, <2>3, <2>4, <2>5, <2>a DEF Modes, Flag
  <2>d. Counts'
    BY ONLY <2>1, <2>2, <2>3, <2>4, <2>5, <2>a DEF Counts, Flag
  <2> QED
    BY ONLY <2>b, <2>c, <2>d, PartsThen
<1>2. CASE ResetLocks
  <2>1. pc' \in [Threads -> Points]
    BY <1>2, <1>a, GoType DEF ResetLocks, TypeOK, Points
  <2> HIDE DEF TypeOK, Flag, FirmwareFits
  <2>a. Switches /\ Modes /\ Counts
    BY ONLY TypeOK, FirmwareFits, PartsNow
  <2>b. Switches'
    BY ONLY <1>2, <1>a, <2>1, <2>a DEF Switches, ResetLocks, Take, work, flags, chip, loc
  <2>c. Modes'
    BY ONLY <1>2, <1>a, <2>1, <2>a DEF Modes, ResetLocks, Take, work, flags, chip, loc
  <2>d. Counts'
    BY ONLY <1>2, <1>a, <2>1, <2>a DEF Counts, ResetLocks, Take, work, flags, chip, loc
  <2> QED
    BY ONLY <2>b, <2>c, <2>d, PartsThen
<1>3. CASE ResetDown
  <2>1. pc' \in [Threads -> Points]
    BY <1>3, <1>a, GoType DEF ResetDown, TypeOK, Points
  <2> HIDE DEF TypeOK, Flag, FirmwareFits
  <2>a. Switches /\ Modes /\ Counts
    BY ONLY TypeOK, FirmwareFits, PartsNow
  <2>b. Switches'
    BY ONLY <1>3, <2>1, <2>a DEF Switches, ResetDown, CancelReset, rtl8192_halt_adapter, Release, work, flags, chip, loc
  <2>c. Modes'
    BY ONLY <1>3, <2>1, <2>a DEF Modes, ResetDown, CancelReset, rtl8192_halt_adapter, Release, work, flags, chip, loc
  <2>d. Counts'
    BY ONLY <1>3, <2>1, <2>a DEF Counts, ResetDown, CancelReset, rtl8192_halt_adapter, Release, work, flags, chip, loc
  <2> QED
    BY ONLY <2>b, <2>c, <2>d, PartsThen
<1>4. CASE ResetUp
  <2>1. up' = TRUE /\ tries' \in [Threads -> 0 .. FwRetries] /\ pc' \in [Threads -> Points]
    BY <1>4, <1>a, UpType DEF ResetUp
  <2> HIDE DEF TypeOK, Flag, FirmwareFits
  <2>a. Switches /\ Modes /\ Counts
    BY ONLY TypeOK, FirmwareFits, PartsNow
  <2>b. Switches'
    BY ONLY <1>4, <2>1, <2>a DEF Switches, ResetUp, work, flags, chip, loc
  <2>c. Modes'
    BY ONLY <1>4, <2>1, <2>a DEF Modes, ResetUp, work, flags, chip, loc
  <2>d. Counts'
    BY ONLY <1>4, <2>1, <2>a DEF Counts, ResetUp, work, flags, chip, loc
  <2> QED
    BY ONLY <2>b, <2>c, <2>d, PartsThen
<1>5. CASE ResetRetries
  <2>1. pc' \in [Threads -> Points]
    BY <1>5, <1>a, GoType DEF ResetRetries, TypeOK, Points
  <2>2. times' \in 0 .. ResetTimes
    BY <1>5, SizeAssumption DEF ResetRetries, TypeOK
  <2> HIDE DEF TypeOK, Flag, FirmwareFits
  <2>a. Switches /\ Modes /\ Counts
    BY ONLY TypeOK, FirmwareFits, PartsNow
  <2>b. Switches'
    BY ONLY <1>5, <2>1, <2>2, <2>a DEF Switches, ResetRetries, work, flags, chip, loc
  <2>c. Modes'
    BY ONLY <1>5, <2>1, <2>2, <2>a DEF Modes, ResetRetries, work, flags, chip, loc
  <2>d. Counts'
    BY ONLY <1>5, <2>1, <2>2, <2>a DEF Counts, ResetRetries, work, flags, chip, loc
  <2> QED
    BY ONLY <2>b, <2>c, <2>d, PartsThen
<1>6. CASE ResetStarted
  <2>1. pc' \in [Threads -> Points]
    BY <1>6, <1>a, GoType DEF ResetStarted, UpEnds, TypeOK, Points
  <2> HIDE DEF TypeOK, Flag, FirmwareFits
  <2>a. Switches /\ Modes /\ Counts
    BY ONLY TypeOK, FirmwareFits, PartsNow
  <2>b. Switches'
    BY ONLY <1>6, <2>1, <2>a DEF Switches, ResetStarted, UpEnds, Opened, work, flags, chip, loc
  <2>c. Modes'
    BY ONLY <1>6, <2>1, <2>a DEF Modes, ResetStarted, UpEnds, Opened, work, flags, chip, loc
  <2>d. Counts'
    BY ONLY <1>6, <2>1, <2>a DEF Counts, ResetStarted, UpEnds, Opened, work, flags, chip, loc
  <2> QED
    BY ONLY <2>b, <2>c, <2>d, PartsThen
<1>7. CASE ResetEnds
  <2>1. pc' \in [Threads -> Points]
    BY <1>7, <1>a, GoType DEF ResetEnds, TypeOK, Points
  <2> HIDE DEF TypeOK, Flag, FirmwareFits
  <2>a. Switches /\ Modes /\ Counts
    BY ONLY TypeOK, FirmwareFits, PartsNow
  <2>b. Switches'
    BY ONLY <1>7, <2>1, <2>a DEF Switches, ResetEnds, work, flags, chip, loc
  <2>c. Modes'
    BY ONLY <1>7, <2>1, <2>a DEF Modes, ResetEnds, work, flags, chip, loc
  <2>d. Counts'
    BY ONLY <1>7, <2>1, <2>a DEF Counts, ResetEnds, work, flags, chip, loc
  <2> QED
    BY ONLY <2>b, <2>c, <2>d, PartsThen
<1> QED
  BY <1>1, <1>2, <1>3, <1>4, <1>5, <1>6, <1>7 DEF Silent

(* The end of a call and of a commit, on either thread.                    *)
LEMMA CommitType ==
    ASSUME TypeOK, FirmwareFits, NEW t \in {"rs", "us"},
           rtl8192_commit(t) \/ CommitEnds(t) \/ Unlock(t)
    PROVE  TypeOK' /\ FirmwareFits'
<1> USE DEF TypeOK, Flag, FirmwareFits, work, flags, chip, loc
<1>a. t \in Threads
  BY DEF Threads
<1>1. CASE rtl8192_commit(t)
  <2>1. up' \in BOOLEAN /\ tries' \in [Threads -> 0 .. FwRetries] /\ pc' \in [Threads -> Points]
    BY <1>1, <1>a, UpType, GoType DEF rtl8192_commit, Points
  <2> HIDE DEF TypeOK, Flag, FirmwareFits
  <2>a. Switches /\ Modes /\ Counts
    BY ONLY TypeOK, FirmwareFits, PartsNow
  <2>b. Switches'
    BY ONLY <1>1, <1>a, <2>1, <2>a DEF Switches, rtl8192_commit, rtl8192_halt_adapter, Take, work, flags, chip, loc
  <2>c. Modes'
    BY ONLY <1>1, <1>a, <2>1, <2>a DEF Modes, rtl8192_commit, rtl8192_halt_adapter, Take, work, flags, chip, loc
  <2>d. Counts'
    BY ONLY <1>1, <1>a, <2>1, <2>a DEF Counts, rtl8192_commit, rtl8192_halt_adapter, Take, work, flags, chip, loc
  <2> QED
    BY ONLY <2>b, <2>c, <2>d, PartsThen
<1>2. CASE CommitEnds(t)
  <2>1. pc' \in [Threads -> Points]
    BY <1>2, <1>a, GoType DEF CommitEnds, UpEnds, Points
  <2>2. CASE UpEnds(t, "unlock") /\ UNCHANGED stray
    <3> HIDE DEF TypeOK, Flag, FirmwareFits
    <3>a. Switches /\ Modes /\ Counts
      BY ONLY TypeOK, FirmwareFits, PartsNow
    <3>b. Switches'
      BY ONLY <2>1, <2>2, <3>a DEF Switches, UpEnds, Opened, work, flags, chip, loc
    <3>c. Modes'
      BY ONLY <2>1, <2>2, <3>a DEF Modes, UpEnds, Opened, work, flags, chip, loc
    <3>d. Counts'
      BY ONLY <2>1, <2>2, <3>a DEF Counts, UpEnds, Opened, work, flags, chip, loc
    <3> QED
      BY ONLY <3>b, <3>c, <3>d, PartsThen
  <2>3. CASE /\ stray' = stray \cup {"failed"}
             /\ UNCHANGED <<up, admin, sem, chip, work, flags, loc, hangs, calls>>
    <3> HIDE DEF TypeOK, Flag, FirmwareFits
    <3>a. Switches /\ Modes /\ Counts
      BY ONLY TypeOK, FirmwareFits, PartsNow
    <3>b. Switches'
      BY ONLY <2>1, <2>3, <3>a DEF Switches, work, flags, chip, loc
    <3>c. Modes'
      BY ONLY <2>1, <2>3, <3>a DEF Modes, work, flags, chip, loc
    <3>d. Counts'
      BY ONLY <2>1, <2>3, <3>a DEF Counts, work, flags, chip, loc
    <3> QED
      BY ONLY <3>b, <3>c, <3>d, PartsThen
  <2> QED
    BY <1>2, <2>2, <2>3 DEF CommitEnds
<1>3. CASE Unlock(t)
  <2>1. pc' \in [Threads -> Points]
    BY <1>3, <1>a, GoType DEF Unlock, Points
  <2> HIDE DEF TypeOK, Flag, FirmwareFits
  <2>a. Switches /\ Modes /\ Counts
    BY ONLY TypeOK, FirmwareFits, PartsNow
  <2>b. Switches'
    BY ONLY <1>3, <2>1, <2>a DEF Switches, Unlock, Release, Returned, work, flags, chip, loc
  <2>c. Modes'
    BY ONLY <1>3, <2>1, <2>a DEF Modes, Unlock, Release, Returned, work, flags, chip, loc
  <2>d. Counts'
    BY ONLY <1>3, <2>1, <2>a DEF Counts, Unlock, Release, Returned, work, flags, chip, loc
  <2> QED
    BY ONLY <2>b, <2>c, <2>d, PartsThen
<1> QED
  BY <1>1, <1>2, <1>3

(* The user's calls keep the types.                                        *)
LEMMA UserType ==
    ASSUME TypeOK, FirmwareFits, User \/ Calls
    PROVE  TypeOK' /\ FirmwareFits'
<1> USE DEF TypeOK, Flag, FirmwareFits, work, flags, chip, loc
<1>a. "us" \in Threads
  BY DEF Threads
<1>1. CASE r8192_wx_force_reset
  <2>1. pc' \in [Threads -> Points]
    BY <1>1, <1>a, GoType DEF r8192_wx_force_reset, Points
  <2> HIDE DEF TypeOK, Flag, FirmwareFits
  <2>a. Switches /\ Modes /\ Counts
    BY ONLY TypeOK, FirmwareFits, PartsNow
  <2>b. Switches'
    BY ONLY <1>1, <2>1, <2>a DEF Switches, r8192_wx_force_reset, work, flags, chip, loc
  <2>c. Modes'
    BY ONLY <1>1, <2>1, <2>a DEF Modes, r8192_wx_force_reset, work, flags, chip, loc
  <2>d. Counts'
    BY ONLY <1>1, <2>1, <2>a DEF Counts, r8192_wx_force_reset, work, flags, chip, loc
  <2> QED
    BY ONLY <2>b, <2>c, <2>d, PartsThen
<1>2. CASE rtl8192_open
  <2>1. up' \in BOOLEAN /\ tries' \in [Threads -> 0 .. FwRetries] /\ pc' \in [Threads -> Points]
    BY <1>2, <1>a, UpType, GoType DEF rtl8192_open, Points
  <2> HIDE DEF TypeOK, Flag, FirmwareFits
  <2>a. Switches /\ Modes /\ Counts
    BY ONLY TypeOK, FirmwareFits, PartsNow
  <2>b. Switches'
    BY ONLY <1>2, <1>a, <2>1, <2>a DEF Switches, rtl8192_open, Take, work, flags, chip, loc
  <2>c. Modes'
    BY ONLY <1>2, <1>a, <2>1, <2>a DEF Modes, rtl8192_open, Take, work, flags, chip, loc
  <2>d. Counts'
    BY ONLY <1>2, <1>a, <2>1, <2>a DEF Counts, rtl8192_open, Take, work, flags, chip, loc
  <2> QED
    BY ONLY <2>b, <2>c, <2>d, PartsThen
<1>3. CASE rtl8192_close
  <2>1. pc' \in [Threads -> Points]
    BY <1>3, <1>a, GoType DEF rtl8192_close, Points
  <2> HIDE DEF TypeOK, Flag, FirmwareFits
  <2>a. Switches /\ Modes /\ Counts
    BY ONLY TypeOK, FirmwareFits, PartsNow
  <2>b. Switches'
    BY ONLY <1>3, <1>a, <2>1, <2>a DEF Switches, rtl8192_close, Take, work, flags, chip, loc
  <2>c. Modes'
    BY ONLY <1>3, <1>a, <2>1, <2>a DEF Modes, rtl8192_close, Take, work, flags, chip, loc
  <2>d. Counts'
    BY ONLY <1>3, <1>a, <2>1, <2>a DEF Counts, rtl8192_close, Take, work, flags, chip, loc
  <2> QED
    BY ONLY <2>b, <2>c, <2>d, PartsThen
<1>4. CASE rtl8192_down
  <2>1. pc' \in [Threads -> Points]
    BY <1>4, <1>a, GoType DEF rtl8192_down, Points
  <2> HIDE DEF TypeOK, Flag, FirmwareFits
  <2>a. Switches /\ Modes /\ Counts
    BY ONLY TypeOK, FirmwareFits, PartsNow
  <2>b. Switches'
    BY ONLY <1>4, <2>1, <2>a DEF Switches, rtl8192_down, CancelReset, rtl8192_halt_adapter, work, flags, chip, loc
  <2>c. Modes'
    BY ONLY <1>4, <2>1, <2>a DEF Modes, rtl8192_down, CancelReset, rtl8192_halt_adapter, work, flags, chip, loc
  <2>d. Counts'
    BY ONLY <1>4, <2>1, <2>a DEF Counts, rtl8192_down, CancelReset, rtl8192_halt_adapter, work, flags, chip, loc
  <2> QED
    BY ONLY <2>b, <2>c, <2>d, PartsThen
<1>5. CASE rtl8192_commit("us") \/ CommitEnds("us") \/ Unlock("us")
  BY <1>5, CommitType
<1>6. ASSUME NEW what \in {"commit", "force", "close", "open"}, Call(what)
      PROVE  TypeOK' /\ FirmwareFits'
  <2>1. pc' \in [Threads -> Points]
    BY <1>6, <1>a, GoType DEF Call, Points
  <2> HIDE DEF TypeOK, Flag, FirmwareFits
  <2>a. Switches /\ Modes /\ Counts
    BY ONLY TypeOK, FirmwareFits, PartsNow
  <2>b. Switches'
    BY ONLY <1>6, <2>1, <2>a DEF Switches, Call, work, flags, chip, loc
  <2>c. Modes'
    BY ONLY <1>6, <2>1, <2>a DEF Modes, Call, work, flags, chip, loc
  <2>d. Counts'
    BY ONLY <1>6, <2>1, <2>a DEF Counts, Call, work, flags, chip, loc
  <2> QED
    BY ONLY <2>b, <2>c, <2>d, PartsThen
<1> QED
  BY <1>1, <1>2, <1>3, <1>4, <1>5, <1>6 DEF User, Calls

(* rtl8192_restart, the timers and the adapter keep the types.             *)
LEMMA RestType ==
    ASSUME TypeOK, FirmwareFits,
           Restart \/ watch_dog_timer_callback \/ tx_timeout \/ Hang \/ UNCHANGED vars
    PROVE  TypeOK' /\ FirmwareFits'
<1> USE DEF TypeOK, Flag, FirmwareFits, work, flags, chip, loc
<1>1. CASE rtl8192_restart
  <2>1. pc' \in [Threads -> Points]
    BY <1>1, GoType DEF rtl8192_restart, Points, Threads
  <2> HIDE DEF TypeOK, Flag, FirmwareFits
  <2>a. Switches /\ Modes /\ Counts
    BY ONLY TypeOK, FirmwareFits, PartsNow
  <2>b. Switches'
    BY ONLY <1>1, <2>1, <2>a DEF Switches, rtl8192_restart, work, flags, chip, loc
  <2>c. Modes'
    BY ONLY <1>1, <2>1, <2>a DEF Modes, rtl8192_restart, work, flags, chip, loc
  <2>d. Counts'
    BY ONLY <1>1, <2>1, <2>a DEF Counts, rtl8192_restart, work, flags, chip, loc
  <2> QED
    BY ONLY <2>b, <2>c, <2>d, PartsThen
<1>2. CASE rtl8192_commit("rs") \/ CommitEnds("rs") \/ Unlock("rs")
  BY <1>2, CommitType
<1>3. CASE watch_dog_timer_callback
  <2> HIDE DEF TypeOK, Flag, FirmwareFits
  <2>a. Switches /\ Modes /\ Counts
    BY ONLY TypeOK, FirmwareFits, PartsNow
  <2>b. Switches'
    BY ONLY <1>3, <2>a DEF Switches, watch_dog_timer_callback, work, flags, chip, loc
  <2>c. Modes'
    BY ONLY <1>3, <2>a DEF Modes, watch_dog_timer_callback, work, flags, chip, loc
  <2>d. Counts'
    BY ONLY <1>3, <2>a DEF Counts, watch_dog_timer_callback, work, flags, chip, loc
  <2> QED
    BY ONLY <2>b, <2>c, <2>d, PartsThen
<1>4. CASE tx_timeout
  <2> HIDE DEF TypeOK, Flag, FirmwareFits
  <2>a. Switches /\ Modes /\ Counts
    BY ONLY TypeOK, FirmwareFits, PartsNow
  <2>b. Switches'
    BY ONLY <1>4, <2>a DEF Switches, tx_timeout, work, flags, chip, loc
  <2>c. Modes'
    BY ONLY <1>4, <2>a DEF Modes, tx_timeout, work, flags, chip, loc
  <2>d. Counts'
    BY ONLY <1>4, <2>a DEF Counts, tx_timeout, work, flags, chip, loc
  <2> QED
    BY ONLY <2>b, <2>c, <2>d, PartsThen
<1>5. CASE Hang
  <2> HIDE DEF TypeOK, Flag, FirmwareFits
  <2>a. Switches /\ Modes /\ Counts
    BY ONLY TypeOK, FirmwareFits, PartsNow
  <2>b. Switches'
    BY ONLY <1>5, <2>a DEF Switches, Hang, work, flags, chip, loc
  <2>c. Modes'
    BY ONLY <1>5, <2>a DEF Modes, Hang, work, flags, chip, loc
  <2>d. Counts'
    BY ONLY <1>5, <2>a DEF Counts, Hang, work, flags, chip, loc
  <2> QED
    BY ONLY <2>b, <2>c, <2>d, PartsThen
<1>6. CASE UNCHANGED vars
  <2> HIDE DEF TypeOK, Flag, FirmwareFits
  <2>a. Switches /\ Modes /\ Counts
    BY ONLY TypeOK, FirmwareFits, PartsNow
  <2>b. Switches'
    BY ONLY <1>6, <2>a DEF Switches, vars, work, flags, chip, loc
  <2>c. Modes'
    BY ONLY <1>6, <2>a DEF Modes, vars, work, flags, chip, loc
  <2>d. Counts'
    BY ONLY <1>6, <2>a DEF Counts, vars, work, flags, chip, loc
  <2> QED
    BY ONLY <2>b, <2>c, <2>d, PartsThen
<1> QED
  BY <1>1, <1>2, <1>3, <1>4, <1>5, <1>6 DEF Restart

(* Every step keeps the types, and a download finds its places.            *)
LEMMA TypeNext ==
    ASSUME TypeOK, FirmwareFits, [Next]_vars
    PROVE  TypeOK' /\ FirmwareFits'
BY StartType, SilentType, UserType, RestType DEF Next

-----------------------------------------------------------------------------
(* The threads.                                                            *)
Flow == FlagsReturned /\ Holders /\ Opening /\ TakenDown /\ UpWasOpened /\ Watched

(* Only the thread that moves is elsewhere.                                *)
LEMMA Moves ==
    ASSUME TypeOK, NEW t \in Threads, NEW to, Go(t, to)
    PROVE  pc'[t] = to /\ \A u \in Threads : u # t => pc'[u] = pc[u]
BY DEF TypeOK, Go

(* The steps of a start, of any thread.                                    *)
LEMMA StartFlow ==
    ASSUME Inv, NEW t \in Threads, Start(t)
    PROVE  Flow'
<1> USE DEF Inv
<1>1. /\ UNCHANGED <<up, admin, sem, timer, wdq, rsq, silent, rfChange, forced, cnt, stray>>
      /\ pc[t] \in {"start", "startRf"} /\ pc'[t] \in Starting
      /\ \A u \in Threads : u # t => pc'[u] = pc[u]
      /\ adapter' = "ready" => \/ pc'[t] = "started"
                               \/ adapter = "ready" /\ pc[t] = "startRf"
  <2>1. CASE StartHw(t)
    BY <2>1, Moves DEF StartHw, work, flags, Starting, TypeOK
  <2>2. CASE StartRf(t)
    <3>1. UNCHANGED <<up, admin, sem, timer, wdq, rsq, silent, rfChange, forced, cnt, stray>>
      BY <2>2 DEF StartRf, work, flags
    <3>2. CASE adapter' = "ready" /\ Go(t, "started")
      BY <2>2, <3>1, <3>2, Moves DEF StartRf, Starting
    <3>3. CASE UNCHANGED adapter /\ Go(t, "failed")
      BY <2>2, <3>1, <3>3, Moves DEF StartRf, Starting
    <3> QED
      BY <2>2, <3>2, <3>3 DEF StartRf
  <2> QED
    BY <2>1, <2>2 DEF Start
<1>2. FlagsReturned'
  BY <1>1 DEF FlagsReturned, Threads, Starting
<1>3. Holders'
  BY <1>1 DEF Holders, Threads, Starting, Holding
<1>4. Opening' /\ TakenDown' /\ UpWasOpened'
  BY <1>1 DEF Opening, TakenDown, UpWasOpened, Odd, Threads, Starting
<1>5. Watched'
  BY <1>1 DEF Watched
<1> QED
  BY <1>2, <1>3, <1>4, <1>5 DEF Flow

(* The steps of the silent reset.                                          *)
LEMMA SilentFlow ==
    ASSUME Inv, Silent
    PROVE  Flow'
<1> USE DEF Inv, work, flags, chip, loc
<1>a. "wd" \in Threads /\ "us" \in Threads /\ "rs" \in Threads
  BY DEF Threads
<1>b. ASSUME NEW to, Go("wd", to)
      PROVE  pc'["wd"] = to /\ pc'["us"] = pc["us"] /\ pc'["rs"] = pc["rs"]
  BY <1>a, <1>b, Moves
<1>c. Watched <=> (up /\ adapter = "ready" => \/ timer
                                              \/ pc["wd"] \in {"start", "started"}
                                              \/ pc["us"] \in {"start", "started"}
                                              \/ pc["rs"] \in {"start", "started"})
  BY DEF Watched, Threads
<1>1. CASE rtl819x_watchdog_wqcallback
  <2>1. UNCHANGED <<up, admin, sem, adapter, timer, stray>>
    BY <1>1 DEF rtl819x_watchdog_wqcallback
  <2>2. \/ UNCHANGED <<pc, silent, rfChange>>
        \/ pc["wd"] = "idle" /\ Go("wd", "lock")
    BY <1>1 DEF rtl819x_watchdog_wqcallback
  <2>3. CASE UNCHANGED <<pc, silent, rfChange>>
    BY <2>1, <2>3
       DEF Flow, FlagsReturned, Holders, Opening, TakenDown, UpWasOpened, Odd, Watched
  <2>4. CASE pc["wd"] = "idle" /\ Go("wd", "lock")
    BY <2>1, <2>4, <1>a, <1>b, <1>c
       DEF Flow, FlagsReturned, Holders, Opening, TakenDown, UpWasOpened, Odd, Watched
  <2> QED
    BY <2>2, <2>3, <2>4
<1>2. CASE ResetLocks
  <2>1. CASE up
    <3>1. /\ pc'["wd"] = "cancel" /\ pc'["us"] = pc["us"] /\ pc'["rs"] = pc["rs"]
          /\ sem = Free /\ sem' = "wd" /\ ~up'
          /\ UNCHANGED <<admin, adapter, silent, rfChange, stray>>
      BY <1>2, <2>1, <1>b DEF ResetLocks, Take
    <3>2. pc["us"] \notin Holding \cup {"cancel"} /\ pc["rs"] \notin Holding
      BY <3>1 DEF Holders, Free
    <3>3. Odd \/ admin = "up"
      BY <2>1, <3>2 DEF UpWasOpened, Holding
    <3> QED
      BY <3>1, <3>2, <3>3
         DEF Flow, FlagsReturned, Holders, Opening, TakenDown, UpWasOpened, Odd, Watched
  <2>2. CASE ~up
    <3>1. /\ pc'["wd"] = "idle" /\ pc'["us"] = pc["us"] /\ pc'["rs"] = pc["rs"]
          /\ "returned" \in stray' /\ ~up'
          /\ UNCHANGED <<sem, admin, adapter, silent, rfChange>>
      BY <1>2, <2>2, <1>b DEF ResetLocks
    <3> QED
      BY <3>1
         DEF Flow, FlagsReturned, Holders, Opening, TakenDown, UpWasOpened, Odd, Watched
  <2> QED
    BY <2>1, <2>2
<1>3. CASE ResetDown
  <2>1. /\ pc["wd"] = "cancel" /\ pc'["wd"] = "up" /\ pc'["us"] = pc["us"] /\ pc'["rs"] = pc["rs"]
        /\ adapter' = "halted" /\ UNCHANGED <<up, admin, silent, rfChange, stray>>
    BY <1>3, <1>b DEF ResetDown, rtl8192_halt_adapter
  <2>2. pc["us"] \notin Holding \cup {"cancel"} /\ pc["rs"] \notin Holding
    BY <2>1 DEF Holders
  <2> QED
    BY <2>1, <2>2
       DEF Flow, FlagsReturned, Holders, Opening, TakenDown, UpWasOpened, Odd, Watched
<1>4. CASE ResetUp
  <2>1. /\ pc["wd"] = "up" /\ pc'["wd"] = "start" /\ pc'["us"] = pc["us"] /\ pc'["rs"] = pc["rs"]
        /\ UNCHANGED <<sem, admin, silent, rfChange, stray>>
    BY <1>4, <1>b DEF ResetUp, _rtl8192_up
  <2> QED
    BY <2>1, <1>a
       DEF Flow, FlagsReturned, Holders, Opening, TakenDown, UpWasOpened, Odd, Watched
<1>5. CASE ResetRetries
  <2>1. /\ pc["wd"] = "failed" /\ pc'["wd"] \in {"lock", "restore"}
        /\ pc'["us"] = pc["us"] /\ pc'["rs"] = pc["rs"]
        /\ stray \subseteq stray'
        /\ UNCHANGED <<up, sem, admin, adapter, timer, silent, rfChange>>
    BY <1>5, <1>b DEF ResetRetries
  <2> QED
    BY <2>1, <1>a, <1>c
       DEF Flow, FlagsReturned, Holders, Opening, TakenDown, UpWasOpened, Odd, Watched
<1>6. CASE ResetStarted
  <2>1. /\ pc'["wd"] = "restore" /\ pc'["us"] = pc["us"] /\ pc'["rs"] = pc["rs"]
        /\ timer' /\ UNCHANGED <<up, admin, sem, silent, rfChange, stray>>
    BY <1>6, <1>b DEF ResetStarted, UpEnds, Opened
  <2> QED
    BY <2>1 DEF Flow, FlagsReturned, Holders, Opening, TakenDown, UpWasOpened, Odd, Watched
<1>7. CASE ResetEnds
  <2>1. /\ pc["wd"] = "restore" /\ pc'["wd"] = "idle" /\ pc'["us"] = pc["us"]
        /\ pc'["rs"] = pc["rs"] /\ ~silent' /\ ~rfChange'
        /\ UNCHANGED <<up, admin, sem, adapter, timer, stray>>
    BY <1>7, <1>b DEF ResetEnds
  <2> QED
    BY <2>1, <1>a, <1>c
       DEF Flow, FlagsReturned, Holders, Opening, TakenDown, UpWasOpened, Odd, Watched
<1> QED
  BY <1>1, <1>2, <1>3, <1>4, <1>5, <1>6, <1>7 DEF Silent

(* The thread t moves and the two others stay.                             *)
Others(t) == \A u \in Threads : u # t => pc'[u] = pc[u]

(* A commit, on either thread.                                             *)
LEMMA CommitFlow ==
    ASSUME Inv, NEW t \in {"rs", "us"},
           rtl8192_commit(t) \/ CommitEnds(t) \/ Unlock(t)
    PROVE  Flow'
<1> USE DEF Inv, work, flags, chip, loc
<1>a. t \in Threads /\ Threads = {"wd", "rs", "us"}
  BY DEF Threads
<1>b. ASSUME NEW to, Go(t, to)
      PROVE  pc'[t] = to /\ Others(t)
  BY <1>a, <1>b, Moves DEF Others
<1>1. CASE rtl8192_commit(t)
  <2>1. /\ pc[t] = (IF t = "rs" THEN "lock" ELSE "commit")
        /\ sem = Free /\ sem' = t /\ Others(t)
        /\ UNCHANGED <<admin, timer, silent, rfChange, stray>>
    BY <1>1, <1>b DEF rtl8192_commit, Take, _rtl8192_up
  <2>2. /\ pc["us"] \notin Holding \cup {"cancel"} /\ pc["rs"] \notin Holding
        /\ pc["wd"] # "cancel"
    BY <2>1 DEF Holders, Free
  <2>3. CASE up
    <3>1. pc'[t] = "start" /\ adapter' = "halted" /\ up'
      BY <1>1, <2>3, <1>b DEF rtl8192_commit, rtl8192_halt_adapter, _rtl8192_up
    <3>2. admin # "up" => Odd
      BY <2>2, <2>3 DEF UpWasOpened, Holding
    <3>3. pc["wd"] = "up" => Odd
      BY <2>3 DEF TakenDown
    <3> QED
      BY <1>a, <2>1, <2>2, <3>1, <3>2, <3>3
         DEF Flow, FlagsReturned, Holders, Opening, TakenDown, UpWasOpened, Odd, Watched,
             Others, Starting, Holding
  <2>4. CASE ~up
    <3>1. pc'[t] = "unlock" /\ UNCHANGED <<up, adapter>>
      BY <1>1, <2>4, <1>b DEF rtl8192_commit
    <3> QED
      BY <1>a, <2>1, <2>2, <2>4, <3>1
         DEF Flow, FlagsReturned, Holders, Opening, TakenDown, UpWasOpened, Odd, Watched,
             Others, Starting, Holding
  <2> QED
    BY <2>3, <2>4
<1>2. CASE CommitEnds(t)
  <2>1. CASE pc[t] = "started" /\ UpEnds(t, "unlock") /\ UNCHANGED stray
    <3>1. /\ pc'[t] = "unlock" /\ Others(t) /\ timer' /\ pc[t] = "started"
          /\ UNCHANGED <<up, sem, silent, rfChange, stray>>
          /\ admin' = IF t = "us" /\ admin = "opening" THEN "up" ELSE admin
      BY <2>1, <1>b DEF UpEnds, Opened
    <3> QED
      BY <1>a, <3>1
         DEF Flow, FlagsReturned, Holders, Opening, TakenDown, UpWasOpened, Odd, Watched,
             Others, Starting, Holding
  <2>2. CASE /\ pc[t] = "failed" /\ Go(t, "unlock") /\ stray' = stray \cup {"failed"}
             /\ UNCHANGED <<up, admin, sem, chip, work, flags, loc, hangs, calls>>
    <3>1. /\ pc'[t] = "unlock" /\ Others(t) /\ pc[t] = "failed"
          /\ stray \subseteq stray' /\ "failed" \in stray'
          /\ UNCHANGED <<up, admin, sem, adapter, timer, silent, rfChange>>
      BY <2>2, <1>b
    <3> QED
      BY <1>a, <3>1
         DEF Flow, FlagsReturned, Holders, Opening, TakenDown, UpWasOpened, Odd, Watched,
             Others, Starting, Holding
  <2> QED
    BY <1>2, <2>1, <2>2 DEF CommitEnds
<1>3. CASE Unlock(t)
  <2>1. /\ pc[t] = "unlock" /\ sem = t /\ pc'[t] = "idle" /\ Others(t) /\ sem' = Free
        /\ UNCHANGED <<up, adapter, timer, silent, rfChange, stray>>
        /\ admin' = IF t = "us" /\ admin = "opening" THEN "down" ELSE admin
    BY <1>3, <1>b DEF Unlock, Release, Returned
  <2> QED
    BY <1>a, <2>1
       DEF Flow, FlagsReturned, Holders, Opening, TakenDown, UpWasOpened, Odd, Watched,
           Others, Starting, Holding
<1> QED
  BY <1>1, <1>2, <1>3

(* The user's calls.                                                       *)
LEMMA UserFlow ==
    ASSUME Inv, User \/ Calls
    PROVE  Flow'
<1> USE DEF Inv, work, flags, chip, loc
<1>a. "us" \in Threads /\ Threads = {"wd", "rs", "us"}
  BY DEF Threads
<1>b. ASSUME NEW to, Go("us", to)
      PROVE  pc'["us"] = to /\ Others("us")
  BY <1>a, <1>b, Moves DEF Others
<1>1. CASE r8192_wx_force_reset
  <2>1. /\ pc["us"] = "force" /\ pc'["us"] = "idle" /\ Others("us")
        /\ UNCHANGED <<up, admin, sem, adapter, timer, silent, rfChange, stray>>
    BY <1>1, <1>b DEF r8192_wx_force_reset
  <2> QED
    BY <1>a, <2>1
       DEF Flow, FlagsReturned, Holders, Opening, TakenDown, UpWasOpened, Odd, Watched,
           Others, Starting, Holding
<1>2. CASE rtl8192_open
  <2>1. /\ pc["us"] = "open" /\ sem = Free /\ sem' = "us" /\ Others("us")
        /\ UNCHANGED <<admin, adapter, timer, silent, rfChange, stray>>
        /\ \/ up /\ pc'["us"] = "unlock" /\ UNCHANGED up
           \/ ~up /\ pc'["us"] = "start"
    BY <1>2, <1>b DEF rtl8192_open, Take, _rtl8192_up
  <2>2. pc["rs"] \notin Holding /\ pc["wd"] # "cancel" /\ admin = "opening"
    BY <2>1 DEF Holders, Free, Opening
  <2> QED
    BY <1>a, <2>1, <2>2
       DEF Flow, FlagsReturned, Holders, Opening, TakenDown, UpWasOpened, Odd, Watched,
           Others, Starting, Holding
<1>3. CASE rtl8192_close
  <2>1. /\ pc["us"] = "close" /\ sem = Free /\ sem' = "us" /\ Others("us")
        /\ admin' = "down" /\ ~up' /\ pc'["us"] \in {"cancel", "unlock"}
        /\ stray \subseteq stray' /\ UNCHANGED <<adapter, silent, rfChange>>
        /\ (~up /\ pc["wd"] = "up") => "skipped" \in stray'
    BY <1>3, <1>b DEF rtl8192_close, Take
  <2>2. pc["rs"] \notin Holding /\ pc["wd"] # "cancel"
    BY <2>1 DEF Holders, Free
  <2>3. up /\ pc["wd"] = "up" => Odd
    BY DEF TakenDown
  <2> QED
    BY <1>a, <2>1, <2>2, <2>3
       DEF Flow, FlagsReturned, Holders, Opening, TakenDown, UpWasOpened, Odd, Watched,
           Others, Starting, Holding
<1>4. CASE rtl8192_down
  <2>1. /\ pc["us"] = "cancel" /\ pc'["us"] = "unlock" /\ Others("us")
        /\ adapter' = "halted" /\ stray \subseteq stray' /\ ~rfChange'
        /\ UNCHANGED <<up, admin, sem, timer, silent>>
    BY <1>4, <1>b DEF rtl8192_down, rtl8192_halt_adapter
  <2> QED
    BY <1>a, <2>1
       DEF Flow, FlagsReturned, Holders, Opening, TakenDown, UpWasOpened, Odd, Watched,
           Others, Starting, Holding
<1>5. CASE rtl8192_commit("us") \/ CommitEnds("us") \/ Unlock("us")
  BY <1>5, CommitFlow
<1>6. CASE Calls
  <2>1. /\ pc["us"] = "idle" /\ pc'["us"] \in {"commit", "force", "close", "open"}
        /\ Others("us")
        /\ UNCHANGED <<up, sem, adapter, timer, silent, rfChange, stray>>
        /\ \/ pc'["us"] # "open" /\ admin' = admin
           \/ pc'["us"] = "open" /\ admin = "down" /\ admin' = "opening"
    BY <1>6, <1>b DEF Calls, Call
  <2> QED
    BY <1>a, <2>1
       DEF Flow, FlagsReturned, Holders, Opening, TakenDown, UpWasOpened, Odd, Watched,
           Others, Starting, Holding
<1> QED
  BY <1>1, <1>2, <1>3, <1>4, <1>5, <1>6 DEF User

(* rtl8192_restart, the timers and the adapter.                            *)
LEMMA RestFlow ==
    ASSUME Inv, Restart \/ watch_dog_timer_callback \/ tx_timeout \/ Hang \/ UNCHANGED vars
    PROVE  Flow'
<1> USE DEF Inv, work, flags, chip, loc
<1>1. CASE rtl8192_restart
  <2>1. /\ pc["rs"] = "idle" /\ pc'["rs"] = "lock" /\ pc'["us"] = pc["us"]
        /\ pc'["wd"] = pc["wd"]
        /\ UNCHANGED <<up, admin, sem, adapter, timer, silent, rfChange, stray>>
    BY <1>1, Moves DEF rtl8192_restart, Threads
  <2> QED
    BY <2>1
       DEF Flow, FlagsReturned, Holders, Opening, TakenDown, UpWasOpened, Odd, Watched,
           Starting, Holding, Threads
<1>2. CASE rtl8192_commit("rs") \/ CommitEnds("rs") \/ Unlock("rs")
  BY <1>2, CommitFlow
<1>3. CASE watch_dog_timer_callback \/ tx_timeout \/ Hang \/ UNCHANGED vars
  <2>1. UNCHANGED <<up, admin, sem, adapter, timer, silent, rfChange, stray, pc>>
    BY <1>3 DEF watch_dog_timer_callback, tx_timeout, Hang, vars
  <2> QED
    BY <2>1 DEF Flow, FlagsReturned, Holders, Opening, TakenDown, UpWasOpened, Odd, Watched
<1> QED
  BY <1>1, <1>2, <1>3 DEF Restart

-----------------------------------------------------------------------------
(* Every step keeps the invariant.                                         *)
LEMMA InvNext ==
    ASSUME Inv, [Next]_vars
    PROVE  Inv'
<1>1. TypeOK' /\ FirmwareFits'
  BY TypeNext DEF Inv
<1>2. Flow'
  BY StartFlow, SilentFlow, UserFlow, RestFlow DEF Next
<1> QED
  BY <1>1, <1>2 DEF Inv, Flow

(* The invariant says what the run checks.  At rest nobody is opening the  *)
(* interface.                                                              *)
LEMMA InvGives == Inv => FirmwareFits /\ Orderly
<1> SUFFICES ASSUME Inv PROVE FirmwareFits /\ Orderly
  OBVIOUS
<1>1. FirmwareFits /\ TypeOK /\ FlagsReturned
  BY DEF Inv
<1>2. ASSUME Quiet PROVE \A t \in Threads : pc[t] \notin Starting \cup {"open"}
  BY <1>2 DEF Quiet, Starting
<1>3. ClosedIsDown
  BY <1>2 DEF ClosedIsDown, Inv, UpWasOpened, Odd, Threads
<1>4. WatchdogAlive
  BY DEF WatchdogAlive, Inv, Watched, Quiet
<1> QED
  BY <1>1, <1>3, <1>4 DEF Orderly

(* Every packet of every firmware download finds a descriptor, although    *)
(* nothing reaps the command ring and two threads may be starting the      *)
(* adapter at the same time: rtl8192_pci_resetdescring empties the ring    *)
(* before each one (init_firmware, rtl8192_adapter_start).                 *)
THEOREM FirmwareAlwaysFits == Spec => []FirmwareFits
<1>1. Init => Inv
  BY InvInit
<1>2. Inv /\ [Next]_vars => Inv'
  BY InvNext
<1>3. Inv => FirmwareFits
  BY InvGives
<1> QED
  BY <1>1, <1>2, <1>3, PTL DEF Spec

(* Between the calls the driver is as the last one left it, although the   *)
(* silent reset gives up wx_sem half way: its flags are returned or it     *)
(* found the interface closed, a closed interface is down unless a start   *)
(* failed or a close met a reset, and a working one has its watchdog timer *)
(* (rtl819x_ifsilentreset, rtl8192_close, _rtl8192_up).                    *)
THEOREM AlwaysOrderly == Spec => []Orderly
<1>1. Init => Inv
  BY InvInit
<1>2. Inv /\ [Next]_vars => Inv'
  BY InvNext
<1>3. Inv => Orderly
  BY InvGives
<1> QED
  BY <1>1, <1>2, <1>3, PTL DEF Spec
-----------------------------------------------------------------------------
(* The radio: channel and bandwidth                                        *)

Access == [page : {0, 2}, offset : {7, 11, 14}, value : Int]
Ask == {"chan", "bw", "done"} \X Int
ThType ==
    [P!Threads -> [todo : Seq(Ask), rfq : Seq(Access),
                   at : {"idle", "step", "look", "opmode", "select", "data", "restore"}]]
PhyType ==
    /\ phyUp \in BOOLEAN /\ chan \in Int /\ bw \in Int /\ bwBusy \in BOOLEAN
    /\ sw \in [busy : BOOLEAN, stage : 0 .. 1, step : 0 .. 1]
    /\ ht \in [bw : {20, 40}, off : {-2, 0, 2}]
    /\ rf \in [{0, 2} \X {7, 11, 14} -> Int] /\ page \in {0, 2} /\ mac \in Int
    /\ th \in ThType
    /\ owed \in Int /\ owedBw \in BOOLEAN /\ refused \in BOOLEAN /\ overlap \in BOOLEAN

(* A resting thread is given calls to make.                                *)
LEMMA TodoMoves ==
    ASSUME th \in ThType, NEW t \in P!Threads, th[t].at = "idle", NEW todo \in Seq(Ask),
           th' = [th EXCEPT ![t].todo = todo]
    PROVE  th' \in ThType /\ th'[t].at = "idle" /\ \A u \in P!Threads : u # t => th'[u] = th[u]
<1> DEFINE S == [todo : Seq(Ask), rfq : Seq(Access),
                 at : {"idle", "step", "look", "opmode", "select", "data", "restore"}]
           r == [th[t] EXCEPT !.todo = todo]
<1>1. th \in [P!Threads -> S]
  BY DEF ThType
<1>2. r \in S /\ r.at = "idle"
  <2>1. th[t] \in S
    BY ONLY <1>1, t \in P!Threads
  <2> QED
    BY ONLY <2>1, th[t].at = "idle", todo \in Seq(Ask)
<1>3. th' = [th EXCEPT ![t] = r]
  OBVIOUS
<1> HIDE DEF S, r
<1>4. th' \in [P!Threads -> S] /\ th'[t] = r /\ \A u \in P!Threads : u # t => th'[u] = th[u]
  BY ONLY <1>1, <1>2, <1>3, t \in P!Threads
<1> QED
  BY ONLY <1>2, <1>4 DEF ThType, S

\* Who is switching the channel and who is changing the bandwidth.
Does(t) == th[t].todo[1][1]
Switching(t) == th[t].at \in {"step", "look"} \/ (P!InRf(t) /\ Does(t) = "chan")
Changing(t) == th[t].at = "opmode" \/ (P!InRf(t) /\ Does(t) = "bw")
Writing(t) == th[t].at \in {"data", "restore"}

\* The accesses that are left of a change of the bandwidth.
Left(n) == IF n = 3 THEN P!Bandwidth8256(bw)
           ELSE IF n = 2 THEN Tail(P!Bandwidth8256(bw)) ELSE Tail(Tail(P!Bandwidth8256(bw)))

Shape(t) ==
    /\ th[t].at # "idle" => th[t].todo # <<>>
    /\ th[t].at \in {"step", "look"} => Does(t) = "chan"
    /\ th[t].at = "opmode" => Does(t) = "bw"
    /\ P!InRf(t) /\ Does(t) = "chan" =>
         /\ Writing(t) /\ P!Arg(t) \in Plan
         /\ th[t].rfq = <<[page |-> 0, offset |-> 7, value |-> P!Arg(t)]>>
    /\ P!InRf(t) => Does(t) \in {"chan", "bw"}
    /\ P!InRf(t) /\ Does(t) = "bw" =>
         /\ \E n \in 1 .. 3 : th[t].rfq = Left(n)
         /\ th[t].at = "select" => th[t].rfq = Left(2)

\* SwChnlInProgress and SetBWModeInProgress let one thread in; the first is given back.
Owners ==
    /\ sw.busy <=> \E t \in P!Threads : Switching(t)
    /\ \A t \in P!Threads : Changing(t) => bwBusy
    /\ \A t, u \in P!Threads : t # u => ~(Switching(t) /\ Switching(u)) /\ ~(Changing(t) /\ Changing(u))
    /\ ~overlap => \A t, u \in P!Threads : t # u => ~(P!InRf(t) /\ P!InRf(u))

\* The page is 2 only inside an access to page 2, and all through it while no start of
\* the adapter came between (which puts the page back, and clears owedBw).
Paged ==
    ~overlap =>
      /\ page = 2 => \E t \in P!Threads : Writing(t) /\ th[t].rfq[1].page = 2
      /\ \A t \in P!Threads : owedBw /\ Changing(t) /\ Writing(t) => page = th[t].rfq[1].page

\* How far a channel switch is; one to a channel outside the plan has not begun.
Tuning(t) ==
    Switching(t) =>
      /\ P!Arg(t) \in Plan =>
           /\ owed # 0 => owed = P!Arg(t)
           /\ P!InRf(t) => sw.stage = 1 /\ sw.step = 0
           /\ ~P!InRf(t) => sw.stage <= sw.step \/ (sw.stage = 0 /\ sw.step = 0)
           /\ ~overlap /\ owed # 0 /\ (th[t].at = "restore" \/ (sw.stage = 1 /\ sw.step = 1))
                => rf[<<0, 7>>] = P!Arg(t)
      /\ P!Arg(t) \notin Plan =>
           /\ th[t].at = "step" /\ refused
           /\ ~overlap /\ owed # 0 /\ phyUp => rf[<<0, 7>>] = owed

\* How far a change of the bandwidth is.
Widening(t) ==
    Changing(t) /\ P!InRf(t) /\ owedBw =>
      /\ mac = bw
      /\ ~overlap =>
           /\ Len(th[t].rfq) <= 2 \/ th[t].at = "restore" => rf[<<0, 11>>] = bw
           /\ Len(th[t].rfq) <= 1 \/ (Len(th[t].rfq) = 2 /\ th[t].at = "restore") => rf[<<2, 14>>] = bw
           /\ Len(th[t].rfq) = 1 /\ th[t].at = "restore" => rf[<<0, 14>>] = bw

Believing ==
    /\ owed # 0 /\ ~refused => chan = owed
    /\ ~bwBusy /\ ~overlap /\ owedBw =>
         mac = bw /\ rf[<<0, 11>>] = bw /\ rf[<<2, 14>>] = bw /\ rf[<<0, 14>>] = bw
    /\ ~overlap => rf[<<2, 7>>] = 1 /\ rf[<<2, 11>>] = 20
    /\ ~sw.busy /\ ~overlap /\ owed # 0 /\ phyUp => rf[<<0, 7>>] = owed

PhyInv ==
    /\ PhyType /\ Owners /\ Paged /\ Believing
    /\ \A t \in P!Threads : Shape(t) /\ Tuning(t) /\ Widening(t)

LEMMA PhyConstants == Plan \subseteq 1 .. 14 /\ Net \in Plan /\ Net \in Int /\ 0 \notin Plan
BY PhyFits DEF P!PhyAssumption

\* A thread that does not move keeps what is said of it.
LEMMA OtherThread ==
    ASSUME NEW u \in P!Threads, th'[u] = th[u]
    PROVE  /\ Switching(u)' = Switching(u) /\ Changing(u)' = Changing(u) /\ Writing(u)' = Writing(u)
           /\ P!InRf(u)' = P!InRf(u) /\ Does(u)' = Does(u) /\ P!Arg(u)' = P!Arg(u)
           /\ bw' = bw => Shape(u)' = Shape(u)
BY DEF Switching, Changing, Writing, P!InRf, Does, P!Arg, Shape, Left

LEMMA IdleThread ==
    ASSUME NEW u \in P!Threads, th[u].at = "idle"
    PROVE  ~Switching(u) /\ ~Changing(u) /\ ~Writing(u) /\ ~P!InRf(u) /\ Shape(u) /\ Tuning(u) /\ Widening(u)
BY DEF Switching, Changing, Writing, P!InRf, Shape, Tuning, Widening

LEMMA IdleThreadNext ==
    ASSUME NEW u \in P!Threads, th'[u].at = "idle"
    PROVE  ~Switching(u)' /\ ~Changing(u)' /\ ~Writing(u)' /\ ~P!InRf(u)'
           /\ Shape(u)' /\ Tuning(u)' /\ Widening(u)'
BY DEF Switching, Changing, Writing, P!InRf, Shape, Tuning, Widening

\* A thread is idle before and after, and at most the driver's channel changes.
LEMMA IdleStep ==
    ASSUME PhyInv, PhyType', NEW t \in P!Threads, th[t].at = "idle", th'[t].at = "idle",
           \A u \in P!Threads : u # t => th'[u] = th[u],
           UNCHANGED <<phyUp, sw, bw, bwBusy, rf, page, mac, owed, owedBw, overlap>>,
           refused' \/ UNCHANGED <<chan, refused>>
    PROVE  PhyInv'
<1>1. /\ ~Switching(t) /\ ~Changing(t) /\ ~Writing(t) /\ ~P!InRf(t)
      /\ ~Switching(t)' /\ ~Changing(t)' /\ ~Writing(t)' /\ ~P!InRf(t)'
      /\ Shape(t)' /\ Tuning(t)' /\ Widening(t)'
  BY IdleThread, IdleThreadNext
<1>2. ASSUME NEW u \in P!Threads, u # t
      PROVE  /\ Switching(u)' = Switching(u) /\ Changing(u)' = Changing(u) /\ Writing(u)' = Writing(u)
             /\ P!InRf(u)' = P!InRf(u) /\ P!Arg(u)' = P!Arg(u) /\ Shape(u)' = Shape(u) /\ th'[u] = th[u]
  BY <1>2, OtherThread
<1>3. Owners'
  BY <1>1, <1>2 DEF PhyInv, Owners
<1>4. Paged'
  BY <1>1, <1>2 DEF PhyInv, Paged
<1>5. Believing'
  BY DEF PhyInv, Believing
<1>6. ASSUME NEW u \in P!Threads PROVE Shape(u)' /\ Tuning(u)' /\ Widening(u)'
  <2>1. CASE u = t
    BY <1>1, <2>1
  <2>2. CASE u # t
    <3>1. Shape(u) /\ Tuning(u) /\ Widening(u)
      BY DEF PhyInv
    <3>2. Tuning(u)'
      BY <1>2, <2>2, <3>1 DEF Tuning
    <3>3. Widening(u)'
      BY <1>2, <2>2, <3>1 DEF Widening
    <3> QED
      BY <1>2, <2>2, <3>1, <3>2, <3>3
  <2> QED
    BY <2>1, <2>2
<1> QED
  BY <1>3, <1>4, <1>5, <1>6 DEF PhyInv

\* What the updates of a thread's record do.
LEMMA ReturnsMoves ==
    ASSUME NEW t \in P!Threads, th \in ThType, th[t].todo # <<>>, th' = P!Returns(t)
    PROVE  /\ th' \in ThType /\ th'[t].todo = Tail(th[t].todo) /\ th'[t].at = "idle"
           /\ \A u \in P!Threads : u # t => th'[u] = th[u]
<1> DEFINE S == [todo : Seq(Ask), rfq : Seq(Access),
                 at : {"idle", "step", "look", "opmode", "select", "data", "restore"}]
           r == [th[t] EXCEPT !.at = "idle", !.todo = Tail(@), !.rfq = <<>>]
<1>1. th \in [P!Threads -> S]
  BY DEF ThType
<1>2. r \in S /\ r.at = "idle" /\ r.todo = Tail(th[t].todo)
  <2>1. th[t] \in S
    BY ONLY <1>1, t \in P!Threads
  <2>2. Tail(th[t].todo) \in Seq(Ask) /\ <<>> \in Seq(Access)
    BY ONLY <2>1, th[t].todo # <<>>
  <2> QED
    BY ONLY <2>1, <2>2
<1>3. th' = [th EXCEPT ![t] = r]
  BY <1>1 DEF P!Returns
<1> HIDE DEF S, r
<1>4. th' \in [P!Threads -> S] /\ th'[t] = r /\ \A u \in P!Threads : u # t => th'[u] = th[u]
  BY ONLY <1>1, <1>2, <1>3, t \in P!Threads
<1> QED
  BY ONLY <1>2, <1>4 DEF ThType, S

LEMMA GoesMoves ==
    ASSUME NEW t \in P!Threads, th \in ThType,
           NEW a \in {"idle", "step", "look", "opmode", "select", "data", "restore"}, th' = P!Goes(t, a)
    PROVE  /\ th' \in ThType /\ th'[t].todo = th[t].todo /\ th'[t].at = a /\ th'[t].rfq = th[t].rfq
           /\ \A u \in P!Threads : u # t => th'[u] = th[u]
BY DEF P!Goes, ThType

LEMMA RfMoves ==
    ASSUME NEW t \in P!Threads, th \in ThType,
           NEW a \in {"select", "data"}, NEW q \in Seq(Access),
           th' = [th EXCEPT ![t].at = a, ![t].rfq = q]
    PROVE  /\ th' \in ThType /\ th'[t].todo = th[t].todo /\ th'[t].at = a /\ th'[t].rfq = q
           /\ \A u \in P!Threads : u # t => th'[u] = th[u]
BY DEF ThType

LEMMA PhyInitInv == P!Init => PhyInv
<1> SUFFICES ASSUME P!Init PROVE PhyInv
  OBVIOUS
<1>1. /\ phyUp = TRUE /\ chan = 1 /\ sw = [busy |-> FALSE, stage |-> 0, step |-> 0]
      /\ bw = 20 /\ bwBusy = FALSE /\ ht = [bw |-> 20, off |-> 0] /\ rf = P!RfTable /\ page = 0
      /\ mac = 20 /\ owed = 0 /\ owedBw = FALSE /\ refused = FALSE /\ overlap = FALSE
      /\ th = [t \in P!Threads |-> P!Idle]
  BY DEF P!Init
<1>2. rf \in [{0, 2} \X {7, 11, 14} -> Int] /\ rf[<<2, 7>>] = 1 /\ rf[<<2, 11>>] = 20
  BY <1>1 DEF P!RfTable
<1>3. th \in ThType /\ \A t \in P!Threads : th[t].at = "idle"
  BY <1>1 DEF P!Idle, ThType
<1>4. PhyType
  <2>1. phyUp \in BOOLEAN /\ bwBusy \in BOOLEAN /\ owedBw \in BOOLEAN /\ refused \in BOOLEAN
        /\ overlap \in BOOLEAN
    BY <1>1, Zenon
  <2>2. sw \in [busy : BOOLEAN, stage : 0 .. 1, step : 0 .. 1] /\ ht \in [bw : {20, 40}, off : {-2, 0, 2}]
    BY <1>1
  <2>3. chan \in Int /\ bw \in Int /\ page \in {0, 2} /\ mac \in Int /\ owed \in Int
    BY <1>1
  <2> QED
    BY <1>2, <1>3, <2>1, <2>2, <2>3 DEF PhyType
<1>5. \A t \in P!Threads : ~Switching(t) /\ ~Changing(t) /\ ~Writing(t) /\ ~P!InRf(t)
                           /\ Shape(t) /\ Tuning(t) /\ Widening(t)
  BY <1>3, IdleThread
<1>6. Owners /\ Paged /\ Believing
  BY <1>1, <1>2, <1>5 DEF Owners, Paged, Believing
<1> QED
  BY <1>4, <1>5, <1>6 DEF PhyInv

\* rtl8192_phy_SwChnl: refused, or accepted for a channel inside or outside the plan.
LEMMA SwChnlStep ==
    ASSUME PhyInv, NEW t \in P!Threads, P!rtl8192_phy_SwChnl(t) PROVE PhyInv'
<1> DEFINE x == P!Arg(t)
<1>0. PhyType /\ th \in ThType
  BY DEF PhyInv, PhyType
<1>1. /\ th[t].at = "idle" /\ th[t].todo # <<>> /\ Does(t) = "chan" /\ chan' = x
      /\ UNCHANGED <<phyUp, bw, bwBusy, ht, htBusy, rf, page, mac, owedBw, overlap>>
  BY DEF P!rtl8192_phy_SwChnl, P!Asks, Does
<1>2. x \in Int
  BY <1>0, <1>1 DEF P!Arg, ThType, Ask
<1>3. CASE ~phyUp \/ sw.busy
  <2>1. th' = P!Returns(t) /\ refused' = TRUE /\ UNCHANGED <<sw, owed>>
    BY <1>3 DEF P!rtl8192_phy_SwChnl
  <2>2. th' \in ThType /\ th'[t].at = "idle" /\ \A u \in P!Threads : u # t => th'[u] = th[u]
    BY <1>0, <1>1, <2>1, ReturnsMoves
  <2>3. refused' \in BOOLEAN
    BY <2>1, Zenon
  <2>4. PhyType'
    BY <1>0, <1>1, <1>2, <2>1, <2>2, <2>3 DEF PhyType
  <2> QED
    BY <1>1, <2>1, <2>2, <2>4, IdleStep
<1>4. CASE phyUp /\ ~sw.busy
  <2>1. /\ sw' = [busy |-> TRUE, stage |-> 0, step |-> 0] /\ th' = P!Goes(t, "step")
        /\ IF x \in Plan THEN owed' = x /\ refused' = FALSE ELSE refused' = TRUE /\ UNCHANGED owed
    BY <1>4 DEF P!rtl8192_phy_SwChnl
  <2>2. /\ th' \in ThType /\ th'[t].todo = th[t].todo /\ th'[t].at = "step"
        /\ \A u \in P!Threads : u # t => th'[u] = th[u]
    BY <1>0, <2>1, GoesMoves
  <2>3. refused' \in BOOLEAN /\ owed' \in Int /\ sw' \in [busy : BOOLEAN, stage : 0 .. 1, step : 0 .. 1]
    <3>1. refused' \in BOOLEAN
      BY <2>1, Zenon
    <3>2. owed' \in Int
      BY <1>0, <1>2, <2>1 DEF PhyType
    <3>3. sw' \in [busy : BOOLEAN, stage : 0 .. 1, step : 0 .. 1]
      BY <2>1
    <3> QED
      BY <3>1, <3>2, <3>3
  <2>4. PhyType'
    BY <1>0, <1>1, <1>2, <2>2, <2>3 DEF PhyType
  <2>5. /\ ~Switching(t) /\ ~Changing(t) /\ ~Writing(t) /\ ~P!InRf(t)
        /\ Switching(t)' /\ ~Changing(t)' /\ ~Writing(t)' /\ ~P!InRf(t)'
        /\ Does(t)' = "chan" /\ P!Arg(t)' = x
    BY <1>1, <2>2 DEF Switching, Changing, Writing, P!InRf, Does, P!Arg
  <2>6. ASSUME NEW u \in P!Threads, u # t
        PROVE  /\ ~Switching(u) /\ ~Switching(u)' /\ Changing(u)' = Changing(u) /\ Writing(u)' = Writing(u)
               /\ P!InRf(u)' = P!InRf(u) /\ P!Arg(u)' = P!Arg(u) /\ Shape(u)' = Shape(u) /\ th'[u] = th[u]
    BY <1>1, <1>4, <2>2, <2>6, OtherThread DEF PhyInv, Owners
  <2>7. Owners'
    BY <1>1, <2>1, <2>5, <2>6 DEF PhyInv, Owners
  <2>8. Paged'
    BY <1>1, <2>5, <2>6 DEF PhyInv, Paged
  <2>9. Believing'
    BY <1>1, <1>4, <2>1 DEF PhyInv, Believing
  <2>10. Shape(t)' /\ Widening(t)'
    BY <1>1, <2>2, <2>5 DEF Shape, Widening
  <2>11. Tuning(t)'
    <3>1. ~overlap /\ owed # 0 => rf[<<0, 7>>] = owed
      BY <1>4 DEF PhyInv, Believing
    <3> QED
      BY <1>1, <2>1, <2>2, <2>5, <3>1, PhyConstants DEF Tuning
  <2>12. ASSUME NEW u \in P!Threads, u # t PROVE Shape(u)' /\ Tuning(u)' /\ Widening(u)'
    <3>1. Shape(u) /\ Tuning(u) /\ Widening(u)
      BY DEF PhyInv
    <3>2. Tuning(u)'
      BY <2>6, <2>12 DEF Tuning
    <3>3. Widening(u)'
      BY <1>1, <2>6, <2>12, <3>1 DEF Widening
    <3> QED
      BY <2>6, <2>12, <3>1, <3>2, <3>3
  <2> QED
    BY <2>4, <2>7, <2>8, <2>9, <2>10, <2>11, <2>12 DEF PhyInv
<1> QED
  BY <1>0, <1>3, <1>4 DEF PhyType

\* A thread gives SwChnlInProgress back, with the chip where it was asked to be.
LEMMA SwitchReturns ==
    ASSUME PhyInv, NEW t \in P!Threads, th[t].at \in {"step", "look"}, th' = P!Returns(t),
           sw' = [sw EXCEPT !.busy = FALSE],
           UNCHANGED <<phyUp, chan, bw, bwBusy, ht, htBusy, rf, page, mac, owed, owedBw, refused, overlap>>,
           ~overlap /\ owed # 0 /\ phyUp => rf[<<0, 7>>] = owed
    PROVE  PhyInv'
<1>0. PhyType /\ th \in ThType /\ th[t].todo # <<>>
  BY DEF PhyInv, PhyType, Shape
<1>1. th' \in ThType /\ th'[t].at = "idle" /\ \A u \in P!Threads : u # t => th'[u] = th[u]
  BY <1>0, ReturnsMoves
<1>2. /\ Switching(t) /\ ~Changing(t) /\ ~Writing(t) /\ ~P!InRf(t)
      /\ ~Switching(t)' /\ ~Changing(t)' /\ ~Writing(t)' /\ ~P!InRf(t)'
      /\ Shape(t)' /\ Tuning(t)' /\ Widening(t)'
  BY <1>1, IdleThreadNext DEF Switching, Changing, Writing, P!InRf
<1>3. ASSUME NEW u \in P!Threads, u # t
      PROVE  /\ ~Switching(u) /\ ~Switching(u)' /\ Changing(u)' = Changing(u) /\ Writing(u)' = Writing(u)
             /\ P!InRf(u)' = P!InRf(u) /\ P!Arg(u)' = P!Arg(u) /\ Shape(u)' = Shape(u) /\ th'[u] = th[u]
  BY <1>1, <1>2, <1>3, OtherThread DEF PhyInv, Owners
<1>4. sw' \in [busy : BOOLEAN, stage : 0 .. 1, step : 0 .. 1] /\ ~sw'.busy
  BY <1>0 DEF PhyType
<1>5. PhyType'
  BY <1>0, <1>1, <1>4 DEF PhyType
<1>6. Owners'
  BY <1>2, <1>3, <1>4 DEF PhyInv, Owners
<1>7. Paged'
  BY <1>2, <1>3 DEF PhyInv, Paged
<1>8. Believing'
  BY DEF PhyInv, Believing
<1>9. ASSUME NEW u \in P!Threads, u # t PROVE Shape(u)' /\ Tuning(u)' /\ Widening(u)'
  <2>1. Shape(u) /\ Widening(u)
    BY DEF PhyInv
  <2>2. Tuning(u)' /\ Widening(u)'
    BY <1>3, <1>9, <2>1 DEF Tuning, Widening
  <2> QED
    BY <1>3, <1>9, <2>1, <2>2
<1> QED
  BY <1>2, <1>5, <1>6, <1>7, <1>8, <1>9 DEF PhyInv

\* rtl8192_phy_FinishSwChnlNow goes on, or stops because the adapter is down.
LEMMA FinishStep ==
    ASSUME PhyInv, NEW t \in P!Threads, P!rtl8192_phy_FinishSwChnlNow(t) PROVE PhyInv'
<1>0. PhyType /\ th \in ThType /\ th[t].at = "look"
      /\ UNCHANGED <<phyUp, chan, bw, bwBusy, ht, htBusy, rf, page, mac, owed, owedBw, refused, overlap>>
  BY DEF PhyInv, PhyType, P!rtl8192_phy_FinishSwChnlNow
<1>1. CASE ~phyUp
  BY <1>0, <1>1, SwitchReturns DEF P!rtl8192_phy_FinishSwChnlNow
<1>2. CASE phyUp
  <2>1. th' = P!Goes(t, "step") /\ sw' = sw
    BY <1>2 DEF P!rtl8192_phy_FinishSwChnlNow
  <2>2. /\ th' \in ThType /\ th'[t].todo = th[t].todo /\ th'[t].at = "step" /\ th'[t].rfq = th[t].rfq
        /\ \A u \in P!Threads : u # t => th'[u] = th[u]
    BY <1>0, <2>1, GoesMoves
  <2>3. PhyType'
    BY <1>0, <2>1, <2>2 DEF PhyType
  <2>4. /\ Switching(t) /\ ~Changing(t) /\ ~Writing(t) /\ ~P!InRf(t)
        /\ Switching(t)' /\ ~Changing(t)' /\ ~Writing(t)' /\ ~P!InRf(t)'
        /\ Does(t)' = Does(t) /\ P!Arg(t)' = P!Arg(t)
    BY <1>0, <2>2 DEF Switching, Changing, Writing, P!InRf, Does, P!Arg
  <2>5. ASSUME NEW u \in P!Threads, u # t
        PROVE  /\ Switching(u)' = Switching(u) /\ Changing(u)' = Changing(u) /\ Writing(u)' = Writing(u)
               /\ P!InRf(u)' = P!InRf(u) /\ P!Arg(u)' = P!Arg(u) /\ Shape(u)' = Shape(u) /\ th'[u] = th[u]
    BY <1>0, <2>2, <2>5, OtherThread
  <2>6. Owners'
    BY <1>0, <2>1, <2>4, <2>5 DEF PhyInv, Owners
  <2>7. Paged'
    BY <1>0, <2>4, <2>5 DEF PhyInv, Paged
  <2>8. Believing'
    BY <1>0, <2>1 DEF PhyInv, Believing
  <2>9. Shape(t)' /\ Widening(t)' /\ Tuning(t)'
    <3>1. Shape(t) /\ Tuning(t)
      BY DEF PhyInv
    <3> QED
      BY <1>0, <2>1, <2>2, <2>4, <3>1 DEF Shape, Widening, Tuning
  <2>10. ASSUME NEW u \in P!Threads, u # t PROVE Shape(u)' /\ Tuning(u)' /\ Widening(u)'
    <3>1. Shape(u) /\ Tuning(u) /\ Widening(u)
      BY DEF PhyInv
    <3>2. Tuning(u)'
      BY <1>0, <2>1, <2>5, <2>10, <3>1 DEF Tuning
    <3>3. Widening(u)'
      BY <1>0, <2>5, <2>10, <3>1 DEF Widening
    <3> QED
      BY <2>5, <2>10, <3>1, <3>2, <3>3
  <2> QED
    BY <2>3, <2>6, <2>7, <2>8, <2>9, <2>10 DEF PhyInv
<1> QED
  BY <1>0, <1>1, <1>2 DEF PhyType

\* rtl8192_phy_SwChnlStepByStep: the end, the power level, or the write of register 7.
LEMMA StepByStep ==
    ASSUME PhyInv, NEW t \in P!Threads, P!rtl8192_phy_SwChnlStepByStep(t) PROVE PhyInv'
<1> DEFINE x == P!Arg(t)
<1>0. /\ PhyType /\ th \in ThType /\ th[t].at = "step" /\ th[t].todo # <<>> /\ Does(t) = "chan"
      /\ UNCHANGED <<phyUp, chan, bw, bwBusy, ht, htBusy, rf, page, mac, owed, owedBw, refused>>
      /\ sw.stage \in 0 .. 1 /\ sw.step \in 0 .. 1 /\ sw.busy \in BOOLEAN
  BY DEF PhyInv, PhyType, P!rtl8192_phy_SwChnlStepByStep, Shape
<1>1. /\ Switching(t) /\ ~Changing(t) /\ ~Writing(t) /\ ~P!InRf(t) /\ sw.busy
      /\ Shape(t) /\ Tuning(t) /\ x \in Int
  <2>1. Switching(t) /\ ~Changing(t) /\ ~Writing(t) /\ ~P!InRf(t)
    BY <1>0 DEF Switching, Changing, Writing, P!InRf
  <2>2. x \in Int
    BY <1>0 DEF P!Arg, ThType, Ask
  <2> QED
    BY <2>1, <2>2 DEF PhyInv, Owners
<1>2. CASE /\ P!SwChnlCmd = "End" \/ x \notin Plan
           /\ sw' = [sw EXCEPT !.busy = FALSE] /\ th' = P!Returns(t) /\ UNCHANGED overlap
  <2>1. x \in Plan => sw.stage = 1 /\ sw.step = 1
    BY <1>0, <1>1, <1>2 DEF P!SwChnlCmd, Tuning
  <2>2. ~overlap /\ owed # 0 /\ phyUp => rf[<<0, 7>>] = owed
    BY <1>1, <2>1 DEF Tuning
  <2> QED
    BY <1>0, <1>2, <2>2, SwitchReturns
<1>3. CASE /\ P!SwChnlCmd = "SetTxPowerLevel" /\ x \in Plan
           /\ sw' = [sw EXCEPT !.step = 1] /\ th' = P!Goes(t, "look") /\ UNCHANGED overlap
  <2>1. /\ th' \in ThType /\ th'[t].todo = th[t].todo /\ th'[t].at = "look" /\ th'[t].rfq = th[t].rfq
        /\ \A u \in P!Threads : u # t => th'[u] = th[u]
    BY <1>0, <1>3, GoesMoves
  <2>2. /\ sw.stage = 0 /\ sw.step = 0 /\ sw'.stage = 0 /\ sw'.step = 1 /\ sw'.busy = sw.busy
        /\ sw' \in [busy : BOOLEAN, stage : 0 .. 1, step : 0 .. 1]
    <3>1. sw \in [busy : BOOLEAN, stage : 0 .. 1, step : 0 .. 1]
      BY <1>0 DEF PhyType
    <3>2. P!SwChnlCmd = "SetTxPowerLevel" /\ sw' = [sw EXCEPT !.step = 1]
      BY <1>3
    <3>3. sw.stage = 0 /\ sw.step = 0
      BY ONLY <3>1, <3>2 DEF P!SwChnlCmd
    <3> QED
      BY ONLY <3>1, <3>2, <3>3
  <2>3. PhyType'
    BY <1>0, <1>3, <2>1, <2>2 DEF PhyType
  <2>4. /\ Switching(t)' /\ ~Changing(t)' /\ ~Writing(t)' /\ ~P!InRf(t)' /\ Does(t)' = "chan"
        /\ P!Arg(t)' = x
    BY <1>0, <2>1 DEF Switching, Changing, Writing, P!InRf, Does, P!Arg
  <2>5. ASSUME NEW u \in P!Threads, u # t
        PROVE  /\ ~Switching(u) /\ ~Switching(u)' /\ Changing(u)' = Changing(u) /\ Writing(u)' = Writing(u)
               /\ P!InRf(u)' = P!InRf(u) /\ P!Arg(u)' = P!Arg(u) /\ Shape(u)' = Shape(u) /\ th'[u] = th[u]
    BY <1>0, <1>1, <2>1, <2>5, OtherThread DEF PhyInv, Owners
  <2>6. Owners'
    BY <1>0, <1>1, <1>3, <2>2, <2>4, <2>5 DEF PhyInv, Owners
  <2>7. Paged'
    BY <1>0, <1>1, <1>3, <2>4, <2>5 DEF PhyInv, Paged
  <2>8. Believing'
    BY <1>0, <1>1, <1>3, <2>2 DEF PhyInv, Believing
  <2>9. Shape(t)' /\ Widening(t)' /\ Tuning(t)'
    BY <1>0, <1>1, <1>3, <2>1, <2>2, <2>4 DEF Shape, Widening, Tuning
  <2>10. ASSUME NEW u \in P!Threads, u # t PROVE Shape(u)' /\ Tuning(u)' /\ Widening(u)'
    <3>1. Shape(u) /\ Widening(u)
      BY DEF PhyInv
    <3>2. Tuning(u)' /\ Widening(u)'
      BY <1>0, <1>3, <2>5, <2>10, <3>1 DEF Tuning, Widening
    <3> QED
      BY <2>5, <2>10, <3>1, <3>2
  <2> QED
    BY <2>3, <2>6, <2>7, <2>8, <2>9, <2>10 DEF PhyInv
<1>4. CASE /\ P!SwChnlCmd = "RF_WriteReg" /\ x \in Plan
           /\ sw' = [sw EXCEPT !.stage = 1, !.step = 0] /\ P!StartsRf(t)
           /\ th' = [th EXCEPT ![t].at = "data", ![t].rfq = <<[page |-> 0, offset |-> 7, value |-> x]>>]
  <2> DEFINE q == <<[page |-> 0, offset |-> 7, value |-> x]>>
  <2>1. /\ th' \in ThType /\ th'[t].todo = th[t].todo /\ th'[t].at = "data" /\ th'[t].rfq = q
        /\ \A u \in P!Threads : u # t => th'[u] = th[u]
    <3>1. q \in Seq(Access)
      BY <1>1 DEF Access
    <3>2. th' = [th EXCEPT ![t].at = "data", ![t].rfq = q]
      BY <1>4
    <3> HIDE DEF q
    <3> QED
      BY <1>0, <3>1, <3>2, RfMoves
  <2>2. /\ sw'.stage = 1 /\ sw'.step = 0 /\ sw'.busy = sw.busy
        /\ sw' \in [busy : BOOLEAN, stage : 0 .. 1, step : 0 .. 1]
    <3>1. sw' = [sw EXCEPT !.stage = 1, !.step = 0] /\ sw \in [busy : BOOLEAN, stage : 0 .. 1, step : 0 .. 1]
      BY <1>0, <1>4 DEF PhyType
    <3>2. 1 \in 0 .. 1 /\ 0 \in 0 .. 1
      OBVIOUS
    <3> QED
      BY <3>1, <3>2
  <2>3. overlap' \in BOOLEAN /\ (~overlap' => ~overlap /\ \A u \in P!Threads : u # t => ~P!InRf(u))
    BY <1>0, <1>4, Zenon DEF P!StartsRf, PhyType
  <2>4. PhyType'
    BY <1>0, <1>4, <2>1, <2>2, <2>3 DEF PhyType
  <2>5. /\ Switching(t)' /\ ~Changing(t)' /\ Writing(t)' /\ P!InRf(t)' /\ Does(t)' = "chan"
        /\ P!Arg(t)' = x /\ th'[t].rfq[1].page = 0
    BY <1>0, <2>1 DEF Switching, Changing, Writing, P!InRf, Does, P!Arg
  <2>6. ASSUME NEW u \in P!Threads, u # t
        PROVE  /\ ~Switching(u) /\ ~Switching(u)' /\ Changing(u)' = Changing(u) /\ Writing(u)' = Writing(u)
               /\ P!InRf(u)' = P!InRf(u) /\ P!Arg(u)' = P!Arg(u) /\ Shape(u)' = Shape(u) /\ th'[u] = th[u]
    BY <1>0, <1>1, <2>1, <2>6, OtherThread DEF PhyInv, Owners
  <2>7. Owners'
    BY <1>0, <1>1, <1>4, <2>2, <2>3, <2>5, <2>6 DEF PhyInv, Owners
  <2>8. Paged'
    BY <1>0, <1>1, <1>4, <2>3, <2>5, <2>6 DEF PhyInv, Paged
  <2>9. Believing'
    BY <1>0, <1>1, <2>2, <2>3 DEF PhyInv, Believing
  <2>10. Shape(t)' /\ Widening(t)' /\ Tuning(t)'
    <3>1. Shape(t)'
      BY <1>0, <1>4, <2>1, <2>5 DEF Shape
    <3>2. Widening(t)'
      BY <2>5 DEF Widening
    <3>3. Tuning(t)'
      BY <1>0, <1>1, <1>4, <2>1, <2>2, <2>5 DEF Tuning
    <3> QED
      BY <3>1, <3>2, <3>3
  <2>11. ASSUME NEW u \in P!Threads, u # t PROVE Shape(u)' /\ Tuning(u)' /\ Widening(u)'
    <3>1. Shape(u) /\ Widening(u)
      BY DEF PhyInv
    <3>2. Tuning(u)' /\ Widening(u)'
      BY <1>0, <2>3, <2>6, <2>11, <3>1 DEF Tuning, Widening
    <3> QED
      BY <2>6, <2>11, <3>1, <3>2
  <2> QED
    BY <2>4, <2>7, <2>8, <2>9, <2>10, <2>11 DEF PhyInv
<1> QED
  BY <1>2, <1>3, <1>4 DEF P!rtl8192_phy_SwChnlStepByStep

\* rtl8192_SetBWMode: refused, accepted, or accepted on an adapter that is down.
LEMMA SetBWModeStep ==
    ASSUME PhyInv, NEW t \in P!Threads, P!rtl8192_SetBWMode(t) PROVE PhyInv'
<1>0. /\ PhyType /\ th \in ThType /\ th[t].at = "idle" /\ th[t].todo # <<>> /\ Does(t) = "bw"
      /\ UNCHANGED <<phyUp, chan, sw, ht, htBusy, rf, page, mac, owed, refused, overlap>>
  BY DEF PhyInv, PhyType, P!rtl8192_SetBWMode, P!Asks, Does
<1>1. CASE bwBusy
  <2>1. th' = P!Returns(t) /\ UNCHANGED <<bw, bwBusy, owedBw>>
    BY <1>1 DEF P!rtl8192_SetBWMode
  <2>2. th' \in ThType /\ th'[t].at = "idle" /\ \A u \in P!Threads : u # t => th'[u] = th[u]
    BY <1>0, <2>1, ReturnsMoves
  <2>3. PhyType'
    BY <1>0, <2>1, <2>2 DEF PhyType
  <2> QED
    BY <1>0, <2>1, <2>2, <2>3, IdleStep
<1>2. CASE ~bwBusy
  <2>1. /\ bw' = P!Arg(t) /\ bwBusy' = TRUE /\ owedBw' = phyUp
        /\ th' = IF phyUp THEN P!Goes(t, "opmode") ELSE P!Returns(t)
    BY <1>2 DEF P!rtl8192_SetBWMode
  <2>2. /\ th' \in ThType /\ \A u \in P!Threads : u # t => th'[u] = th[u]
        /\ \/ th'[t].at = "idle"
           \/ th'[t].at = "opmode" /\ th'[t].todo = th[t].todo
    BY <1>0, <2>1, GoesMoves, ReturnsMoves
  <2>3. bw' \in Int
    BY <1>0, <2>1 DEF P!Arg, ThType, Ask
  <2>4. bwBusy' \in BOOLEAN /\ owedBw' \in BOOLEAN
    BY <1>0, <2>1 DEF PhyType
  <2>5. PhyType'
    BY <1>0, <2>1, <2>2, <2>3, <2>4 DEF PhyType
  <2>6. /\ ~Switching(t) /\ ~Changing(t) /\ ~Writing(t) /\ ~P!InRf(t)
        /\ ~Switching(t)' /\ ~Writing(t)' /\ ~P!InRf(t)' /\ Shape(t)' /\ Tuning(t)' /\ Widening(t)'
    BY <1>0, <2>2 DEF Switching, Changing, Writing, P!InRf, Shape, Tuning, Widening, Does
  <2>7. ASSUME NEW u \in P!Threads, u # t
        PROVE  /\ Switching(u)' = Switching(u) /\ ~Changing(u) /\ ~Changing(u)' /\ Writing(u)' = Writing(u)
               /\ P!InRf(u)' = P!InRf(u) /\ P!Arg(u)' = P!Arg(u) /\ Does(u)' = Does(u) /\ th'[u] = th[u]
    BY <1>2, <2>2, <2>7, OtherThread DEF PhyInv, Owners
  <2>8. Owners'
    BY <1>0, <1>2, <2>1, <2>6, <2>7 DEF PhyInv, Owners
  <2>9. Paged'
    BY <1>0, <2>6, <2>7 DEF PhyInv, Paged
  <2>10. Believing'
    BY <1>0, <2>1 DEF PhyInv, Believing
  <2>11. ASSUME NEW u \in P!Threads, u # t PROVE Shape(u)' /\ Tuning(u)' /\ Widening(u)'
    <3>1. Shape(u) /\ Tuning(u)
      BY DEF PhyInv
    <3>2. Tuning(u)' /\ Widening(u)'
      BY <1>0, <2>7, <2>11, <3>1 DEF Tuning, Widening
    <3>3. ~(P!InRf(u)' /\ Does(u)' = "bw")
      BY <2>7, <2>11 DEF Changing
    <3>4. Shape(u)'
      BY <2>7, <2>11, <3>1, <3>3 DEF Shape
    <3> QED
      BY <3>2, <3>4
  <2> QED
    BY <2>5, <2>6, <2>8, <2>9, <2>10, <2>11 DEF PhyInv
<1> QED
  BY <1>0, <1>1, <1>2 DEF PhyType

\* The accesses of a change of the bandwidth.
LEMMA Accesses ==
    ASSUME bw \in Int
    PROVE  /\ \A n \in 1 .. 3 : Left(n) \in Seq(Access) /\ Len(Left(n)) = n
           /\ Left(3)[1] = [page |-> 0, offset |-> 11, value |-> bw]
           /\ Left(2)[1] = [page |-> 2, offset |-> 14, value |-> bw]
           /\ Left(1)[1] = [page |-> 0, offset |-> 14, value |-> bw]
           /\ Tail(Left(3)) = Left(2) /\ Tail(Left(2)) = Left(1) /\ Tail(Left(1)) = <<>>
           /\ Left(3) = P!Bandwidth8256(bw)
<1> DEFINE a == [page |-> 0, offset |-> 11, value |-> bw]
           b == [page |-> 2, offset |-> 14, value |-> bw]
           c == [page |-> 0, offset |-> 14, value |-> bw]
<1>1. a \in Access /\ b \in Access /\ c \in Access
  BY DEF Access
<1>2. P!Bandwidth8256(bw) = <<a, b, c>>
  BY DEF P!Bandwidth8256
<1> HIDE DEF a, b, c
<1>3. Left(3) = <<a, b, c>> /\ Left(2) = <<b, c>> /\ Left(1) = <<c>>
  BY <1>2 DEF Left
<1>4. \A n \in 1 .. 3 : Left(n) \in Seq(Access) /\ Len(Left(n)) = n
  <2>1. /\ Left(3) \in Seq(Access) /\ Len(Left(3)) = 3 /\ Left(2) \in Seq(Access) /\ Len(Left(2)) = 2
        /\ Left(1) \in Seq(Access) /\ Len(Left(1)) = 1
    <3>1. <<a, b, c>> \in Seq(Access) /\ Len(<<a, b, c>>) = 3
      BY <1>1
    <3>2. <<b, c>> \in Seq(Access) /\ Len(<<b, c>>) = 2
      BY <1>1
    <3>3. <<c>> \in Seq(Access) /\ Len(<<c>>) = 1
      BY <1>1
    <3> QED
      BY <1>3, <3>1, <3>2, <3>3
  <2>2. \A n \in 1 .. 3 : n = 1 \/ n = 2 \/ n = 3
    OBVIOUS
  <2> QED
    BY <2>1, <2>2
<1>5. Left(3)[1] = a /\ Left(2)[1] = b /\ Left(1)[1] = c
  BY <1>3
<1>6. Tail(Left(3)) = Left(2) /\ Tail(Left(2)) = Left(1) /\ Tail(Left(1)) = <<>>
  <2>1. Tail(<<a, b, c>>) = <<b, c>>
    OBVIOUS
  <2>2. Tail(<<b, c>>) = <<c>>
    OBVIOUS
  <2>3. Tail(<<c>>) = <<>>
    OBVIOUS
  <2> QED
    BY <1>3, <2>1, <2>2, <2>3
<1> QED
  BY <1>2, <1>3, <1>4, <1>5, <1>6 DEF a, b, c

\* rtl8192_SetBWModeWorkItem: the MAC and the baseband, then the chip.
LEMMA WorkItemStep ==
    ASSUME PhyInv, NEW t \in P!Threads, P!SetBWModeWorkItem(t) PROVE PhyInv'
<1>0. /\ PhyType /\ th \in ThType /\ th[t].at = "opmode" /\ th[t].todo # <<>> /\ Does(t) = "bw"
      /\ mac' = bw /\ P!StartsRf(t) /\ bw \in Int
      /\ UNCHANGED <<phyUp, chan, sw, bw, bwBusy, ht, htBusy, rf, page, owed, owedBw, refused>>
      /\ th' = [th EXCEPT ![t].at = "data", ![t].rfq = Left(3)]
  BY Accesses DEF PhyInv, PhyType, P!SetBWModeWorkItem, Shape
<1>1. /\ th' \in ThType /\ th'[t].todo = th[t].todo /\ th'[t].at = "data" /\ th'[t].rfq = Left(3)
      /\ \A u \in P!Threads : u # t => th'[u] = th[u]
  <2>1. Left(3) \in Seq(Access)
    BY <1>0, Accesses
  <2> QED
    BY <1>0, <2>1, RfMoves
<1>2. overlap' \in BOOLEAN /\ (~overlap' => ~overlap /\ \A u \in P!Threads : u # t => ~P!InRf(u))
  BY <1>0, Zenon DEF P!StartsRf, PhyType
<1>3. PhyType'
  BY <1>0, <1>1, <1>2 DEF PhyType
<1>4. /\ ~Switching(t) /\ Changing(t) /\ ~Writing(t) /\ ~P!InRf(t)
      /\ ~Switching(t)' /\ Changing(t)' /\ Writing(t)' /\ P!InRf(t)' /\ Does(t)' = "bw"
      /\ th'[t].rfq[1].page = 0 /\ Len(th'[t].rfq) = 3 /\ Left(3)' = Left(3)
  <2>1. /\ ~Switching(t) /\ Changing(t) /\ ~Writing(t) /\ ~P!InRf(t)
        /\ ~Switching(t)' /\ Changing(t)' /\ Writing(t)' /\ P!InRf(t)' /\ Does(t)' = "bw"
    BY <1>0, <1>1 DEF Switching, Changing, Writing, P!InRf, Does
  <2>2. Left(3)[1].page = 0 /\ Len(Left(3)) = 3
    BY <1>0, Accesses
  <2>3. Left(3)' = Left(3)
    BY <1>0 DEF Left
  <2> QED
    BY <1>1, <2>1, <2>2, <2>3
<1>5. ASSUME NEW u \in P!Threads, u # t
      PROVE  /\ Switching(u)' = Switching(u) /\ ~Changing(u) /\ ~Changing(u)' /\ Writing(u)' = Writing(u)
             /\ P!InRf(u)' = P!InRf(u) /\ P!Arg(u)' = P!Arg(u) /\ Shape(u)' = Shape(u) /\ th'[u] = th[u]
  BY <1>0, <1>1, <1>4, <1>5, OtherThread DEF PhyInv, Owners
<1>6. Owners'
  BY <1>0, <1>2, <1>4, <1>5 DEF PhyInv, Owners
<1>7. Paged'
  <2>1. ~overlap' => page = 0
    <3>1. \A u \in P!Threads : Writing(u) => P!InRf(u)
      BY DEF Writing, P!InRf
    <3> QED
      BY <1>2, <1>4, <3>1, <1>0 DEF PhyInv, Paged, PhyType
  <2> QED
    BY <1>0, <1>4, <1>5, <2>1 DEF Paged
<1>8. Believing'
  BY <1>0, <1>2, <1>4 DEF PhyInv, Believing, Owners
<1>9. Shape(t)' /\ Tuning(t)' /\ Widening(t)'
  <2>1. Shape(t)'
    BY <1>0, <1>1, <1>4 DEF Shape
  <2>2. Tuning(t)'
    BY <1>0, <1>1, <1>4 DEF Tuning
  <2>3. Widening(t)'
    <3>1. mac' = bw' /\ th'[t].at = "data" /\ Len(th'[t].rfq) = 3
      BY ONLY <1>0, <1>1, <1>4
    <3> QED
      BY ONLY <3>1 DEF Widening
  <2> QED
    BY ONLY <2>1, <2>2, <2>3
<1>10. ASSUME NEW u \in P!Threads, u # t PROVE Shape(u)' /\ Tuning(u)' /\ Widening(u)'
  <2>1. Shape(u) /\ Tuning(u)
    BY DEF PhyInv
  <2>2. Tuning(u)' /\ Widening(u)'
    BY <1>0, <1>2, <1>5, <1>10, <2>1 DEF Tuning, Widening
  <2> QED
    BY <1>5, <1>10, <2>1, <2>2
<1> QED
  BY <1>3, <1>6, <1>7, <1>8, <1>9, <1>10 DEF PhyInv

\* What is known of a thread inside an access to the chip.
LEMMA InAccess ==
    ASSUME PhyInv, NEW t \in P!Threads, P!InRf(t)
    PROVE  /\ th[t].todo # <<>> /\ bw \in Int /\ th \in ThType /\ PhyType
           /\ \/ /\ Does(t) = "chan" /\ Writing(t) /\ P!Arg(t) \in Plan /\ P!Arg(t) \in Int
                 /\ Switching(t) /\ ~Changing(t) /\ sw.busy /\ sw.stage = 1 /\ sw.step = 0
                 /\ th[t].rfq = <<[page |-> 0, offset |-> 7, value |-> P!Arg(t)]>>
                 /\ ~overlap => page = 0
              \/ /\ Does(t) = "bw" /\ ~Switching(t) /\ Changing(t) /\ bwBusy
                 /\ \E n \in 1 .. 3 : th[t].rfq = Left(n)
                 /\ th[t].at = "select" => th[t].rfq = Left(2)
                 /\ ~overlap /\ th[t].rfq[1].page = 0 => page = 0
                 /\ ~overlap /\ owedBw /\ Writing(t) => page = th[t].rfq[1].page
<1>1. PhyType /\ Owners /\ Paged /\ Shape(t) /\ Tuning(t)
  BY DEF PhyInv
<1>2. ~overlap /\ th[t].rfq[1].page = 0 => page = 0
  <2>1. \A u \in P!Threads : Writing(u) => P!InRf(u)
    BY DEF Writing, P!InRf
  <2> SUFFICES ASSUME ~overlap, th[t].rfq[1].page = 0, page = 2 PROVE FALSE
    BY <1>1 DEF PhyType
  <2>2. PICK u \in P!Threads : Writing(u) /\ th[u].rfq[1].page = 2
    BY <1>1 DEF Paged
  <2>3. u # t
    BY <2>2
  <2> QED
    BY <1>1, <2>1, <2>2, <2>3 DEF Owners
<1>3. CASE Does(t) = "chan"
  <2>1. Switching(t) /\ ~Changing(t)
    BY <1>3 DEF Switching, Changing, P!InRf
  <2>2. Writing(t) /\ P!Arg(t) \in Plan /\ P!Arg(t) \in Int /\ th[t].todo # <<>>
        /\ th[t].rfq = <<[page |-> 0, offset |-> 7, value |-> P!Arg(t)]>>
    <3>1. th[t].at # "idle"
      BY DEF P!InRf
    <3>2. \A c \in Plan : c \in Int
      BY PhyConstants
    <3> QED
      BY <1>1, <1>3, <3>1, <3>2 DEF Shape
  <2>3. th[t].rfq[1].page = 0
    BY <2>2
  <2> QED
    BY <1>1, <1>2, <1>3, <2>1, <2>2, <2>3 DEF Owners, Tuning, PhyType
<1>4. CASE Does(t) = "bw"
  <2>1. ~Switching(t) /\ Changing(t)
    BY <1>4 DEF Switching, Changing, P!InRf
  <2>2. th[t].todo # <<>> /\ (\E n \in 1 .. 3 : th[t].rfq = Left(n))
        /\ (th[t].at = "select" => th[t].rfq = Left(2))
    BY <1>1, <1>4 DEF Shape, P!InRf
  <2> QED
    BY <1>1, <1>2, <1>4, <2>1, <2>2 DEF Owners, Paged, PhyType
<1> QED
  BY <1>1, <1>3, <1>4 DEF Shape

LEMMA SelectStep ==
    ASSUME PhyInv, NEW t \in P!Threads, P!SelectPage(t) PROVE PhyInv'
<1>0. /\ th[t].at = "select" /\ P!InRf(t) /\ page' = th[t].rfq[1].page /\ th' = P!Goes(t, "data")
      /\ UNCHANGED <<phyUp, chan, sw, bw, bwBusy, ht, htBusy, rf, mac, owed, owedBw, refused, overlap>>
  BY DEF P!SelectPage, P!InRf
<1>1. /\ th[t].todo # <<>> /\ bw \in Int /\ th \in ThType /\ PhyType
      /\ Does(t) = "bw" /\ ~Switching(t) /\ Changing(t) /\ bwBusy /\ th[t].rfq = Left(2)
  BY <1>0, InAccess DEF Writing
<1>2. /\ th' \in ThType /\ th'[t].todo = th[t].todo /\ th'[t].at = "data" /\ th'[t].rfq = th[t].rfq
      /\ \A u \in P!Threads : u # t => th'[u] = th[u]
  BY <1>0, <1>1, GoesMoves
<1>3. page' = 2 /\ th'[t].rfq[1].page = 2 /\ th'[t].rfq = Left(2) /\ Len(th[t].rfq) = 2
  BY <1>0, <1>1, <1>2, Accesses
<1>4. PhyType'
  BY <1>0, <1>1, <1>2, <1>3 DEF PhyType
<1>5. /\ ~Switching(t)' /\ Changing(t)' /\ Writing(t)' /\ P!InRf(t)' /\ Does(t)' = "bw" /\ Left(2)' = Left(2)
  BY <1>0, <1>1, <1>2 DEF Switching, Changing, Writing, P!InRf, Does, Left
<1>6. ASSUME NEW u \in P!Threads, u # t
      PROVE  /\ Switching(u)' = Switching(u) /\ ~Changing(u) /\ ~Changing(u)' /\ Writing(u)' = Writing(u)
             /\ P!InRf(u)' = P!InRf(u) /\ P!Arg(u)' = P!Arg(u) /\ Shape(u)' = Shape(u) /\ th'[u] = th[u]
  BY <1>0, <1>1, <1>2, <1>6, OtherThread DEF PhyInv, Owners
<1>7. Owners'
  BY <1>0, <1>1, <1>5, <1>6 DEF PhyInv, Owners
<1>8. Paged'
  BY <1>0, <1>3, <1>5, <1>6 DEF Paged
<1>9. Believing'
  BY <1>0 DEF PhyInv, Believing
<1>10. Shape(t)'
  BY <1>1, <1>2, <1>3, <1>5 DEF Shape
<1>11. Tuning(t)' /\ Widening(t)'
  <2>1. Widening(t)
    BY DEF PhyInv
  <2> QED
    BY <1>0, <1>1, <1>2, <1>3, <1>5, <2>1 DEF Tuning, Widening
<1>12. ASSUME NEW u \in P!Threads, u # t PROVE Shape(u)' /\ Tuning(u)' /\ Widening(u)'
  <2>1. Shape(u) /\ Tuning(u)
    BY DEF PhyInv
  <2>2. Tuning(u)' /\ Widening(u)'
    BY <1>0, <1>6, <1>12, <2>1 DEF Tuning, Widening
  <2> QED
    BY <1>6, <1>12, <2>1, <2>2
<1> QED
  BY <1>4, <1>7, <1>8, <1>9, <1>10, <1>11, <1>12 DEF PhyInv

LEMMA WriteStep ==
    ASSUME PhyInv, NEW t \in P!Threads, P!WriteData(t) PROVE PhyInv'
<1> DEFINE o == th[t].rfq[1].offset  v == th[t].rfq[1].value
<1>0. /\ th[t].at = "data" /\ P!InRf(t) /\ Writing(t) /\ th' = P!Goes(t, "restore")
      /\ rf' = [rf EXCEPT ![<<page, o>>] = v]
      /\ UNCHANGED <<phyUp, chan, sw, bw, bwBusy, ht, htBusy, page, mac, owed, owedBw, refused, overlap>>
  BY DEF P!WriteData, P!InRf, Writing
<1>1. th[t].todo # <<>> /\ bw \in Int /\ th \in ThType /\ PhyType
  BY <1>0, InAccess
<1>2. /\ th' \in ThType /\ th'[t].todo = th[t].todo /\ th'[t].at = "restore" /\ th'[t].rfq = th[t].rfq
      /\ \A u \in P!Threads : u # t => th'[u] = th[u]
  BY <1>0, <1>1, GoesMoves
<1>3. /\ \/ Does(t) = "chan" /\ o = 7 /\ v = P!Arg(t) /\ v \in Int
         \/ Does(t) = "bw" /\ o \in {11, 14} /\ v = bw
      /\ o \in {7, 11, 14} /\ v \in Int
  <2>1. CASE Does(t) = "chan"
    <3>1. th[t].rfq = <<[page |-> 0, offset |-> 7, value |-> P!Arg(t)]>> /\ P!Arg(t) \in Int
      BY <1>0, <2>1, InAccess
    <3>2. o = 7 /\ v = P!Arg(t)
      BY <3>1
    <3> QED
      BY <2>1, <3>1, <3>2
  <2>2. CASE Does(t) = "bw"
    <3>1. PICK n \in 1 .. 3 : th[t].rfq = Left(n)
      BY <1>0, <2>2, InAccess
    <3>2. n = 1 \/ n = 2 \/ n = 3
      OBVIOUS
    <3>3. \/ th[t].rfq[1] = [page |-> 0, offset |-> 11, value |-> bw]
          \/ th[t].rfq[1] = [page |-> 2, offset |-> 14, value |-> bw]
          \/ th[t].rfq[1] = [page |-> 0, offset |-> 14, value |-> bw]
      BY <1>1, <3>1, <3>2, Accesses
    <3>4. o \in {11, 14} /\ v = bw
      BY <3>3
    <3> QED
      BY <1>1, <2>2, <3>4
  <2> QED
    BY <1>0, <2>1, <2>2, InAccess
<1>4. /\ rf' \in [{0, 2} \X {7, 11, 14} -> Int] /\ rf'[<<page, o>>] = v
      /\ \A p \in {0, 2}, q \in {7, 11, 14} : <<p, q>> # <<page, o>> => rf'[<<p, q>>] = rf[<<p, q>>]
  <2>1. page \in {0, 2} /\ rf \in [{0, 2} \X {7, 11, 14} -> Int]
    BY <1>1 DEF PhyType
  <2> HIDE DEF o, v
  <2> QED
    BY <1>0, <1>3, <2>1
<1>5. PhyType'
  BY <1>0, <1>1, <1>2, <1>4 DEF PhyType
<1>6. /\ Switching(t)' = Switching(t) /\ Changing(t)' = Changing(t) /\ Writing(t)' /\ P!InRf(t)'
      /\ Does(t)' = Does(t) /\ P!Arg(t)' = P!Arg(t) /\ \A n \in 1 .. 3 : Left(n)' = Left(n)
  BY <1>0, <1>2 DEF Switching, Changing, Writing, P!InRf, Does, P!Arg, Left
<1>7. ASSUME NEW u \in P!Threads, u # t
      PROVE  /\ Switching(u)' = Switching(u) /\ Changing(u)' = Changing(u) /\ Writing(u)' = Writing(u)
             /\ P!InRf(u)' = P!InRf(u) /\ P!Arg(u)' = P!Arg(u) /\ Shape(u)' = Shape(u) /\ th'[u] = th[u]
  BY <1>0, <1>2, <1>7, OtherThread
<1>8. Owners'
  BY <1>0, <1>6, <1>7 DEF PhyInv, Owners
<1>9. Paged'
  BY <1>0, <1>2, <1>6, <1>7 DEF PhyInv, Paged
<1>10. Shape(t)'
  <2>1. Shape(t)
    BY DEF PhyInv
  <2> QED
    BY <1>0, <1>2, <1>6, <2>1 DEF Shape
<1> HIDE DEF o, v
<1>11. CASE Does(t) = "chan"
  <2>1. /\ o = 7 /\ v = P!Arg(t) /\ Switching(t) /\ ~Changing(t) /\ sw.busy /\ P!Arg(t) \in Plan
        /\ (~overlap => page = 0)
    BY <1>0, <1>3, <1>11, InAccess
  <2>2. ~overlap => /\ rf'[<<0, 7>>] = P!Arg(t) /\ rf'[<<0, 11>>] = rf[<<0, 11>>] /\ rf'[<<0, 14>>] = rf[<<0, 14>>]
                    /\ rf'[<<2, 7>>] = rf[<<2, 7>>] /\ rf'[<<2, 11>>] = rf[<<2, 11>>] /\ rf'[<<2, 14>>] = rf[<<2, 14>>]
    BY <1>4, <2>1
  <2>3. Believing'
    BY <1>0, <2>1, <2>2 DEF PhyInv, Believing
  <2>4. Tuning(t)' /\ Widening(t)'
    <3>1. Tuning(t)
      BY DEF PhyInv
    <3> QED
      BY <1>0, <1>2, <1>6, <2>1, <2>2, <3>1 DEF Tuning, Widening
  <2>5. ASSUME NEW u \in P!Threads, u # t PROVE Shape(u)' /\ Tuning(u)' /\ Widening(u)'
    <3>1. Shape(u) /\ Widening(u) /\ ~Switching(u) /\ (~overlap => ~P!InRf(u))
      BY <1>0, <2>1, <2>5 DEF PhyInv, Owners
    <3>2. Tuning(u)' /\ Widening(u)'
      BY <1>0, <1>7, <2>5, <3>1 DEF Tuning, Widening
    <3> QED
      BY <1>7, <2>5, <3>1, <3>2
  <2> QED
    BY <1>5, <1>8, <1>9, <1>10, <2>3, <2>4, <2>5 DEF PhyInv
<1>12. CASE Does(t) = "bw"
  <2>1. /\ o \in {11, 14} /\ v = bw /\ ~Switching(t) /\ Changing(t) /\ bwBusy
    BY <1>0, <1>3, <1>12, InAccess
  <2>2. PICK n \in 1 .. 3 : th[t].rfq = Left(n)
    BY <1>0, <1>12, InAccess
  <2>3. /\ Len(th[t].rfq) = n /\ (n = 3 => o = 11 /\ th[t].rfq[1].page = 0)
        /\ (n = 2 => o = 14 /\ th[t].rfq[1].page = 2) /\ (n = 1 => o = 14 /\ th[t].rfq[1].page = 0)
    BY <1>1, <2>2, Accesses DEF o
  <2>4. /\ ~overlap /\ th[t].rfq[1].page = 0 => page = 0
        /\ ~overlap /\ owedBw => page = th[t].rfq[1].page
    BY <1>0, <1>12, InAccess
  <2>5. n = 1 \/ n = 2 \/ n = 3
    BY <2>2
  <2>6. rf'[<<0, 7>>] = rf[<<0, 7>>] /\ rf'[<<2, 7>>] = rf[<<2, 7>>]
    BY <1>4, <2>1
  <2>7. ~overlap => rf'[<<2, 11>>] = rf[<<2, 11>>]
    BY <1>4, <2>3, <2>4, <2>5
  <2>8. Believing'
    BY <1>0, <2>1, <2>6, <2>7 DEF PhyInv, Believing
  <2>9. Tuning(t)'
    BY <1>6, <2>1 DEF Tuning
  <2>10. Widening(t)'
    <3>1. Widening(t)
      BY DEF PhyInv
    <3>2. ~overlap /\ owedBw => /\ n = 3 => page = 0 /\ o = 11
                                /\ n = 2 => page = 2 /\ o = 14
                                /\ n = 1 => page = 0 /\ o = 14
      BY <2>3, <2>4
    <3>3. ~overlap /\ owedBw =>
            /\ rf'[<<0, 11>>] = (IF n = 3 THEN bw ELSE rf[<<0, 11>>])
            /\ rf'[<<2, 14>>] = (IF n = 2 THEN bw ELSE rf[<<2, 14>>])
            /\ rf'[<<0, 14>>] = (IF n = 1 THEN bw ELSE rf[<<0, 14>>])
      BY <1>4, <2>1, <2>5, <3>2
    <3>4. SUFFICES ASSUME owedBw
                   PROVE  /\ mac = bw
                          /\ ~overlap => /\ rf'[<<0, 11>>] = bw /\ (n <= 2 => rf'[<<2, 14>>] = bw)
                                         /\ (n = 1 => rf'[<<0, 14>>] = bw)
      <4>1. Len(th'[t].rfq) = n /\ th'[t].at = "restore" /\ mac' = mac /\ bw' = bw /\ owedBw' = owedBw
            /\ overlap' = overlap
        BY <1>0, <1>2, <2>3
      <4> QED
        BY <2>5, <4>1 DEF Widening
    <3>5. /\ mac = bw /\ (~overlap /\ n <= 2 => rf[<<0, 11>>] = bw)
          /\ (~overlap /\ n <= 1 => rf[<<2, 14>>] = bw)
      BY <1>0, <2>1, <2>3, <3>1, <3>4 DEF Widening
    <3> QED
      BY <2>5, <3>3, <3>4, <3>5
  <2>11. ASSUME NEW u \in P!Threads, u # t PROVE Shape(u)' /\ Tuning(u)' /\ Widening(u)'
    <3>1. Shape(u) /\ Tuning(u) /\ ~Changing(u)
      BY <2>1, <2>11 DEF PhyInv, Owners
    <3>2. Tuning(u)' /\ Widening(u)'
      BY <1>0, <1>7, <2>6, <2>11, <3>1 DEF Tuning, Widening
    <3> QED
      BY <1>7, <2>11, <3>1, <3>2
  <2> QED
    BY <1>5, <1>8, <1>9, <1>10, <2>8, <2>9, <2>10, <2>11 DEF PhyInv
<1> QED
  BY <1>3, <1>11, <1>12

\* The page is put back, and the next access, the next stage or the end follows.
LEMMA WriteEndsStep ==
    ASSUME PhyInv, NEW t \in P!Threads, P!RFSerialWriteEnds(t) PROVE PhyInv'
<1> DEFINE rest == Tail(th[t].rfq)
<1>0. /\ th[t].at = "restore" /\ P!InRf(t) /\ Writing(t) /\ page' = 0
      /\ UNCHANGED <<phyUp, chan, bw, ht, htBusy, rf, mac, owed, owedBw, refused, overlap>>
  BY DEF P!RFSerialWriteEnds, P!InRf, Writing, P!RestorePage
<1>1. th[t].todo # <<>> /\ bw \in Int /\ th \in ThType /\ PhyType
  BY <1>0, InAccess
<1>2. ASSUME NEW u \in P!Threads, u # t, ~overlap PROVE ~P!InRf(u) /\ ~Writing(u)
  <2>1. ~P!InRf(u)
    BY <1>0, <1>2 DEF PhyInv, Owners
  <2> QED
    BY <2>1 DEF P!InRf, Writing
<1>3. CASE Does(t) = "chan"
  <2>1. /\ Switching(t) /\ ~Changing(t) /\ sw.busy /\ sw.stage = 1 /\ sw.step = 0 /\ P!Arg(t) \in Plan
        /\ th[t].rfq = <<[page |-> 0, offset |-> 7, value |-> P!Arg(t)]>>
    BY <1>0, <1>3, InAccess
  <2>2. rest = <<>>
    BY <2>1
  <2>3. th' = P!Goes(t, "look") /\ sw' = [sw EXCEPT !.step = @ + 1] /\ bwBusy' = bwBusy
    BY <1>3, <2>2 DEF P!RFSerialWriteEnds, Does
  <2>4. /\ th' \in ThType /\ th'[t].todo = th[t].todo /\ th'[t].at = "look" /\ th'[t].rfq = th[t].rfq
        /\ \A u \in P!Threads : u # t => th'[u] = th[u]
    BY <1>1, <2>3, GoesMoves
  <2>5. /\ sw'.stage = 1 /\ sw'.step = 1 /\ sw'.busy = sw.busy
        /\ sw' \in [busy : BOOLEAN, stage : 0 .. 1, step : 0 .. 1]
    <3>1. sw' = [sw EXCEPT !.step = 1] /\ sw \in [busy : BOOLEAN, stage : 0 .. 1, step : 0 .. 1]
      BY <1>1, <2>1, <2>3 DEF PhyType
    <3>2. 1 \in 0 .. 1
      OBVIOUS
    <3> QED
      BY <2>1, <3>1, <3>2
  <2>6. PhyType'
    BY <1>0, <1>1, <2>3, <2>4, <2>5 DEF PhyType
  <2>7. /\ Switching(t)' /\ ~Changing(t)' /\ ~Writing(t)' /\ ~P!InRf(t)' /\ Does(t)' = "chan"
        /\ P!Arg(t)' = P!Arg(t)
    BY <1>3, <2>4 DEF Switching, Changing, Writing, P!InRf, Does, P!Arg
  <2>8. ASSUME NEW u \in P!Threads, u # t
        PROVE  /\ ~Switching(u) /\ ~Switching(u)' /\ Changing(u)' = Changing(u) /\ Writing(u)' = Writing(u)
               /\ P!InRf(u)' = P!InRf(u) /\ P!Arg(u)' = P!Arg(u) /\ Shape(u)' = Shape(u) /\ th'[u] = th[u]
    BY <1>0, <2>1, <2>4, <2>8, OtherThread DEF PhyInv, Owners
  <2>9. Owners'
    BY <1>0, <2>1, <2>3, <2>5, <2>7, <2>8 DEF PhyInv, Owners
  <2>10. Paged'
    BY <1>0, <1>2, <2>7, <2>8 DEF Paged
  <2>11. Believing'
    BY <1>0, <2>1, <2>3, <2>5 DEF PhyInv, Believing
  <2>12. Shape(t)' /\ Widening(t)'
    BY <1>1, <2>4, <2>7 DEF Shape, Widening
  <2>13. Tuning(t)'
    <3>1. Tuning(t)
      BY DEF PhyInv
    <3> QED
      BY <1>0, <2>1, <2>5, <2>7, <3>1 DEF Tuning
  <2>14. ASSUME NEW u \in P!Threads, u # t PROVE Shape(u)' /\ Tuning(u)' /\ Widening(u)'
    <3>1. Shape(u) /\ Widening(u)
      BY DEF PhyInv
    <3>2. Tuning(u)' /\ Widening(u)'
      BY <1>0, <2>8, <2>14, <3>1 DEF Tuning, Widening
    <3> QED
      BY <2>8, <2>14, <3>1, <3>2
  <2> QED
    BY <2>6, <2>9, <2>10, <2>11, <2>12, <2>13, <2>14 DEF PhyInv
<1>4. CASE Does(t) = "bw"
  <2>1. ~Switching(t) /\ Changing(t) /\ bwBusy
    BY <1>0, <1>4, InAccess
  <2>2. PICK n \in 1 .. 3 : th[t].rfq = Left(n)
    BY <1>0, <1>4, InAccess
  <2>3. /\ Len(th[t].rfq) = n /\ (n = 1 \/ n = 2 \/ n = 3)
        /\ (n = 3 => rest = Left(2)) /\ (n = 2 => rest = Left(1)) /\ (n = 1 => rest = <<>>)
    <3>1. n = 1 \/ n = 2 \/ n = 3
      OBVIOUS
    <3> QED
      BY <1>1, <2>2, <3>1, Accesses
  <2>4. Widening(t)
    BY DEF PhyInv
  <2>5. CASE n = 1
    <3>1. th' = P!Returns(t) /\ bwBusy' = FALSE /\ sw' = sw
      BY <1>4, <2>3, <2>5 DEF P!RFSerialWriteEnds, Does
    <3>2. th' \in ThType /\ th'[t].at = "idle" /\ \A u \in P!Threads : u # t => th'[u] = th[u]
      BY <1>1, <3>1, ReturnsMoves
    <3>3. bwBusy' \in BOOLEAN
      BY <3>1, Zenon
    <3>4. PhyType'
      BY <1>0, <1>1, <3>1, <3>2, <3>3 DEF PhyType
    <3>5. /\ ~Switching(t)' /\ ~Changing(t)' /\ ~Writing(t)' /\ ~P!InRf(t)'
          /\ Shape(t)' /\ Tuning(t)' /\ Widening(t)'
      BY <3>2, IdleThreadNext
    <3>6. ASSUME NEW u \in P!Threads, u # t
          PROVE  /\ Switching(u)' = Switching(u) /\ ~Changing(u) /\ ~Changing(u)' /\ Writing(u)' = Writing(u)
                 /\ P!InRf(u)' = P!InRf(u) /\ P!Arg(u)' = P!Arg(u) /\ Shape(u)' = Shape(u) /\ th'[u] = th[u]
      BY <1>0, <2>1, <3>2, <3>6, OtherThread DEF PhyInv, Owners
    <3>7. Owners'
      BY <1>0, <2>1, <3>1, <3>5, <3>6 DEF PhyInv, Owners
    <3>8. Paged'
      BY <1>0, <1>2, <3>5, <3>6 DEF Paged
    <3>9. owedBw /\ ~overlap => mac = bw /\ rf[<<0, 11>>] = bw /\ rf[<<2, 14>>] = bw /\ rf[<<0, 14>>] = bw
      BY <1>0, <2>1, <2>3, <2>4, <2>5 DEF Widening
    <3>10. Believing'
      BY <1>0, <3>1, <3>9 DEF PhyInv, Believing
    <3>11. ASSUME NEW u \in P!Threads, u # t PROVE Shape(u)' /\ Tuning(u)' /\ Widening(u)'
      <4>1. Shape(u) /\ Tuning(u)
        BY DEF PhyInv
      <4>2. Tuning(u)' /\ Widening(u)'
        BY <1>0, <3>1, <3>6, <3>11, <4>1 DEF Tuning, Widening
      <4> QED
        BY <3>6, <3>11, <4>1, <4>2
    <3> QED
      BY <3>4, <3>5, <3>7, <3>8, <3>10, <3>11 DEF PhyInv
  <2>6. CASE n = 2 \/ n = 3
    <3> DEFINE a == IF rest[1].page = 0 THEN "data" ELSE "select"
    <3>1. /\ rest \in Seq(Access) /\ rest # <<>> /\ Len(rest) = n - 1 /\ rest = Left(n - 1)
          /\ (n = 2 => a = "data" /\ rest[1].page = 0) /\ (n = 3 => a = "select")
      <4>1. CASE n = 2
        <5>1. rest = Left(1) /\ Left(1) \in Seq(Access) /\ Len(Left(1)) = 1
              /\ Left(1)[1] = [page |-> 0, offset |-> 14, value |-> bw]
          BY <1>1, <2>3, <4>1, Accesses
        <5>2. n - 1 = 1
          BY <4>1
        <5>3. Left(n - 1) = Left(1)
          BY <5>2
        <5>4. rest[1].page = 0 /\ rest # <<>>
          <6> HIDE DEF rest
          <6> QED
            BY <5>1
        <5>5. a = "data"
          BY <5>4
        <5> HIDE DEF rest, a
        <5> QED
          BY <4>1, <5>1, <5>2, <5>3, <5>4, <5>5
      <4>2. CASE n = 3
        <5>1. rest = Left(2) /\ Left(2) \in Seq(Access) /\ Len(Left(2)) = 2
              /\ Left(2)[1] = [page |-> 2, offset |-> 14, value |-> bw]
          BY <1>1, <2>3, <4>2, Accesses
        <5>2. n - 1 = 2
          BY <4>2
        <5>3. Left(n - 1) = Left(2)
          BY <5>2
        <5>4. rest[1].page = 2 /\ rest # <<>>
          <6> HIDE DEF rest
          <6> QED
            BY <5>1
        <5>5. a = "select"
          BY <5>4
        <5> HIDE DEF rest, a
        <5> QED
          BY <4>2, <5>1, <5>2, <5>3, <5>4, <5>5
      <4> QED
        BY <2>6, <4>1, <4>2
    <3>2. th' = [th EXCEPT ![t].at = a, ![t].rfq = rest] /\ sw' = sw /\ bwBusy' = bwBusy
      BY <3>1 DEF P!RFSerialWriteEnds
    <3>3. a \in {"select", "data"}
      OBVIOUS
    <3> HIDE DEF a, rest
    <3>4. /\ th' \in ThType /\ th'[t].todo = th[t].todo /\ th'[t].at = a /\ th'[t].rfq = rest
          /\ \A u \in P!Threads : u # t => th'[u] = th[u]
      BY <1>1, <3>1, <3>2, <3>3, RfMoves
    <3>5. PhyType'
      BY <1>0, <1>1, <3>2, <3>4 DEF PhyType
    <3>6. /\ ~Switching(t)' /\ Changing(t)' /\ P!InRf(t)' /\ Does(t)' = "bw"
          /\ (Writing(t)' => th'[t].rfq[1].page = 0) /\ Left(n - 1)' = Left(n - 1)
      <4>1. ~Switching(t)' /\ Changing(t)' /\ P!InRf(t)' /\ Does(t)' = "bw"
        BY <1>4, <3>3, <3>4 DEF Switching, Changing, P!InRf, Does
      <4>2. Writing(t)' => th'[t].rfq[1].page = 0
        BY <2>6, <3>1, <3>4 DEF Writing
      <4>3. Left(n - 1)' = Left(n - 1)
        BY <1>0 DEF Left
      <4> QED
        BY <4>1, <4>2, <4>3
    <3>7. ASSUME NEW u \in P!Threads, u # t
          PROVE  /\ Switching(u)' = Switching(u) /\ ~Changing(u) /\ ~Changing(u)' /\ Writing(u)' = Writing(u)
                 /\ P!InRf(u)' = P!InRf(u) /\ P!Arg(u)' = P!Arg(u) /\ Shape(u)' = Shape(u) /\ th'[u] = th[u]
      BY <1>0, <2>1, <3>4, <3>7, OtherThread DEF PhyInv, Owners
    <3>8. Owners'
      BY <1>0, <2>1, <3>2, <3>6, <3>7 DEF PhyInv, Owners
    <3>9. Paged'
      BY <1>0, <1>2, <3>6, <3>7 DEF Paged
    <3>10. Believing'
      BY <1>0, <3>2 DEF PhyInv, Believing
    <3>11. Shape(t)'
      <4>1. n - 1 \in 1 .. 3 /\ th'[t].rfq = Left(n - 1)' /\ (th'[t].at = "select" => n - 1 = 2)
        BY <2>6, <3>1, <3>4, <3>6
      <4>2. \E m \in 1 .. 3 : th'[t].rfq = Left(m)'
        BY <4>1
      <4>3. th'[t].at = "select" => th'[t].rfq = Left(2)'
        BY <4>1
      <4> QED
        BY <1>1, <3>3, <3>4, <3>6, <4>2, <4>3 DEF Shape
    <3>12. Tuning(t)'
      BY <3>6 DEF Tuning
    <3>13. Widening(t)'
      <4>1. Len(th'[t].rfq) = n - 1 /\ th'[t].at # "restore"
        BY <3>1, <3>3, <3>4
      <4>2. owedBw => /\ mac = bw /\ (~overlap => rf[<<0, 11>>] = bw /\ (n = 2 => rf[<<2, 14>>] = bw))
        BY <1>0, <2>1, <2>3, <2>4, <2>6 DEF Widening
      <4> QED
        BY <1>0, <2>6, <4>1, <4>2 DEF Widening
    <3>14. ASSUME NEW u \in P!Threads, u # t PROVE Shape(u)' /\ Tuning(u)' /\ Widening(u)'
      <4>1. Shape(u) /\ Tuning(u)
        BY DEF PhyInv
      <4>2. Tuning(u)' /\ Widening(u)'
        BY <1>0, <3>2, <3>7, <3>14, <4>1 DEF Tuning, Widening
      <4> QED
        BY <3>7, <3>14, <4>1, <4>2
    <3> QED
      BY <3>5, <3>8, <3>9, <3>10, <3>11, <3>12, <3>13, <3>14 DEF PhyInv
  <2> QED
    BY <2>3, <2>5, <2>6
<1> QED
  BY <1>0, <1>3, <1>4, InAccess

\* The callers fill in what a thread is to do, or find it done.
LEMMA CallersStep ==
    ASSUME PhyInv, NEW t \in P!Threads,
           \/ P!ConnectDone(t)
           \/ \E todo \in Seq(Ask) : P!Calls(t, todo) /\ ht' \in [bw : {20, 40}, off : {-2, 0, 2}]
    PROVE  PhyInv'
<1>0. PhyType /\ th \in ThType
  BY DEF PhyInv, PhyType
<1>1. CASE P!ConnectDone(t)
  <2>1. /\ th[t].at = "idle" /\ th' = [th EXCEPT ![t] = P!Idle]
        /\ UNCHANGED <<phyUp, chan, sw, bw, bwBusy, ht, rf, page, mac, owed, owedBw, refused, overlap>>
    BY <1>1 DEF P!ConnectDone
  <2>2. P!Idle \in [todo : Seq(Ask), rfq : Seq(Access),
                    at : {"idle", "step", "look", "opmode", "select", "data", "restore"}]
        /\ P!Idle.at = "idle"
    BY DEF P!Idle
  <2>3. th' \in ThType /\ th'[t].at = "idle" /\ \A u \in P!Threads : u # t => th'[u] = th[u]
    <3> HIDE DEF P!Idle
    <3> QED
      BY <1>0, <2>1, <2>2 DEF ThType
  <2>4. PhyType'
    BY <1>0, <2>1, <2>3 DEF PhyType
  <2> QED
    BY <2>1, <2>3, <2>4, IdleStep
<1>2. CASE \E todo \in Seq(Ask) : P!Calls(t, todo) /\ ht' \in [bw : {20, 40}, off : {-2, 0, 2}]
  <2>1. PICK todo \in Seq(Ask) : P!Calls(t, todo) /\ ht' \in [bw : {20, 40}, off : {-2, 0, 2}]
    BY <1>2
  <2>2. /\ th[t].at = "idle" /\ th' = [th EXCEPT ![t].todo = todo]
        /\ UNCHANGED <<phyUp, chan, sw, bw, bwBusy, rf, page, mac, owed, owedBw, refused, overlap>>
    BY <2>1 DEF P!Calls, P!Idle
  <2>3. th' \in ThType /\ th'[t].at = "idle" /\ \A u \in P!Threads : u # t => th'[u] = th[u]
    BY <1>0, <2>2, TodoMoves
  <2>4. PhyType'
    BY <1>0, <2>1, <2>2, <2>3 DEF PhyType
  <2> QED
    BY <2>2, <2>3, <2>4, IdleStep
<1> QED
  BY <1>1, <1>2

\* What the three callers ask for is well formed, whatever the extension channel.
LEMMA Requests ==
    ASSUME PhyInv
    PROVE  /\ \A b \in {20, 40}, off \in {-2, 0, 2} : P!HTSetConnectBwMode(b, off) => PhyInv'
           /\ \A c \in Plan : P!rtllib_wx_sync_scan_wq(c) \/ P!rtllib_softmac_scan_wq(c) => PhyInv'
<1>0. PhyType /\ "wq" \in P!Threads /\ Net \in Int /\ ht \in [bw : {20, 40}, off : {-2, 0, 2}]
  BY PhyConstants DEF PhyInv, PhyType, P!Threads
<1>1. \A c \in Int : P!Chan(c) \in Ask /\ P!Bw(c) \in Ask /\ <<"done", 0>> \in Ask
  BY DEF P!Chan, P!Bw, Ask
<1>2. \A h \in [bw : {20, 40}, off : {-2, 0, 2}] : P!Centre(h) \in Int /\ h.bw \in Int
  BY <1>0 DEF P!Centre
<1>3. ASSUME NEW b \in {20, 40}, NEW off \in {-2, 0, 2}, P!HTSetConnectBwMode(b, off) PROVE PhyInv'
  <2> DEFINE h == IF b = 40 /\ off # 0 THEN [bw |-> 40, off |-> off] ELSE [bw |-> 20, off |-> 0]
  <2>1. h \in [bw : {20, 40}, off : {-2, 0, 2}]
    OBVIOUS
  <2>2. ht' = h /\ P!Calls("wq", <<P!Chan(P!Centre(h)), P!Bw(h.bw), <<"done", 0>>>>)
    BY <1>3 DEF P!HTSetConnectBwMode
  <2> HIDE DEF h
  <2>3. P!Chan(P!Centre(h)) \in Ask /\ P!Bw(h.bw) \in Ask /\ <<"done", 0>> \in Ask
    BY <1>1, <1>2, <2>1
  <2>4. <<P!Chan(P!Centre(h)), P!Bw(h.bw), <<"done", 0>>>> \in Seq(Ask)
    BY <2>3
  <2> QED
    BY <1>0, <2>1, <2>2, <2>4, CallersStep
<1>4. ASSUME NEW c \in Plan, P!rtllib_wx_sync_scan_wq(c) PROVE PhyInv'
  <2>0. c \in Int /\ P!Chan(c) \in Ask /\ P!Chan(Net) \in Ask /\ P!Bw(20) \in Ask /\ P!Bw(40) \in Ask
        /\ P!Chan(P!Centre(ht)) \in Ask
    <3>1. c \in Int /\ 20 \in Int /\ 40 \in Int
      BY PhyConstants
    <3> QED
      BY <1>0, <1>1, <1>2, <3>1
  <2>1. /\ <<P!Bw(20), P!Chan(c), P!Chan(P!Centre(ht)), P!Bw(40)>> \in Seq(Ask)
        /\ <<P!Chan(c), P!Chan(Net)>> \in Seq(Ask)
    BY <2>0
  <2>2. \E todo \in Seq(Ask) : P!Calls("wq", todo)
    BY <1>4, <2>1 DEF P!rtllib_wx_sync_scan_wq
  <2>3. ht' \in [bw : {20, 40}, off : {-2, 0, 2}]
    BY <1>0, <1>4 DEF P!rtllib_wx_sync_scan_wq
  <2> QED
    BY <1>0, <2>2, <2>3, CallersStep
<1>5. ASSUME NEW c \in Plan, P!rtllib_softmac_scan_wq(c) PROVE PhyInv'
  <2>0. P!Chan(c) \in Ask
    BY <1>1, PhyConstants
  <2>1. <<P!Chan(c)>> \in Seq(Ask) /\ P!Calls("wq", <<P!Chan(c)>>)
    BY <1>5, <2>0 DEF P!rtllib_softmac_scan_wq
  <2>2. ht' \in [bw : {20, 40}, off : {-2, 0, 2}]
    BY <1>0, <1>5 DEF P!rtllib_softmac_scan_wq
  <2> QED
    BY <1>0, <2>1, <2>2, CallersStep
<1> QED
  BY <1>3, <1>4, <1>5

\* priv->up is cleared; the adapter is started anew while another thread may be waiting
\* in the middle of a switch.
LEMMA DownStartStep ==
    ASSUME PhyInv, P!Down \/ \E linked \in BOOLEAN : P!Start(linked) PROVE PhyInv'
<1>0. PhyType /\ th \in ThType
  BY DEF PhyInv, PhyType
<1>1. CASE P!Down
  <2>1. /\ phyUp' = FALSE
        /\ UNCHANGED <<chan, sw, bw, bwBusy, ht, htBusy, rf, page, mac, th, owed, owedBw, refused, overlap>>
    BY <1>1 DEF P!Down
  <2>2. phyUp' \in BOOLEAN
    BY <2>1, Zenon
  <2>3. PhyType'
    BY <1>0, <2>1, <2>2 DEF PhyType
  <2>4. ASSUME NEW u \in P!Threads
        PROVE  /\ Switching(u)' = Switching(u) /\ Changing(u)' = Changing(u) /\ Writing(u)' = Writing(u)
               /\ P!InRf(u)' = P!InRf(u) /\ P!Arg(u)' = P!Arg(u) /\ Shape(u)' = Shape(u) /\ th'[u] = th[u]
    BY <2>1, OtherThread
  <2>5. Owners' /\ Paged' /\ Believing'
    BY <2>1, <2>4 DEF PhyInv, Owners, Paged, Believing
  <2>6. ASSUME NEW u \in P!Threads PROVE Shape(u)' /\ Tuning(u)' /\ Widening(u)'
    <3>1. Shape(u) /\ Tuning(u) /\ Widening(u)
      BY DEF PhyInv
    <3> QED
      BY <2>1, <2>4, <3>1 DEF Tuning, Widening
  <2> QED
    BY <2>3, <2>5, <2>6 DEF PhyInv
<1>2. CASE \E linked \in BOOLEAN : P!Start(linked)
  <2> DEFINE t == "reset"
  <2>0. PICK linked \in BOOLEAN : P!Start(linked)
    BY <1>2
  <2>1. /\ phyUp' = TRUE /\ rf' = P!RfTable /\ page' = 0 /\ mac' = 20 /\ owed' = 0 /\ owedBw' = FALSE
        /\ th[t].at = "idle" /\ th' = [th EXCEPT ![t].todo = IF linked THEN <<P!Chan(Net)>> ELSE <<>>]
        /\ UNCHANGED <<chan, sw, bw, bwBusy, ht, htBusy, refused, overlap>>
    BY <2>0 DEF P!Start, P!Idle
  <2>2. t \in P!Threads /\ <<P!Chan(Net)>> \in Seq(Ask)
    <3>1. P!Chan(Net) \in Ask
      BY PhyConstants DEF P!Chan, Ask
    <3> QED
      BY <3>1 DEF P!Threads
  <2>3. th' \in ThType /\ th'[t].at = "idle" /\ \A u \in P!Threads : u # t => th'[u] = th[u]
    <3> DEFINE q == IF linked THEN <<P!Chan(Net)>> ELSE <<>>
    <3>1. q \in Seq(Ask) /\ th' = [th EXCEPT ![t].todo = q]
      BY <2>1, <2>2
    <3> HIDE DEF q
    <3> QED
      BY <1>0, <2>1, <2>2, <3>1, TodoMoves
  <2>4. rf' \in [{0, 2} \X {7, 11, 14} -> Int] /\ rf'[<<2, 7>>] = 1 /\ rf'[<<2, 11>>] = 20
    BY <2>1 DEF P!RfTable
  <2>5. phyUp' \in BOOLEAN /\ owedBw' \in BOOLEAN
    BY <2>1, Zenon
  <2>6. PhyType'
    BY <1>0, <2>1, <2>3, <2>4, <2>5 DEF PhyType
  <2>7. /\ ~Switching(t) /\ ~Changing(t) /\ ~Writing(t) /\ ~P!InRf(t)
        /\ ~Switching(t)' /\ ~Changing(t)' /\ ~Writing(t)' /\ ~P!InRf(t)'
        /\ Shape(t)' /\ Tuning(t)' /\ Widening(t)'
    BY <2>1, <2>2, <2>3, IdleThread, IdleThreadNext
  <2>8. ASSUME NEW u \in P!Threads, u # t
        PROVE  /\ Switching(u)' = Switching(u) /\ Changing(u)' = Changing(u) /\ Writing(u)' = Writing(u)
               /\ P!InRf(u)' = P!InRf(u) /\ P!Arg(u)' = P!Arg(u) /\ Shape(u)' = Shape(u) /\ th'[u] = th[u]
    BY <2>1, <2>3, <2>8, OtherThread
  <2> HIDE DEF t
  <2>9. Owners'
    BY <2>1, <2>2, <2>7, <2>8 DEF PhyInv, Owners
  <2>10. Paged'
    BY <2>1 DEF Paged
  <2>11. Believing'
    BY <2>1, <2>4 DEF Believing
  <2>12. ASSUME NEW u \in P!Threads, u # t PROVE Shape(u)' /\ Tuning(u)' /\ Widening(u)'
    <3>1. Shape(u) /\ Tuning(u)
      BY DEF PhyInv
    <3> QED
      BY <2>1, <2>8, <2>12, <3>1 DEF Tuning, Widening
  <2> QED
    BY <2>6, <2>7, <2>9, <2>10, <2>11, <2>12 DEF PhyInv
<1> QED
  BY <1>1, <1>2

LEMMA PhyStep == PhyInv /\ [P!Next]_pvars => PhyInv'
<1> SUFFICES ASSUME PhyInv, [P!Next]_pvars PROVE PhyInv'
  OBVIOUS
<1>1. CASE UNCHANGED pvars
  <2>1. UNCHANGED <<phyUp, chan, sw, bw, bwBusy, ht, rf, page, mac, th, owed, owedBw, refused, overlap>>
    BY <1>1 DEF pvars
  <2>2. ASSUME NEW u \in P!Threads
        PROVE  /\ Switching(u)' = Switching(u) /\ Changing(u)' = Changing(u) /\ Writing(u)' = Writing(u)
               /\ P!InRf(u)' = P!InRf(u) /\ P!Arg(u)' = P!Arg(u) /\ Shape(u)' = Shape(u) /\ th'[u] = th[u]
    BY <2>1, OtherThread
  <2>3. PhyType' /\ Owners' /\ Paged' /\ Believing'
    BY <2>1, <2>2 DEF PhyInv, PhyType, Owners, Paged, Believing
  <2>4. ASSUME NEW u \in P!Threads PROVE Shape(u)' /\ Tuning(u)' /\ Widening(u)'
    <3>1. Shape(u) /\ Tuning(u) /\ Widening(u)
      BY DEF PhyInv
    <3> QED
      BY <2>1, <2>2, <3>1 DEF Tuning, Widening
  <2> QED
    BY <2>3, <2>4 DEF PhyInv
<1>2. ASSUME NEW t \in P!Threads, P!Step(t) PROVE PhyInv'
  BY <1>2, SwChnlStep, StepByStep, FinishStep, SetBWModeStep, WorkItemStep, SelectStep, WriteStep,
     WriteEndsStep, CallersStep DEF P!Step
<1>3. CASE P!Next
  BY <1>2, <1>3, Requests, DownStartStep DEF P!Next
<1> QED
  BY <1>1, <1>3

\* Once nothing is in progress the chip, the baseband and the driver agree on the channel
\* and the bandwidth of the last request that was accepted, for every channel plan and
\* every number of requests, downs and starts, unless two threads wrote the chip at once.
THEOREM RadioAsRequested == MCSpec => []AsRequested
<1>1. MCInit => PhyInv
  BY PhyInitInv DEF MCInit
<1>2. PhyInv /\ [MCNext]_<<which, vars, pvars>> => PhyInv'
  <2>1. [MCNext]_<<which, vars, pvars>> => [P!Next]_pvars
    BY DEF MCNext
  <2> QED
    BY <2>1, PhyStep
<1>3. PhyInv => AsRequested
  <2> SUFFICES ASSUME PhyInv PROVE AsRequested
    OBVIOUS
  <2>1. P!Tuned
    BY DEF PhyInv, Believing, P!Tuned
  <2>2. P!BwAgrees
    BY DEF PhyInv, Believing, P!BwAgrees
  <2> QED
    BY <2>1, <2>2 DEF AsRequested, P!AsRequested
<1> QED
  BY <1>1, <1>2, <1>3, PTL DEF MCSpec
=============================================================================
