-------------------------------- MODULE DmProofs --------------------------------
(***************************************************************************)
(* Proofs about the mechanisms of the watchdog: what the driver believes of *)
(* the registers, that the mechanisms come to rest, the receive paths, the  *)
(* frame synchronisation and the tracked gains, for every set of signal     *)
(* levels and every number of events.                                       *)
(***************************************************************************)
EXTENDS MCDm, FiniteSetTheorems, TLAPS

allvars == <<which, vars, pvars, fvars, tvars>>
-----------------------------------------------------------------------------
(* Software frame synchronisation                                          *)

\* FsyncReturned is inductive once it is known that the timer is stopped when the
\* adapter is started: dm_deInit_fsync must come before the registers are written.
FsyncInv ==
    /\ ap \in {"none", "bcm", "other"} /\ near \in BOOLEAN /\ st \in {"Default", "SW"}
    /\ timer \in BOOLEAN /\ switched \in BOOLEAN /\ c36 \in BOOLEAN /\ counted \in BOOLEAN
    /\ phase \in {"up", "backup", "down", "started"}
    /\ phase = "down" => ~timer
    /\ FsyncReturned

LEMMA FsyncInit == F!Init => FsyncInv
<1>1. F!C38Value("Default") = "framesync"
  BY DEF F!C38Value
<1> QED
  BY <1>1 DEF F!Init, FsyncInv, FsyncReturned, F!FsyncReturned

LEMMA FsyncStep == FsyncInv /\ [F!Next]_fvars => FsyncInv'
<1> SUFFICES ASSUME FsyncInv, [F!Next]_fvars PROVE FsyncInv'
  OBVIOUS
<1> USE DEF FsyncInv, FsyncReturned, F!FsyncReturned
<1>1. CASE UNCHANGED fvars
  BY <1>1 DEF fvars, F!C38Value
<1>2. CASE \E a \in {"none", "bcm", "other"}, n \in BOOLEAN : F!Link(a, n)
  BY <1>2 DEF F!Link, F!C38Value
<1>3. CASE F!dm_check_fsync
  <2>1. ap' \in {"none", "bcm", "other"} /\ near' \in BOOLEAN /\ st' \in {"Default", "SW"}
        /\ timer' \in BOOLEAN /\ switched' \in BOOLEAN /\ c36' \in BOOLEAN /\ counted' \in BOOLEAN
        /\ phase' \in {"up", "started"}
    BY <1>3 DEF F!dm_check_fsync, F!dm_StartSWFsync, F!dm_EndSWFsync
  <2>2. (c36' => st' = "SW" /\ switched') /\ (timer' => st' = "SW")
    <3>1. CASE ap = "bcm" /\ st = "Default" /\ F!dm_StartSWFsync
      BY <1>3, <3>1 DEF F!dm_check_fsync, F!dm_StartSWFsync
    <3>2. CASE ap # "bcm" /\ st = "SW" /\ F!dm_EndSWFsync
      BY <1>3, <3>2 DEF F!dm_check_fsync, F!dm_EndSWFsync
    <3>3. CASE UNCHANGED <<st, timer, switched, c36>>
      BY <1>3, <3>3 DEF F!dm_check_fsync
    <3> QED
      BY <1>3, <3>1, <3>2, <3>3 DEF F!dm_check_fsync
  <2>3. phase' = "up" => c38' = F!C38Value(c38State')
    BY <1>3 DEF F!dm_check_fsync, F!C38Value, F!C38Wanted
  <2> QED
    BY <2>1, <2>2, <2>3
<1>4. CASE \E fewer \in BOOLEAN : F!dm_fsync_timer_callback(fewer)
  <2> PICK fewer \in BOOLEAN : F!dm_fsync_timer_callback(fewer)
    BY <1>4
  <2>1. UNCHANGED <<ap, near, st, c38, c38State, counted, phase>> /\ timer
    BY DEF F!dm_fsync_timer_callback
  <2>2. timer' \in BOOLEAN /\ switched' \in BOOLEAN /\ c36' \in BOOLEAN
    BY Zenon DEF F!dm_fsync_timer_callback
  <2>3. (c36 => switched) => (c36' => switched')
    BY Zenon DEF F!dm_fsync_timer_callback
  <2> QED
    BY <2>1, <2>2, <2>3
<1>5. CASE F!dm_backup_dynamic_mechanism_state
  BY <1>5 DEF F!dm_backup_dynamic_mechanism_state
<1>6. CASE F!dm_deInit_fsync
  BY <1>6 DEF F!dm_deInit_fsync
<1>7. CASE F!AdapterStarted
  BY <1>7 DEF F!AdapterStarted
<1>8. CASE F!ResetCounted
  BY <1>8 DEF F!ResetCounted
<1> QED
  BY <1>1, <1>2, <1>3, <1>4, <1>5, <1>6, <1>7, <1>8 DEF F!Next

\* Software frame synchronisation leaves no switched value in 0xc36 and 0xc3e when it
\* does not run, and 0xc38 is what reg_c38_State says, however the watchdog, the timer
\* and the steps of a silent reset interleave.
THEOREM FsyncIsReturned == MCSpec => []FsyncReturned
<1>1. MCInit => FsyncInv
  BY FsyncInit DEF MCInit
<1>2. FsyncInv /\ [MCNext]_allvars => FsyncInv'
  <2>1. [MCNext]_allvars => [F!Next]_fvars
    BY DEF MCNext, allvars
  <2> QED
    BY <2>1, FsyncStep
<1>3. FsyncInv => FsyncReturned
  BY DEF FsyncInv
<1> QED
  BY <1>1, <1>2, <1>3, PTL DEF MCSpec, allvars
-----------------------------------------------------------------------------
(* Tracking of the transmit power                                          *)

\* The gain index of the transmit path A is diff away from the default; this and the
\* range of the default keep the clamped CCK gain computable.
TrackInv ==
    /\ start \in [T!Chains -> 0 .. 36] /\ idx \in [T!Chains -> 0 .. 36]
    /\ real \in [T!Chains -> Int] /\ band \in {20, 40} /\ bwWork \in BOOLEAN
    /\ diff = idx["A"] - start["A"]
    /\ GainsInStep

LEMMA TrackInit == T!Init => TrackInv
<1> SUFFICES ASSUME T!Init PROVE TrackInv
  OBVIOUS
<1>1. start \in [T!Chains -> 0 .. 36] /\ idx = start /\ real = start
  BY MCDmAssumption DEF T!Init
<1>2. \A c \in T!Chains : start[c] \in 0 .. 36 /\ real[c] - idx[c] = 0
  BY <1>1
<1>3. diff = idx["A"] - start["A"] /\ T!CckDefault(20) + idx["A"] - start["A"] = T!CckDefault(20)
  BY <1>2, <1>1 DEF T!Init, T!Chains, T!CckDefault
<1>4. T!Clamp(T!CckDefault(20)) = T!CckDefault(20)
  BY DEF T!Clamp, T!CckDefault, T!CCKTxBBGainTableLength
<1>5. real \in [T!Chains -> Int]
  BY <1>1
<1>6. \A c \in T!Chains : idx[c] \in 0 .. 36 /\ real[c] - idx[c] \in 0 .. 4
  BY <1>1, <1>2
<1>7. band = 20 /\ bwWork = FALSE /\ att = T!Clamp(T!CckDefault(band) + idx["A"] - start["A"])
  BY <1>3, <1>4 DEF T!Init
<1>8. GainsInStep
  BY <1>6, <1>7 DEF GainsInStep, T!GainsInStep, T!TxBBGainTableLength
<1> QED
  BY <1>1, <1>3, <1>5, <1>7, <1>8 DEF TrackInv

LEMMA TrackStep == TrackInv /\ [T!Next]_tvars => TrackInv'
<1> SUFFICES ASSUME TrackInv, [T!Next]_tvars PROVE TrackInv'
  OBVIOUS
<1> USE DEF TrackInv, GainsInStep, T!GainsInStep, T!Chains, T!TxBBGainTableLength
<1>1. CASE UNCHANGED tvars
  BY <1>1 DEF tvars, T!Clamp, T!CckDefault
<1>2. CASE T!dm_TXPowerTrackingCallback_TSSI
  <2>1. /\ idx' \in [T!Chains -> 0 .. 36] /\ real' \in [T!Chains -> Int]
        /\ \A c \in T!Chains : real'[c] - idx'[c] \in 0 .. 4
    <3>1. CASE T!StepDown
      BY <3>1 DEF T!StepDown
    <3>2. CASE T!StepUp
      BY <3>2 DEF T!StepUp
    <3> QED
      BY <1>2, <3>1, <3>2 DEF T!dm_TXPowerTrackingCallback_TSSI
  <2>2. /\ UNCHANGED <<start, band, bwWork>> /\ diff' = idx'["A"] - start["A"]
        /\ att' = T!Clamp(T!CckDefault(band) + diff')
    BY <1>2 DEF T!dm_TXPowerTrackingCallback_TSSI
  <2>3. T!CckDefault(band) + (idx'["A"] - start["A"]) = T!CckDefault(band) + idx'["A"] - start["A"]
    BY <2>1 DEF T!CckDefault
  <2> QED
    BY <2>1, <2>2, <2>3 DEF T!Clamp, T!CckDefault
<1>3. CASE T!rtl8192_SetBWMode
  BY <1>3 DEF T!rtl8192_SetBWMode
<1>4. CASE T!CCK_Tx_Power_Track_BW_Switch
  <2>1. T!CckDefault(band) + (idx["A"] - start["A"]) = T!CckDefault(band) + idx["A"] - start["A"]
    BY DEF T!CckDefault
  <2> QED
    BY <1>4, <2>1 DEF T!CCK_Tx_Power_Track_BW_Switch, T!Clamp, T!CckDefault
<1> QED
  BY <1>1, <1>2, <1>3, <1>4 DEF T!Next

\* The tracked gains never leave their tables, and after every change of the bandwidth
\* the CCK gain is the one of the present bandwidth and the present step.
THEOREM GainsStayInStep == MCSpec => []GainsInStep
<1>1. MCInit => TrackInv
  BY TrackInit DEF MCInit
<1>2. TrackInv /\ [MCNext]_allvars => TrackInv'
  <2>1. [MCNext]_allvars => [T!Next]_tvars
    BY DEF MCNext, allvars
  <2> QED
    BY <2>1, TrackStep
<1>3. TrackInv => GainsInStep
  BY DEF TrackInv
<1> QED
  BY <1>1, <1>2, <1>3, PTL DEF MCSpec, allvars
-----------------------------------------------------------------------------
(* The receive paths                                                       *)

LEMMA SameCardinality == ASSUME NEW S PROVE P!Cardinality(S) = Cardinality(S)
BY DEF P!Cardinality, Cardinality

LEMMA PathsFinite ==
    /\ IsFiniteSet(P!Paths) /\ Cardinality(P!Paths) = 4
    /\ \A S \in SUBSET P!Paths : IsFiniteSet(S) /\ Cardinality(S) \in 0 .. 4
<1>1. IsFiniteSet(P!Paths) /\ Cardinality(P!Paths) = 4
  <2> DEFINE a == 0  b == 3
  <2>1. a \in Int /\ b \in Int /\ ~(a > b) /\ b - a + 1 = 4
    OBVIOUS
  <2> HIDE DEF a, b
  <2>2. IsFiniteSet(a .. b) /\ Cardinality(a .. b) = 4
    BY <2>1, FS_Interval
  <2> QED
    BY <2>2 DEF a, b, P!Paths
<1>2. ASSUME NEW S \in SUBSET P!Paths PROVE IsFiniteSet(S) /\ Cardinality(S) \in 0 .. 4
  <2>1. IsFiniteSet(S) /\ Cardinality(S) <= 4
    BY <1>1, FS_Subset
  <2> QED
    BY <2>1, FS_CardinalityType
<1> QED
  BY <1>1, <1>2

\* What the loop knows when it has been over the paths of S: the best and the worst of
\* them, different ones as soon as there are two, and a second that is neither as soon
\* as there are three.
Known(lv, p, S) ==
    /\ p \in [max : P!Paths, sec : P!Paths, min : P!Paths, n : 0 .. 4]
    /\ p.n = Cardinality(S)
    /\ p.n >= 1 => /\ p.max \in S /\ p.sec \in S /\ p.min \in S
                   /\ \A j \in S : lv[p.min] <= lv[j] /\ lv[j] <= lv[p.max]
    /\ p.n = 1 => p.max = p.min
    /\ p.n \in {1, 2} => p.sec = p.min
    /\ p.n >= 2 => p.max # p.min
    /\ p.n >= 3 => p.sec \notin {p.max, p.min}

LEMMA PickStepKnows ==
    ASSUME NEW lv \in [P!Paths -> Int], NEW S \in SUBSET P!Paths, NEW i \in P!Paths \ S,
           NEW p, Known(lv, p, S)
    PROVE  Known(lv, P!PickStep(lv, p, i), S \cup {i})
<1> DEFINE q == P!PickStep(lv, p, i)
<1>1. Cardinality(S \cup {i}) = p.n + 1 /\ p.n + 1 \in 1 .. 4
  <2>1. IsFiniteSet(S) /\ S \cup {i} \in SUBSET P!Paths
    BY PathsFinite
  <2>2. Cardinality(S \cup {i}) = Cardinality(S) + 1
    BY <2>1, FS_AddElement
  <2>3. Cardinality(S) \in 0 .. 4 /\ Cardinality(S \cup {i}) \in 0 .. 4
    BY <2>1, PathsFinite
  <2> QED
    BY <2>2, <2>3 DEF Known
<1>2. \A j \in P!Paths : lv[j] \in Int
  OBVIOUS
<1>3. p.n = 0 => S = {}
  <2>1. IsFiniteSet(S)
    BY PathsFinite
  <2> QED
    BY <2>1, FS_EmptySet DEF Known
<1>4. CASE p.n = 0
  BY <1>1, <1>2, <1>3, <1>4 DEF Known, P!PickStep
<1>5. CASE p.n = 1
  <2>0. p.max \in S /\ p.max = p.min /\ p.sec = p.min /\ \A j \in S : lv[j] = lv[p.max]
    BY <1>2, <1>5 DEF Known
  <2>1. q = IF lv[i] >= lv[p.max] THEN [p EXCEPT !.max = i, !.n = 2]
            ELSE [p EXCEPT !.sec = i, !.min = i, !.n = 2]
    BY <1>5 DEF P!PickStep
  <2>2. q = IF lv[i] >= lv[p.max]
            THEN [max |-> i, sec |-> p.min, min |-> p.min, n |-> 2]
            ELSE [max |-> p.max, sec |-> i, min |-> i, n |-> 2]
    BY <2>0, <2>1 DEF Known
  <2>3. Known(lv, q, S \cup {i})
    <3>1. CASE lv[i] >= lv[p.max]
      BY <1>1, <1>2, <1>5, <2>0, <2>2, <3>1 DEF Known
    <3>2. CASE ~(lv[i] >= lv[p.max])
      BY <1>1, <1>2, <1>5, <2>0, <2>2, <3>2 DEF Known
    <3> QED
      BY <3>1, <3>2
  <2> QED
    BY <2>3
<1>6. CASE p.n >= 2
  <2>0. p.n \in Int /\ p.n # 0 /\ p.n # 1 /\ p.max \in S /\ p.sec \in S /\ p.min \in S /\ p.max # p.min
        /\ (p.n = 2 => p.sec = p.min) /\ (p.n >= 3 => p.sec \notin {p.max, p.min})
    BY <1>6 DEF Known
  <2>1. q = [n   |-> p.n + 1,
             max |-> IF lv[i] > lv[p.max] THEN i ELSE p.max,
             sec |-> IF lv[i] > lv[p.max] THEN p.max
                     ELSE IF \/ lv[i] = lv[p.max] \/ lv[i] > lv[p.sec]
                             \/ (lv[i] = lv[p.sec] /\ lv[p.sec] = lv[p.min])
                     THEN i ELSE p.sec,
             min |-> IF lv[i] < lv[p.min] THEN i ELSE p.min]
    BY <2>0 DEF P!PickStep
  <2>2. q \in [max : P!Paths, sec : P!Paths, min : P!Paths, n : 0 .. 4] /\ q.n = p.n + 1
    BY <2>0, <2>1, <1>1
  <2>3. q.max \in S \cup {i} /\ q.sec \in S \cup {i} /\ q.min \in S \cup {i}
    BY <2>0, <2>1
  <2>4. \A j \in S \cup {i} : lv[q.min] <= lv[j] /\ lv[j] <= lv[q.max]
    BY <2>0, <2>1, <1>2, <1>6 DEF Known
  <2>5. lv[p.min] <= lv[p.max] /\ lv[p.min] <= lv[p.sec] /\ lv[p.sec] <= lv[p.max]
    BY <2>0, <1>6 DEF Known
  <2>6. q.max # q.min /\ q.sec # q.max /\ q.sec # q.min
    BY <2>0, <2>1, <2>5, <1>2, <1>6
  <2> HIDE DEF q
  <2>7. Known(lv, q, S \cup {i})
    BY <1>1, <2>0, <2>2, <2>3, <2>4, <2>6 DEF Known
  <2> QED
    BY <2>7 DEF q
<1> QED
  BY <1>4, <1>5, <1>6 DEF Known

LEMMA TurnKnows ==
    ASSUME NEW lv \in [P!Paths -> Int], NEW S \in SUBSET P!Paths, NEW i \in P!Paths \ S,
           NEW p, Known(lv, p, S \cap on)
    PROVE  Known(lv, P!Turn(lv, p, i), (S \cup {i}) \cap on)
<1>1. CASE i \in on
  <2>1. (S \cup {i}) \cap on = (S \cap on) \cup {i}
    BY <1>1
  <2>2. S \cap on \in SUBSET P!Paths /\ i \in P!Paths \ (S \cap on)
    OBVIOUS
  <2> QED
    BY <1>1, <2>1, <2>2, PickStepKnows DEF P!Turn
<1>2. CASE i \notin on
  <2>1. (S \cup {i}) \cap on = S \cap on
    BY <1>2
  <2> QED
    BY <1>2, <2>1 DEF P!Turn
<1> QED
  BY <1>1, <1>2

\* The loop of dm_rxpath_sel_byrssi finds the best, the second and the worst path.
LEMMA PickKnows ==
    ASSUME NEW lv \in [P!Paths -> Int], on \in SUBSET P!Paths
    PROVE  Known(lv, P!Pick(lv), on)
<1> DEFINE t0 == P!Turn(lv, P!NonePicked, 0)  t1 == P!Turn(lv, t0, 1)
           t2 == P!Turn(lv, t1, 2)            t3 == P!Turn(lv, t2, 3)
<1>0. Known(lv, P!NonePicked, {} \cap on)
  <2>1. {} \cap on = {} /\ Cardinality({}) = 0
    BY FS_EmptySet
  <2> QED
    BY <2>1 DEF Known, P!NonePicked, P!Paths
<1>1. Known(lv, t0, ({} \cup {0}) \cap on)
  BY <1>0, TurnKnows DEF P!Paths
<1>2. Known(lv, t1, ({0} \cup {1}) \cap on)
  <2>1. {} \cup {0} = {0}
    OBVIOUS
  <2> HIDE DEF t0
  <2>2. {0} \in SUBSET P!Paths /\ 1 \in P!Paths \ {0}
    BY DEF P!Paths
  <2> QED
    BY <1>1, <2>1, <2>2, TurnKnows
<1>3. Known(lv, t2, ({0, 1} \cup {2}) \cap on)
  <2>1. {0} \cup {1} = {0, 1}
    OBVIOUS
  <2> HIDE DEF t1
  <2>2. {0, 1} \in SUBSET P!Paths /\ 2 \in P!Paths \ {0, 1}
    BY DEF P!Paths
  <2> QED
    BY <1>2, <2>1, <2>2, TurnKnows
<1>4. Known(lv, t3, ({0, 1, 2} \cup {3}) \cap on)
  <2>1. {0, 1} \cup {2} = {0, 1, 2}
    OBVIOUS
  <2> HIDE DEF t2
  <2>2. {0, 1, 2} \in SUBSET P!Paths /\ 3 \in P!Paths \ {0, 1, 2}
    BY DEF P!Paths
  <2> QED
    BY <1>3, <2>1, <2>2, TurnKnows
<1>5. ({0, 1, 2} \cup {3}) \cap on = on
  <2>1. P!Paths = {0, 1, 2, 3}
    BY DEF P!Paths
  <2> QED
    BY <2>1
<1>6. P!Pick(lv) = t3
  BY DEF P!Pick
<1> QED
  BY <1>4, <1>5, <1>6

\* ReceiverKept is inductive: a path is switched off only while fewer than two are.
PathInv ==
    /\ on \in SUBSET P!Paths /\ cnt \in 0 .. 2 /\ method \in {1, 2}
    /\ ReceiverKept

LEMMA PathInit == P!Init => PathInv
<1> SUFFICES ASSUME P!Init PROVE PathInv
  OBVIOUS
<1>1. P!Paths \ on = {} /\ on = {0, 1, 2, 3}
  BY DEF P!Init, P!Paths
<1>2. P!Cardinality(P!Paths \ on) = 0
  BY <1>1, SameCardinality, FS_EmptySet
<1> QED
  BY <1>1, <1>2 DEF P!Init, PathInv, ReceiverKept, P!ReceiverKept

\* One pass over the paths, with the signal lv and the CCK power.
LEMMA PathPass ==
    ASSUME PathInv, NEW lv \in [P!Paths -> 0 .. 100], NEW power,
           P!dm_rxpath_sel_byrssi(lv, power)
    PROVE  PathInv'
<1> DEFINE p == P!Pick(lv)
           low == lv[p.min] < P!SS_TH_low /\ cnt < 2
           off == IF low /\ lv[p.max] - lv[p.min] >= P!diff_TH THEN {p.min} ELSE {}
           again == {i \in P!Paths \ on : lv[p.max] >= th[i]}
           dark == P!Paths \ on
<1>1. Known(lv, p, on)
  <2>1. lv \in [P!Paths -> Int] /\ on \in SUBSET P!Paths
    BY DEF PathInv
  <2> QED
    BY <2>1, PickKnows
<1>2. /\ on' = (on \ off) \cup again
      /\ cnt' = (cnt + Cardinality(off) + 256 - Cardinality(again)) % 256
      /\ method' = method
      /\ method = 1 => cck' = IF low /\ lv[p.max] # 0 THEN [def |-> p.max, opt |-> p.sec] ELSE cck
  <2>1. P!Cardinality(off) = Cardinality(off) /\ P!Cardinality(again) = Cardinality(again)
    BY SameCardinality
  <2>2. /\ on' = (on \ off) \cup again
        /\ cnt' = (cnt + P!Cardinality(off) + 256 - P!Cardinality(again)) % 256
        /\ method' = method
        /\ cck' = IF method = 2
                  THEN IF power[P!Pick(power).max] = P!NoCck THEN cck
                       ELSE [def |-> P!Pick(power).max, opt |-> P!Pick(power).sec]
                  ELSE IF low /\ lv[p.max] # 0 THEN [def |-> p.max, opt |-> p.sec] ELSE cck
    BY DEF P!dm_rxpath_sel_byrssi
  <2> HIDE DEF off, again, low, p
  <2> QED
    BY <2>1, <2>2
<1>3. p \in [max : P!Paths, sec : P!Paths, min : P!Paths, n : 0 .. 4] /\ p.n = Cardinality(on)
  BY <1>1 DEF Known
<1>4. /\ Cardinality(dark) \in 0 .. 4 /\ IsFiniteSet(dark) /\ Cardinality(dark) <= cnt
      /\ Cardinality(on) = 4 - Cardinality(dark)
  <2>1. dark \in SUBSET P!Paths /\ on \in SUBSET P!Paths
    BY DEF PathInv
  <2>2. Cardinality(dark) = Cardinality(P!Paths) - Cardinality(P!Paths \cap on)
    BY PathsFinite, FS_Difference
  <2>3. P!Paths \cap on = on
    BY <2>1
  <2>4. IsFiniteSet(dark) /\ Cardinality(dark) \in 0 .. 4 /\ Cardinality(on) \in 0 .. 4
    BY <2>1, PathsFinite
  <2>5. P!Cardinality(P!Paths \ on) <= cnt
    BY DEF PathInv, ReceiverKept, P!ReceiverKept
  <2> QED
    BY <2>2, <2>3, <2>4, <2>5, PathsFinite, SameCardinality
<1>5. cnt \in 0 .. 2 /\ p.n >= 2 /\ p.max \in on /\ p.min \in on /\ p.sec \in on
  BY <1>1, <1>3, <1>4 DEF PathInv, Known
<1>6. low => cnt < 2 /\ p.max # p.min /\ p.sec # p.min
  BY <1>1, <1>3, <1>4, <1>5 DEF Known
<1>7. lv[p.min] \in 0 .. 100 /\ lv[p.max] \in 0 .. 100 /\ (off # {} => low /\ lv[p.max] # 0)
  BY <1>3 DEF P!diff_TH
<1>8. /\ off \subseteq {p.min} /\ again \subseteq dark
      /\ off \in SUBSET P!Paths /\ again \in SUBSET P!Paths
  BY <1>3
<1>9. /\ IsFiniteSet(off) /\ Cardinality(off) \in 0 .. 1 /\ (Cardinality(off) = 1 => off # {})
      /\ IsFiniteSet(again) /\ Cardinality(again) \in 0 .. Cardinality(dark)
  <2>1. off = {} \/ off = {p.min}
    OBVIOUS
  <2>2. IsFiniteSet(off) /\ IsFiniteSet(again) /\ Cardinality(again) \in 0 .. 4
    BY <1>8, PathsFinite
  <2>3. Cardinality(off) \in 0 .. 1 /\ (Cardinality(off) = 1 => off # {})
    <3>1. Cardinality({}) = 0 /\ Cardinality({p.min}) = 1
      BY FS_EmptySet, FS_Singleton
    <3> HIDE DEF off, p
    <3> QED
      BY <2>1, <3>1
  <2>4. Cardinality(again) <= Cardinality(dark)
    BY <1>4, <1>8, FS_Subset
  <2> QED
    BY <2>2, <2>3, <2>4, <1>4
<1>10. cnt' = cnt + Cardinality(off) - Cardinality(again) /\ cnt' \in 0 .. 2
  <2>1. Cardinality(off) = 1 => cnt < 2
    BY <1>6, <1>7, <1>9
  <2> DEFINE x == Cardinality(off)  y == Cardinality(again)  z == Cardinality(dark)
  <2>2. x \in 0 .. 1 /\ y \in 0 .. z /\ z \in 0 .. 4 /\ z <= cnt /\ cnt \in 0 .. 2
        /\ (x = 1 => cnt < 2) /\ cnt' = (cnt + x + 256 - y) % 256
    BY <1>2, <1>4, <1>5, <1>9, <2>1
  <2> HIDE DEF x, y, z
  <2>3. cnt + x - y \in 0 .. 2
    BY <2>2
  <2>4. (cnt + x + 256 - y) % 256 = cnt + x - y
    BY <2>2, <2>3
  <2> QED
    BY <2>2, <2>3, <2>4 DEF x, y
<1>11. on' \in SUBSET P!Paths /\ P!Paths \ on' = (dark \ again) \cup off
  <2> HIDE DEF again, p, low
  <2>1. off \subseteq on
    BY <1>5, <1>8
  <2> HIDE DEF off
  <2>2. again \subseteq dark
    BY <1>8
  <2> QED
    BY <1>2, <1>8, <2>1, <2>2 DEF PathInv
<1>12. Cardinality(P!Paths \ on') <= cnt'
  <2>1. IsFiniteSet(dark \ again) /\ Cardinality(dark \ again) = Cardinality(dark) - Cardinality(again)
    <3>1. dark \cap again = again
      BY <1>8
    <3> QED
      BY <3>1, <1>4, FS_Difference
  <2>2. Cardinality((dark \ again) \cup off) <= Cardinality(dark \ again) + Cardinality(off)
    <3>1. Cardinality((dark \ again) \cup off) = Cardinality(dark \ again) + Cardinality(off)
                                                 - Cardinality((dark \ again) \cap off)
      BY <2>1, <1>9, FS_Union
    <3>2. (dark \ again) \cap off \in SUBSET P!Paths
      BY <1>8
    <3>3. Cardinality((dark \ again) \cap off) \in 0 .. 4
      BY <3>2, PathsFinite
    <3>4. Cardinality(dark \ again) \in Int
      BY <2>1, <1>4, <1>9
    <3> DEFINE u == Cardinality(dark \ again)  v == Cardinality(off)
               w == Cardinality((dark \ again) \cap off)
    <3>5. u \in Int /\ v \in Int /\ w \in 0 .. 4
      BY <3>3, <3>4, <1>9
    <3>6. Cardinality((dark \ again) \cup off) = u + v - w
      BY <3>1
    <3> HIDE DEF u, v, w
    <3>7. u + v - w <= u + v
      BY <3>5
    <3> QED
      BY <3>6, <3>7 DEF u, v
  <2> DEFINE x == Cardinality(off)  y == Cardinality(again)  z == Cardinality(dark)
             u == Cardinality((dark \ again) \cup off)
  <2>3. u <= (z - y) + x /\ cnt' = cnt + x - y /\ z <= cnt
        /\ x \in Int /\ y \in Int /\ z \in Int /\ cnt \in Int /\ u \in Int
    <3>1. u \in 0 .. 4
      BY <1>8, PathsFinite
    <3>2. x \in Int /\ y \in Int /\ z \in Int /\ cnt \in Int /\ z <= cnt
      BY <1>4, <1>5, <1>9
    <3>3. cnt' = cnt + x - y
      BY <1>10
    <3>4. u <= (z - y) + x
      BY <2>1, <2>2
    <3> HIDE DEF x, y, z, u
    <3> QED
      BY <3>1, <3>2, <3>3, <3>4
  <2> HIDE DEF x, y, z, u
  <2>4. u <= cnt'
    BY <2>3
  <2> QED
    BY <2>4, <1>11 DEF u
<1>13. method' = 1 => {cck'.def, cck'.opt} \subseteq on'
  <2> SUFFICES ASSUME method = 1 PROVE {cck'.def, cck'.opt} \subseteq on'
    BY <1>2
  <2>1. CASE low /\ lv[p.max] # 0
    <3>1. cck'.def = p.max /\ cck'.opt = p.sec
      BY <1>2, <2>1
    <3>2. p.max \in on \ off /\ p.sec \in on \ off
      BY <1>5, <1>6, <1>8, <2>1
    <3> HIDE DEF p, off, again, low
    <3> QED
      BY <1>2, <3>1, <3>2
  <2>2. CASE ~(low /\ lv[p.max] # 0)
    <3>1. cck' = cck /\ off = {}
      BY <1>2, <1>7, <2>2
    <3>2. {cck.def, cck.opt} \subseteq on
      BY DEF PathInv, ReceiverKept, P!ReceiverKept
    <3> HIDE DEF p, off, again, low
    <3> QED
      BY <1>2, <3>1, <3>2
  <2> QED
    BY <2>1, <2>2
<1>14. P!Cardinality(P!Paths \ on') = Cardinality(P!Paths \ on')
  BY SameCardinality
<1>0. method \in {1, 2}
  BY DEF PathInv
<1> HIDE DEF p, low, off, again, dark
<1>15. on' \in SUBSET P!Paths /\ cnt' \in 0 .. 2 /\ method' \in {1, 2}
  <2>1. on' \in SUBSET P!Paths
    BY ONLY <1>11
  <2>2. cnt' \in 0 .. 2
    BY ONLY <1>10
  <2>3. method' \in {1, 2}
    BY ONLY <1>0, <1>2
  <2> QED
    BY ONLY <2>1, <2>2, <2>3
<1>16. ReceiverKept'
  BY ONLY <1>12, <1>13, <1>14, <1>15 DEF ReceiverKept, P!ReceiverKept
<1> QED
  BY ONLY <1>15, <1>16 DEF PathInv

LEMMA PathStep == PathInv /\ [P!Next]_pvars => PathInv'
<1> SUFFICES ASSUME PathInv, [P!Next]_pvars PROVE PathInv'
  OBVIOUS
<1>1. CASE UNCHANGED pvars
  BY <1>1 DEF pvars, PathInv, ReceiverKept, P!ReceiverKept
<1>2. CASE \E lv \in [P!Paths -> Levels] :
             \E power \in {lv, [i \in P!Paths |-> P!NoCck]} : P!dm_rxpath_sel_byrssi(lv, power)
  <2> PICK lv \in [P!Paths -> Levels] :
             \E power \in {lv, [i \in P!Paths |-> P!NoCck]} : P!dm_rxpath_sel_byrssi(lv, power)
    BY <1>2
  <2> PICK power \in {lv, [i \in P!Paths |-> P!NoCck]} : P!dm_rxpath_sel_byrssi(lv, power)
    OBVIOUS
  <2>1. lv \in [P!Paths -> 0 .. 100]
    BY MCDmAssumption
  <2> QED
    BY <2>1, PathPass
<1>3. CASE P!Restart
  <2>1. on' = {0, 1, 2, 3} /\ P!Paths \ on' = {} /\ on' = P!Paths /\ cck' = [def |-> 2, opt |-> 3]
        /\ UNCHANGED <<cnt, method>>
    BY <1>3 DEF P!Restart, P!Paths
  <2>2. P!Cardinality(P!Paths \ on') = 0
    BY <2>1, SameCardinality, FS_EmptySet
  <2> QED
    BY <2>1, <2>2 DEF PathInv, ReceiverKept, P!ReceiverKept
<1> QED
  BY <1>1, <1>2, <1>3 DEF P!Next

\* The adapter keeps two receive paths and waits for CCK frames on paths that are on,
\* whatever signal levels the passes see and whenever the adapter is started anew.
THEOREM ReceiverIsKept == MCSpec => []ReceiverKept
<1>1. MCInit => PathInv
  BY PathInit DEF MCInit
<1>2. PathInv /\ [MCNext]_allvars => PathInv'
  <2>1. [MCNext]_allvars => [P!Next]_pvars
    BY DEF MCNext, allvars
  <2> QED
    BY <2>1, PathStep
<1>3. PathInv => ReceiverKept
  BY DEF PathInv
<1> QED
  BY <1>1, <1>2, <1>3, PTL DEF MCSpec, allvars
-----------------------------------------------------------------------------
(* The registers held to the signal and the traffic                        *)

RatrValues == {"config", "table", "high", "middle", "low20", "low40"}
EdcaValues == {"config", "ap", "DL", "UL"}
RegType ==
    [gain : Int, pd : Int, cs : Int, power : BOOLEAN \X BOOLEAN, edca : EdcaValues, ratr : RatrValues]
DigType ==
    [pre : Int, conn : BOOLEAN, pd : {"low", "normal", "high"}, cs : {"lower", "higher"},
     tries : 0 .. 4, stale : SUBSET {"pd", "cs"}, lastRatr : RatrValues]
PwType == [high : BOOLEAN, low : BOOLEAN, lastHigh : BOOLEAN, lastLow : BOOLEAN, enable : BOOLEAN]
EdType == [turbo : BOOLEAN, rdl : BOOLEAN]

DmType ==
    /\ link \in {"none", "linked", "scanning"} /\ rssi \in Int /\ bw \in {20, 40}
    /\ traffic \in {"up", "down", "nonbe"} /\ sweep \in BOOLEAN
    /\ backup \in [gain : Int, cs : Int, bw : {20, 40}]
    /\ reg \in RegType /\ dig \in DigType /\ pw \in PwType /\ ed \in EdType
    /\ ra \in {"max", "high", "middle", "low"} /\ calm \in 0 .. 2

\* What the mechanisms know of a register nobody else wrote, with or without a pass
\* since: "stale" is a reset the mechanism has yet to see.
Written ==
    /\ "pd" \notin told /\ "pd" \notin dig.stale /\ dig.tries >= 1 => reg.pd = PdValue(bw, dig.pd)
    /\ "cs" \notin told /\ "cs" \notin dig.stale => reg.cs = CsValue(dig.cs)
    /\ "power" \notin told => reg.power = <<pw.lastHigh, pw.lastLow>>
    /\ "edca" \notin told /\ ed.turbo => reg.edca = IF ed.rdl THEN "DL" ELSE "UL"

\* What one pass settles, while nothing happens.
OnePass ==
    /\ dig.stale = {} /\ dig.tries >= 1 /\ Steady
    /\ pw.enable => Power = <<pw.lastHigh, pw.lastLow>>
    /\ ~sweep => reg.gain = dig.pre /\ (~Connected => dig.pre # 0)
    /\ Connected => reg.ratr \in {"high", "middle", "low20", "low40"}
    /\ dm_check_rate_adaptive.ratr = reg.ratr
    /\ dm_check_edca_turbo.edca = reg.edca
    /\ ~dm_dynamic_txpower.set
    /\ dig.tries <= 3 => reg.pd = PdValue(bw, dig.pd)

\* What takes a second pass: the thresholds and the gain of the state the first one saw.
TwoPasses ==
    /\ dm_pd_th.s = dig.pd /\ dm_cs_ratio.s = dig.cs
    /\ Connected /\ ~sweep => reg.gain = Clamp(rssi + 10 - 12)

DmInv == DmType /\ Written /\ (calm >= 1 => OnePass) /\ (calm >= 2 => TwoPasses)

LEMMA Values ==
    /\ \A b \in {20, 40}, s \in {"low", "normal", "high"} : PdValue(b, s) \in Int
    /\ \A s \in {"lower", "higher"} : CsValue(s) \in Int
BY DEF PdValue, CsValue

LEMMA StartedType == pw \in PwType => Started \in RegType /\ Started.power = Power
<1> SUFFICES ASSUME pw \in PwType PROVE Started \in RegType /\ Started.power = Power
  OBVIOUS
<1>1. Power \in BOOLEAN \X BOOLEAN
  BY DEF Power, PwType
<1>2. "config" \in RatrValues /\ "config" \in EdcaValues /\ DefaultInitialGain \in Int
  BY DEF DefaultInitialGain, RatrValues, EdcaValues
<1> HIDE DEF Power
<1> QED
  BY <1>1, <1>2 DEF RegType, Started

LEMMA DmInit == Init => DmInv
<1> SUFFICES ASSUME Init PROVE DmInv
  OBVIOUS
<1>1. DmType
  <2>1. pw \in PwType /\ ed \in EdType /\ backup \in [gain : Int, cs : Int, bw : {20, 40}]
    BY DEF Init, PwType, EdType
  <2>2. reg \in RegType
    BY <2>1, StartedType DEF Init
  <2>3. dig \in DigType
    BY DEF Init, DigType, RatrValues
  <2>4. rssi \in Int
    BY DmAssumption DEF Init
  <2>5. link = "none" /\ bw = 20 /\ traffic = "up" /\ ra = "max" /\ calm = 0 /\ sweep = FALSE
    BY DEF Init
  <2>6. sweep \in BOOLEAN
    BY <2>5, Zenon
  <2>7. calm \in 0 .. 2
    BY <2>5
  <2> QED
    BY <2>1, <2>2, <2>3, <2>4, <2>5, <2>6, <2>7 DEF DmType
<1>2. Written
  <2>1. reg.power = <<FALSE, FALSE>> /\ pw.lastHigh = FALSE /\ pw.lastLow = FALSE
    BY DEF Init, Started, Power
  <2> QED
    BY <2>1 DEF Init, Written
<1> QED
  BY <1>1, <1>2 DEF DmInv, Init

\* The parts of a pass.
LEMMA PassParts ==
    ASSUME hal_dm_watchdog
    PROVE  /\ ed' = dm_check_edca_turbo.ed /\ ra' = dm_check_rate_adaptive.ra
           /\ pw' = dm_dynamic_txpower.pw
           /\ dig'.pre = dm_initial_gain.pre /\ dig'.conn = Connected
           /\ dig'.pd = dm_pd_th.s /\ dig'.cs = dm_cs_ratio.s
           /\ dig'.tries = IF dm_pd_th.write /\ dig.tries <= 3 THEN dig.tries + 1 ELSE dig.tries
           /\ dig'.stale = {} /\ dig'.lastRatr = dm_check_rate_adaptive.last
           /\ reg'.gain = dm_initial_gain.gain /\ reg'.ratr = dm_check_rate_adaptive.ratr
           /\ reg'.edca = dm_check_edca_turbo.edca
           /\ reg'.power = IF dm_dynamic_txpower.set
                           THEN <<dm_dynamic_txpower.pw.high, dm_dynamic_txpower.pw.low>> ELSE reg.power
           /\ reg'.pd = IF dm_pd_th.write THEN PdValue(bw, dm_pd_th.s) ELSE reg.pd
           /\ reg'.cs = IF dm_cs_ratio.write THEN CsValue(dm_cs_ratio.s) ELSE reg.cs
           /\ calm' = (IF calm < 2 THEN calm + 1 ELSE calm)
           /\ UNCHANGED <<link, rssi, bw, traffic, sweep, backup, work, events>>
BY DEF hal_dm_watchdog, env

LEMMA PassTold ==
    ASSUME hal_dm_watchdog
    PROVE  /\ "pd" \notin told' => "pd" \notin told \/ dm_pd_th.write
           /\ "cs" \notin told' => "cs" \notin told \/ dm_cs_ratio.write
           /\ "power" \notin told' => "power" \notin told \/ dm_dynamic_txpower.set
           /\ "edca" \notin told' => \/ "edca" \notin told
                                     \/ dm_check_edca_turbo.edca # reg.edca
                                     \/ ~dm_check_edca_turbo.ed.turbo
BY DEF hal_dm_watchdog

\* Initial gain.
LEMMA GainPass ==
    ASSUME DmType, hal_dm_watchdog
    PROVE  /\ reg'.gain \in Int /\ dig'.pre \in Int
           /\ ~sweep => reg'.gain = dig'.pre /\ (~Connected => dig'.pre # 0)
           /\ Steady /\ Connected /\ ~sweep => reg'.gain = Clamp(rssi + 10 - 12)
           /\ OnePass /\ TwoPasses => reg'.gain = reg.gain
<1>1. dig'.pre = dm_initial_gain.pre /\ reg'.gain = dm_initial_gain.gain
  BY PassParts
<1>2. reg.gain \in Int /\ dig.pre \in Int /\ rssi \in Int /\ sweep \in BOOLEAN
  BY DEF DmType, RegType, DigType
<1>3. Clamp(rssi + 10 - 12) \in Int
  BY <1>2 DEF Clamp
<1> QED
  BY <1>1, <1>2, <1>3 DEF dm_initial_gain, DefaultInitialGain, OnePass, TwoPasses

\* Power detection threshold.
LEMMA PdPass ==
    ASSUME DmType, hal_dm_watchdog
    PROVE  /\ dig'.pd \in {"low", "normal", "high"} /\ dig'.tries \in 0 .. 4 /\ dig'.tries >= 1
           /\ dig'.tries <= 3 => reg'.pd = PdValue(bw, dig'.pd)
           /\ Written /\ "pd" \notin told' => reg'.pd = PdValue(bw, dig'.pd)
           /\ reg'.pd \in Int
           /\ Steady => (dig'.conn = Connected => dm_pd_th'.s = dig'.pd)
           /\ OnePass /\ TwoPasses => reg'.pd = reg.pd
<1> DEFINE w == dm_pd_th.write  s == dm_pd_th.s
<1>0. /\ dig.pd \in {"low", "normal", "high"} /\ dig.tries \in 0 .. 4 /\ bw \in {20, 40} /\ rssi \in Int
      /\ reg.pd \in Int
  BY DEF DmType, DigType, RegType
<1>1. /\ s = (IF ~(Steady /\ Connected) \/ rssi <= 35 THEN "low"
              ELSE IF rssi >= 75 THEN "high"
              ELSE IF rssi >= 40 /\ rssi < 70 THEN "normal" ELSE dig.pd)
      /\ w <=> (s # dig.pd \/ dig.tries <= 3 \/ "pd" \in dig.stale)
  BY DEF dm_pd_th
<1>2. /\ dig'.pd = s /\ dig'.tries = (IF w /\ dig.tries <= 3 THEN dig.tries + 1 ELSE dig.tries)
      /\ reg'.pd = (IF w THEN PdValue(bw, s) ELSE reg.pd) /\ UNCHANGED <<bw, rssi, link>>
      /\ dig'.conn = Connected
  BY PassParts
<1>3. dm_pd_th'.s = (IF ~(Steady' /\ Connected') \/ rssi' <= 35 THEN "low"
                     ELSE IF rssi' >= 75 THEN "high"
                     ELSE IF rssi' >= 40 /\ rssi' < 70 THEN "normal" ELSE dig'.pd)
  BY DEF dm_pd_th
<1>4. Connected' = Connected /\ Steady'
  BY <1>2 DEF Connected, Steady
<1>5. "pd" \notin told' => "pd" \notin told \/ w
  BY PassTold
<1> HIDE DEF w, s
<1>6. s \in {"low", "normal", "high"}
  BY <1>0, <1>1
<1>7. PdValue(bw, s) \in Int
  BY <1>0, <1>6, Values
<1>8. dig'.tries \in 0 .. 4 /\ dig'.tries >= 1 /\ (dig'.tries <= 3 => w)
  BY <1>0, <1>1, <1>2
<1>9. Written /\ "pd" \notin told' => reg'.pd = PdValue(bw, dig'.pd)
  BY <1>0, <1>1, <1>2, <1>5 DEF Written
<1>10. Steady => dm_pd_th'.s = dig'.pd
  BY <1>0, <1>1, <1>2, <1>3, <1>4
<1>11. OnePass /\ TwoPasses => reg'.pd = reg.pd
  <2> SUFFICES ASSUME OnePass, TwoPasses PROVE reg'.pd = reg.pd
    OBVIOUS
  <2>1. s = dig.pd /\ dig.stale = {} /\ (dig.tries <= 3 => reg.pd = PdValue(bw, dig.pd))
    BY DEF OnePass, TwoPasses, s
  <2> QED
    BY <2>1, <1>1, <1>2
<1> QED
  BY <1>0, <1>2, <1>6, <1>7, <1>8, <1>9, <1>10, <1>11

\* CCK carrier sense ratio.
LEMMA CsPass ==
    ASSUME DmType, hal_dm_watchdog
    PROVE  /\ dig'.cs \in {"lower", "higher"} /\ reg'.cs \in Int
           /\ Written /\ "cs" \notin told' => reg'.cs = CsValue(dig'.cs)
           /\ Steady => dm_cs_ratio'.s = dig'.cs
           /\ OnePass /\ TwoPasses => reg'.cs = reg.cs
<1> DEFINE w == dm_cs_ratio.write  s == dm_cs_ratio.s
<1>0. dig.cs \in {"lower", "higher"} /\ rssi \in Int /\ reg.cs \in Int
  BY DEF DmType, DigType, RegType
<1>1. /\ s = (IF ~(Steady /\ Connected) \/ rssi <= 35 THEN "lower"
              ELSE IF rssi >= 40 THEN "higher" ELSE dig.cs)
      /\ w <=> (s # dig.cs \/ "cs" \in dig.stale)
  BY DEF dm_cs_ratio
<1>2. /\ dig'.cs = s /\ reg'.cs = (IF w THEN CsValue(s) ELSE reg.cs)
      /\ UNCHANGED <<rssi, link>> /\ dig'.conn = Connected
  BY PassParts
<1>3. dm_cs_ratio'.s = (IF ~(Steady' /\ Connected') \/ rssi' <= 35 THEN "lower"
                        ELSE IF rssi' >= 40 THEN "higher" ELSE dig'.cs)
  BY DEF dm_cs_ratio
<1>4. Connected' = Connected /\ Steady'
  BY <1>2 DEF Connected, Steady
<1>5. "cs" \notin told' => "cs" \notin told \/ w
  BY PassTold
<1>6. OnePass /\ TwoPasses => ~w
  BY <1>1 DEF OnePass, TwoPasses
<1> HIDE DEF w, s
<1>7. s \in {"lower", "higher"}
  BY <1>0, <1>1
<1>8. CsValue(s) \in Int
  BY <1>7, Values
<1>9. Written /\ "cs" \notin told' => reg'.cs = CsValue(dig'.cs)
  BY <1>0, <1>1, <1>2, <1>5 DEF Written
<1>10. Steady => dm_cs_ratio'.s = dig'.cs
  BY <1>0, <1>1, <1>2, <1>3, <1>4
<1> QED
  BY <1>0, <1>2, <1>6, <1>7, <1>8, <1>9, <1>10

\* Transmit power: the flags are a fixed point of their thresholds after one pass.
LEMMA PowerPass ==
    ASSUME DmType, hal_dm_watchdog
    PROVE  /\ pw' \in PwType /\ reg'.power \in BOOLEAN \X BOOLEAN
           /\ Written /\ "power" \notin told' => reg'.power = <<pw'.lastHigh, pw'.lastLow>>
           /\ pw'.enable => Power' = <<pw'.lastHigh, pw'.lastLow>>
           /\ ~dm_dynamic_txpower'.set
           /\ OnePass => reg'.power = reg.power
<1> DEFINE H == Connected /\ (rssi >= 68 \/ (rssi >= 62 /\ pw.high))
           L == Connected /\ rssi < 68 /\ (rssi < 35 \/ (rssi < 40 /\ pw.low))
<1>0. pw \in PwType /\ rssi \in Int /\ reg.power \in BOOLEAN \X BOOLEAN
  BY DEF DmType, RegType
<1>1. /\ pw' = dm_dynamic_txpower.pw /\ UNCHANGED <<rssi, link>>
      /\ reg'.power = IF dm_dynamic_txpower.set THEN <<pw'.high, pw'.low>> ELSE reg.power
  BY PassParts
<1>2. "power" \notin told' => "power" \notin told \/ dm_dynamic_txpower.set
  BY PassTold
<1>3. OnePass => ~dm_dynamic_txpower.set
  BY DEF OnePass
<1>4. CASE ~pw.enable
  <2>1. pw' = [pw EXCEPT !.high = FALSE, !.low = FALSE] /\ ~dm_dynamic_txpower.set
    BY <1>1, <1>4 DEF dm_dynamic_txpower
  <2>2. pw' \in PwType /\ pw'.lastHigh = pw.lastHigh /\ pw'.lastLow = pw.lastLow /\ ~pw'.enable
    BY <1>0, <1>4, <2>1 DEF PwType
  <2>3. ~dm_dynamic_txpower'.set
    BY <2>2 DEF dm_dynamic_txpower
  <2> QED
    BY <1>0, <1>1, <1>2, <2>1, <2>2, <2>3 DEF Written
<1>5. CASE pw.enable
  <2>1. /\ pw' = [pw EXCEPT !.high = H, !.low = L, !.lastHigh = H, !.lastLow = L]
        /\ dm_dynamic_txpower.set = (<<H, L>> # <<pw.lastHigh, pw.lastLow>>)
    BY <1>1, <1>5 DEF dm_dynamic_txpower, Connected
  <2>2. H \in BOOLEAN /\ L \in BOOLEAN
    OBVIOUS
  <2>3. /\ pw' \in PwType /\ pw'.high = H /\ pw'.low = L /\ pw'.lastHigh = H /\ pw'.lastLow = L
        /\ pw'.enable
    <3> HIDE DEF H, L
    <3>1. pw \in PwType /\ pw' = [pw EXCEPT !.high = H, !.low = L, !.lastHigh = H, !.lastLow = L]
      BY ONLY <1>0, <2>1
    <3>2. pw' \in PwType
      BY ONLY <3>1, <2>2 DEF PwType
    <3>3. pw'.high = H /\ pw'.low = L /\ pw'.lastHigh = H /\ pw'.lastLow = L
      BY ONLY <3>1 DEF PwType
    <3>4. pw'.enable = pw.enable
      BY ONLY <3>1 DEF PwType
    <3> QED
      BY ONLY <3>2, <3>3, <3>4, <1>5
  <2>4. Power' = <<pw'.lastHigh, pw'.lastLow>>
    BY <2>3 DEF Power
  <2>5. /\ (Connected' /\ (rssi' >= 68 \/ (rssi' >= 62 /\ pw'.high))) = H
        /\ (Connected' /\ rssi' < 68 /\ (rssi' < 35 \/ (rssi' < 40 /\ pw'.low))) = L
    <3>1. Connected' = Connected /\ rssi' = rssi
      BY <1>1 DEF Connected
    <3> QED
      BY <3>1, <2>3, <1>0
  <2>6. ~dm_dynamic_txpower'.set
    <3>1. dm_dynamic_txpower'.set =
            (<<Connected' /\ (rssi' >= 68 \/ (rssi' >= 62 /\ pw'.high)),
               Connected' /\ rssi' < 68 /\ (rssi' < 35 \/ (rssi' < 40 /\ pw'.low))>>
             # <<pw'.lastHigh, pw'.lastLow>>)
      BY <2>3 DEF dm_dynamic_txpower, Connected
    <3> HIDE DEF H, L
    <3> QED
      BY <3>1, <2>5, <2>3
  <2>7. reg'.power \in BOOLEAN \X BOOLEAN
    <3> HIDE DEF H, L
    <3> QED
      BY <1>0, <1>1, <2>2, <2>3
  <2>8. Written /\ "power" \notin told' => reg'.power = <<pw'.lastHigh, pw'.lastLow>>
    <3> HIDE DEF H, L
    <3>1. CASE dm_dynamic_txpower.set
      BY ONLY <3>1, <1>1, <2>3
    <3>2. CASE ~dm_dynamic_txpower.set
      <4>1. <<H, L>> = <<pw.lastHigh, pw.lastLow>> /\ reg'.power = reg.power
        BY ONLY <3>2, <2>1, <1>1
      <4>2. "power" \notin told' => "power" \notin told
        BY ONLY <3>2, <1>2
      <4>3. Written /\ "power" \notin told => reg.power = <<pw.lastHigh, pw.lastLow>>
        BY DEF Written
      <4>4. <<H, L>> = <<pw'.lastHigh, pw'.lastLow>>
        BY ONLY <2>3
      <4> QED
        BY ONLY <4>1, <4>2, <4>3, <4>4
    <3> QED
      BY ONLY <3>1, <3>2
  <2> QED
    BY <1>1, <1>3, <2>3, <2>4, <2>6, <2>7, <2>8
<1> QED
  BY <1>0, <1>4, <1>5 DEF PwType

\* Rate table of the firmware: the thresholds leave room for the state they lead to.
LEMMA RatePass ==
    ASSUME DmType, hal_dm_watchdog
    PROVE  /\ ra' \in {"max", "high", "middle", "low"} /\ reg'.ratr \in RatrValues
           /\ dig'.lastRatr \in RatrValues
           /\ Connected => reg'.ratr \in {"high", "middle", "low20", "low40"}
           /\ dm_check_rate_adaptive'.ratr = reg'.ratr
           /\ OnePass => reg'.ratr = reg.ratr
<1> DEFINE S(x) == IF rssi >= (IF x = "high" THEN 50 ELSE 55) THEN "high"
                   ELSE IF rssi >= (IF bw = 40 THEN 10 ELSE 30) + (IF x = "low" THEN 5 ELSE 0)
                   THEN "middle" ELSE "low"
           R(s) == IF s = "low" THEN IF bw = 40 THEN "low40" ELSE "low20" ELSE s
<1>0. rssi \in Int /\ bw \in {20, 40} /\ reg.ratr \in RatrValues /\ dig.lastRatr \in RatrValues
  BY DEF DmType, RegType, DigType
<1>1. /\ ra' = dm_check_rate_adaptive.ra /\ reg'.ratr = dm_check_rate_adaptive.ratr
      /\ dig'.lastRatr = dm_check_rate_adaptive.last /\ UNCHANGED <<rssi, link, bw>>
  BY PassParts
<1>2. OnePass => dm_check_rate_adaptive.ratr = reg.ratr
  BY DEF OnePass
<1>3. CASE ~Connected
  <2>1. ra' = "max" /\ reg'.ratr = reg.ratr /\ dig'.lastRatr = dig.lastRatr /\ link' # "linked"
    BY <1>1, <1>3 DEF dm_check_rate_adaptive, Connected
  <2>2. dm_check_rate_adaptive'.ratr = reg'.ratr
    BY <2>1 DEF dm_check_rate_adaptive
  <2> QED
    BY <1>0, <1>3, <2>1, <2>2
<1>4. CASE Connected
  <2>1. /\ dm_check_rate_adaptive.ra = S(ra) /\ dm_check_rate_adaptive.ratr = R(S(ra))
        /\ dm_check_rate_adaptive.last = IF R(S(ra)) = reg.ratr THEN dig.lastRatr ELSE R(S(ra))
    BY <1>4 DEF dm_check_rate_adaptive, RaThresh, Connected
  <2>2. dm_check_rate_adaptive'.ratr = R(S(ra'))
    BY <1>1, <1>4 DEF dm_check_rate_adaptive, RaThresh, Connected
  <2>3. \A x : S(x) \in {"high", "middle", "low"}
    OBVIOUS
  <2>4. S(S(ra)) = S(ra)
    BY <1>0
  <2>5. \A s \in {"high", "middle", "low"} : R(s) \in {"high", "middle", "low20", "low40"}
    OBVIOUS
  <2> HIDE DEF S, R
  <2>6. R(S(ra)) \in {"high", "middle", "low20", "low40"} /\ S(ra) \in {"high", "middle", "low"}
    BY <2>3, <2>5
  <2> QED
    BY <1>0, <1>1, <1>2, <2>1, <2>2, <2>4, <2>6 DEF RatrValues
<1> QED
  BY <1>3, <1>4

\* EDCA parameters of best effort frames.
LEMMA EdcaPass ==
    ASSUME DmType, hal_dm_watchdog
    PROVE  /\ ed' \in EdType /\ reg'.edca \in EdcaValues
           /\ Written /\ "edca" \notin told' /\ ed'.turbo
                => reg'.edca = IF ed'.rdl THEN "DL" ELSE "UL"
           /\ dm_check_edca_turbo'.edca = reg'.edca
           /\ OnePass => reg'.edca = reg.edca
<1>0. ed \in EdType /\ reg.edca \in EdcaValues /\ traffic \in {"up", "down", "nonbe"}
  BY DEF DmType, RegType
<1>1. ed' = dm_check_edca_turbo.ed /\ reg'.edca = dm_check_edca_turbo.edca /\ UNCHANGED <<link, traffic>>
  BY PassParts
<1>2. "edca" \notin told' => "edca" \notin told \/ reg'.edca # reg.edca \/ ~ed'.turbo
  BY <1>1, PassTold
<1>3. OnePass => reg'.edca = reg.edca
  BY <1>1 DEF OnePass
<1>4. CASE link # "linked"
  <2>1. ed' = ed /\ reg'.edca = reg.edca
    BY <1>1, <1>4 DEF dm_check_edca_turbo
  <2>2. dm_check_edca_turbo'.edca = reg'.edca
    BY <1>1, <1>4 DEF dm_check_edca_turbo
  <2> QED
    BY <1>0, <1>2, <1>3, <2>1, <2>2 DEF Written
<1>5. CASE link = "linked" /\ traffic = "nonbe"
  <2>1. /\ ed' = (IF ed.turbo THEN dm_init_edca_turbo ELSE ed)
        /\ reg'.edca = IF ed.turbo THEN "ap" ELSE reg.edca
    BY <1>1, <1>5 DEF dm_check_edca_turbo
  <2>2. ed' \in EdType /\ ~ed'.turbo
    BY <1>0, <2>1 DEF EdType, dm_init_edca_turbo
  <2>3. dm_check_edca_turbo'.edca = reg'.edca
    BY <1>1, <1>5, <2>2 DEF dm_check_edca_turbo
  <2> QED
    BY <1>0, <1>3, <2>1, <2>2, <2>3 DEF EdcaValues
<1>6. CASE link = "linked" /\ traffic # "nonbe"
  <2> DEFINE down == traffic = "down"
  <2>1. /\ ed' = [turbo |-> TRUE, rdl |-> down]
        /\ reg'.edca = IF ed.turbo /\ ed.rdl = down THEN reg.edca ELSE IF down THEN "DL" ELSE "UL"
    BY <1>1, <1>6 DEF dm_check_edca_turbo
  <2>2. ed' \in EdType /\ ed'.turbo /\ ed'.rdl = down
    BY <2>1 DEF EdType
  <2>3. dm_check_edca_turbo'.edca = reg'.edca
    BY <1>1, <1>6, <2>2 DEF dm_check_edca_turbo
  <2>4. ed.turbo \in BOOLEAN /\ ed.rdl \in BOOLEAN
    BY <1>0 DEF EdType
  <2>5. Written /\ "edca" \notin told' => reg'.edca = IF ed'.rdl THEN "DL" ELSE "UL"
    BY <1>2, <2>1, <2>2, <2>4 DEF Written
  <2> QED
    BY <1>0, <1>3, <2>1, <2>2, <2>3, <2>5 DEF EdcaValues
<1> QED
  BY <1>4, <1>5, <1>6

\* One pass of the watchdog.
LEMMA PassStep == ASSUME DmInv, hal_dm_watchdog PROVE DmInv'
<1>0. DmType /\ Written /\ (calm >= 1 => OnePass)
  BY DEF DmInv
<1>1. reg' \in RegType
  <2>1. DOMAIN reg' = {"gain", "ratr", "edca", "power", "pd", "cs"} /\ reg' = [x \in DOMAIN reg' |-> reg'[x]]
    BY DEF hal_dm_watchdog
  <2>2. reg' = [gain |-> reg'.gain, ratr |-> reg'.ratr, edca |-> reg'.edca, power |-> reg'.power,
                pd |-> reg'.pd, cs |-> reg'.cs]
    BY DEF hal_dm_watchdog
  <2> QED
    BY <1>0, <2>2, GainPass, PdPass, CsPass, PowerPass, RatePass, EdcaPass DEF RegType
<1>2. dig' \in DigType
  <2>1. dig' = [pre |-> dig'.pre, conn |-> dig'.conn, pd |-> dig'.pd, cs |-> dig'.cs,
                tries |-> dig'.tries, stale |-> dig'.stale, lastRatr |-> dig'.lastRatr]
    BY DEF hal_dm_watchdog
  <2>2. dig'.conn \in BOOLEAN /\ dig'.stale \in SUBSET {"pd", "cs"}
    BY PassParts DEF Connected
  <2> QED
    BY <1>0, <2>1, <2>2, GainPass, PdPass, CsPass, RatePass DEF DigType
<1>3. DmType'
  BY <1>0, <1>1, <1>2, PowerPass, RatePass, EdcaPass, PassParts DEF DmType
<1>4. Connected' = Connected /\ dig'.conn = Connected /\ Steady' /\ sweep' = sweep /\ bw' = bw /\ rssi' = rssi
  BY PassParts DEF Connected, Steady
<1>5. Written'
  BY <1>0, <1>4, PdPass, CsPass, PowerPass, EdcaPass DEF Written
<1>6. OnePass'
  <2>1. dig'.stale = {} /\ dig'.tries >= 1
    BY <1>0, PassParts, PdPass
  <2>2. ~sweep' => reg'.gain = dig'.pre /\ (~Connected' => dig'.pre # 0)
    BY <1>0, <1>4, GainPass
  <2>3. Connected' => reg'.ratr \in {"high", "middle", "low20", "low40"}
    BY <1>0, <1>4, RatePass
  <2>4. dm_check_rate_adaptive'.ratr = reg'.ratr /\ dm_check_edca_turbo'.edca = reg'.edca
    BY <1>0, RatePass, EdcaPass
  <2>5. ~dm_dynamic_txpower'.set /\ (pw'.enable => Power' = <<pw'.lastHigh, pw'.lastLow>>)
    BY <1>0, PowerPass
  <2>6. dig'.tries <= 3 => reg'.pd = PdValue(bw', dig'.pd)
    BY <1>0, <1>4, PdPass
  <2> QED
    BY <1>4, <2>1, <2>2, <2>3, <2>4, <2>5, <2>6 DEF OnePass
<1>7. calm' >= 2 => TwoPasses'
  <2> SUFFICES ASSUME calm' >= 2 PROVE TwoPasses'
    OBVIOUS
  <2>1. calm >= 1
    BY <1>0, PassParts DEF DmType
  <2>2. Steady
    BY <1>0, <2>1 DEF OnePass
  <2>3. dm_pd_th'.s = dig'.pd /\ dm_cs_ratio'.s = dig'.cs
    BY <1>0, <1>4, <2>2, PdPass, CsPass
  <2>4. Connected' /\ ~sweep' => reg'.gain = Clamp(rssi' + 10 - 12)
    BY <1>0, <1>4, <2>2, GainPass
  <2> QED
    BY <2>3, <2>4 DEF TwoPasses
<1> QED
  BY <1>3, <1>5, <1>6, <1>7 DEF DmInv

\* Everything else starts the count of quiet passes anew, so it is enough that it keeps
\* the types and either names in "told" what it wrote or leaves the register alone.
LEMMA EventStep ==
    ASSUME DmInv, Next, ~hal_dm_watchdog PROVE DmType' /\ Written' /\ calm' = 0
<1> USE DEF DmInv
<1>0. /\ reg \in RegType /\ dig \in DigType /\ pw \in PwType /\ ed \in EdType /\ DmType /\ Written
      /\ Power \in BOOLEAN \X BOOLEAN
  BY DEF DmType, PwType, Power
<1>1. ASSUME NEW r \in Rssi, Signal(r) PROVE DmType' /\ Written' /\ calm' = 0
  BY <1>1, DmAssumption DEF Signal, Event, DmType, Written
<1>2. ASSUME NEW t \in {"up", "down", "nonbe"}, Traffic(t) PROVE DmType' /\ Written' /\ calm' = 0
  BY <1>2 DEF Traffic, Event, DmType, Written
<1>3. CASE Associated
  <2>1. ed' \in EdType /\ ~ed'.turbo
    BY <1>3 DEF Associated, dm_init_edca_turbo, EdType
  <2> QED
    BY <1>3, <2>1 DEF Associated, Event, DmType, Written
<1>4. ASSUME NEW b \in {20, 40}, rtllib_associate_complete_wq(b) PROVE DmType' /\ Written' /\ calm' = 0
  <2>1. PdValue(b, "normal") \in Int
    BY Values
  <2>2. /\ reg' \in RegType /\ reg'.cs = reg.cs /\ reg'.power = reg.power /\ reg'.edca = reg.edca
    BY <1>0, <1>4, <2>1 DEF rtllib_associate_complete_wq, RegType, RatrValues
  <2> QED
    BY <1>4, <2>2 DEF rtllib_associate_complete_wq, DmType, Written
<1>5. CASE rtl8192_qos_activate
  <2>1. CASE link = "linked"
    <3>1. /\ reg' \in RegType /\ reg'.cs = reg.cs /\ reg'.power = reg.power /\ reg'.pd = reg.pd
      BY <1>0, <1>5, <2>1 DEF rtl8192_qos_activate, RegType, EdcaValues
    <3> QED
      BY <1>5, <2>1, <3>1 DEF rtl8192_qos_activate, DmType, Written
  <2>2. CASE link # "linked"
    BY <1>5, <2>2 DEF rtl8192_qos_activate, DmType, Written
  <2> QED
    BY <2>1, <2>2
<1>6. CASE Disassociated
  BY <1>6 DEF Disassociated, Event, DmType, Written
<1>7. CASE InitialGainBackup
  <2>1. /\ reg' \in RegType /\ reg'.edca = reg.edca /\ reg'.power = reg.power
        /\ reg'.pd = IF bw = 40 THEN 68 ELSE reg.pd
    <3> DEFINE x == IF bw = 40 THEN 68 ELSE reg.pd
    <3>1. x \in Int /\ reg' = [reg EXCEPT !.gain = 23, !.cs = 8, !.pd = x]
      BY <1>0, <1>7 DEF InitialGainBackup, RegType
    <3> HIDE DEF x
    <3>2. reg'.pd = x /\ reg'.edca = reg.edca /\ reg'.power = reg.power
      BY <1>0, <3>1 DEF RegType
    <3>3. reg' \in RegType
      <4>1. 23 \in Int /\ 8 \in Int
        OBVIOUS
      <4> QED
        BY <1>0, <3>1, <4>1 DEF RegType
    <3> QED
      BY <3>2, <3>3 DEF x
  <2>2. backup' \in [gain : Int, cs : Int, bw : {20, 40}]
    BY <1>0, <1>7 DEF InitialGainBackup, RegType, DmType
  <2>3. "pd" \notin told' => "pd" \notin told /\ bw' = bw /\ reg'.pd = reg.pd
    BY <1>7, <2>1 DEF InitialGainBackup, DmType
  <2>4. "cs" \in told' /\ (\A x \in {"edca", "power"} : x \notin told' => x \notin told)
    BY <1>7 DEF InitialGainBackup
  <2>5. Written'
    BY <1>7, <2>1, <2>3, <2>4 DEF InitialGainBackup, Written
  <2>6. sweep' \in BOOLEAN /\ UNCHANGED <<rssi, traffic, dig, ra, pw, ed>>
    BY <1>7, Zenon DEF InitialGainBackup
  <2>7. link' = "scanning" /\ bw' = 20 /\ calm' = 0
    BY <1>7 DEF InitialGainBackup, Event
  <2> QED
    BY <2>1, <2>2, <2>5, <2>6, <2>7 DEF DmType
<1>8. CASE SweepEnds
  <2>1. sweep' \in BOOLEAN
    BY <1>8, Zenon DEF SweepEnds
  <2> QED
    BY <1>8, <2>1 DEF SweepEnds, DmType, Written
<1>9. CASE InitialGainRestore
  <2>1. /\ reg' \in RegType /\ reg'.edca = reg.edca /\ reg'.power = Power
        /\ reg'.pd = IF backup.bw = 40 THEN 66 ELSE reg.pd
    <3> DEFINE x == IF backup.bw = 40 THEN 66 ELSE reg.pd
    <3>1. /\ x \in Int /\ backup.gain \in Int /\ backup.cs \in Int /\ "table" \in RatrValues
          /\ reg' = [reg EXCEPT !.gain = backup.gain, !.cs = backup.cs, !.power = Power,
                                !.ratr = "table", !.pd = x]
      BY <1>0, <1>9 DEF InitialGainRestore, RegType, RatrValues, DmType
    <3>2. reg'.pd = x /\ reg'.edca = reg.edca /\ reg'.power = Power /\ reg' \in RegType
      <4> HIDE DEF x
      <4> QED
        BY <1>0, <3>1 DEF RegType
    <3> QED
      BY <3>2
  <2>2. "pd" \notin told' => "pd" \notin told /\ bw' = bw /\ reg'.pd = reg.pd
    BY <1>9, <2>1 DEF InitialGainRestore, DmType
  <2>3. "power" \notin told' => reg'.power = <<pw.lastHigh, pw.lastLow>>
    BY <1>9, <2>1 DEF InitialGainRestore, PowerTold
  <2>4. "cs" \in told' /\ ("edca" \notin told' => "edca" \notin told)
    BY <1>9 DEF InitialGainRestore
  <2>5. bw' \in {20, 40}
    BY <1>9 DEF InitialGainRestore, DmType
  <2> QED
    BY <1>9, <2>1, <2>2, <2>3, <2>4, <2>5 DEF InitialGainRestore, DmType, Written
<1>10. ASSUME NEW enable \in BOOLEAN, dm_TXPowerTrackingCallback(enable)
       PROVE  DmType' /\ Written' /\ calm' = 0
  <2>1. pw' \in PwType /\ pw'.lastHigh = pw.lastHigh /\ pw'.lastLow = pw.lastLow
    BY <1>0, <1>10 DEF dm_TXPowerTrackingCallback, PwType
  <2> QED
    BY <1>10, <2>1 DEF dm_TXPowerTrackingCallback, Event, DmType, Written
<1>11. CASE rtl819x_ifsilentreset \/ Reopened
  <2>1. reg' \in RegType /\ reg'.power = Power
    BY <1>0, <1>11, StartedType DEF rtl819x_ifsilentreset, Reopened
  <2>2. /\ "pd" \in told' /\ "cs" \in told'
        /\ "edca" \notin told' => ~ed.turbo
        /\ "power" \notin told' => Power = <<pw.lastHigh, pw.lastLow>>
    BY <1>11 DEF rtl819x_ifsilentreset, Reopened, PowerTold
  <2> QED
    BY <1>11, <2>1, <2>2 DEF rtl819x_ifsilentreset, Reopened, Event, DmType, Written
<1>12. CASE dm_restore_dynamic_mechanism_state
  <2>1. /\ reg' \in RegType /\ reg'.edca = reg.edca /\ reg'.power = reg.power
    BY <1>0, <1>12 DEF dm_restore_dynamic_mechanism_state, RegType, DigType
  <2>2. dig' \in DigType /\ "pd" \in dig'.stale /\ "cs" \in dig'.stale
    BY <1>0, <1>12 DEF dm_restore_dynamic_mechanism_state, DigType
  <2> QED
    BY <1>12, <2>1, <2>2 DEF dm_restore_dynamic_mechanism_state, DmType, Written
<1> QED
  BY <1>1, <1>2, <1>3, <1>4, <1>5, <1>6, <1>7, <1>8, <1>9, <1>10, <1>11, <1>12 DEF Next

LEMMA DmStep == DmInv /\ [Next]_vars => DmInv'
<1> SUFFICES ASSUME DmInv, [Next]_vars PROVE DmInv'
  OBVIOUS
<1>1. CASE hal_dm_watchdog
  BY <1>1, PassStep
<1>2. CASE Next /\ ~hal_dm_watchdog
  BY <1>2, EventStep DEF DmInv
<1>3. CASE UNCHANGED vars
  BY <1>3 DEF vars, env, DmInv, DmType, Written, OnePass, TwoPasses, Steady, Connected, Power,
              dm_check_rate_adaptive, RaThresh, dm_check_edca_turbo, dm_dynamic_txpower,
              dm_pd_th, dm_cs_ratio, dm_init_edca_turbo
<1> QED
  BY <1>1, <1>2, <1>3

\* After two passes with nothing else happening a third writes what is there.
LEMMA PassQuiet == ASSUME DmInv, hal_dm_watchdog, calm >= 2 PROVE reg' = reg
<1>1. DmType /\ OnePass /\ TwoPasses
  BY DEF DmInv, DmType
<1>2. /\ reg'.gain = reg.gain /\ reg'.pd = reg.pd /\ reg'.cs = reg.cs /\ reg'.power = reg.power
      /\ reg'.edca = reg.edca /\ reg'.ratr = reg.ratr
  BY <1>1, GainPass, PdPass, CsPass, PowerPass, RatePass, EdcaPass
<1>3. reg' = [gain |-> reg'.gain, ratr |-> reg'.ratr, edca |-> reg'.edca, power |-> reg'.power,
              pd |-> reg'.pd, cs |-> reg'.cs]
  BY DEF hal_dm_watchdog
<1>4. reg = [gain |-> reg.gain, ratr |-> reg.ratr, edca |-> reg.edca, power |-> reg.power,
             pd |-> reg.pd, cs |-> reg.cs]
  BY <1>1 DEF DmType, RegType
<1> QED
  BY <1>2, <1>3, <1>4

LEMMA DmHolds == MCSpec => []DmInv
<1>1. MCInit => DmInv
  BY DmInit DEF MCInit
<1>2. DmInv /\ [MCNext]_allvars => DmInv'
  <2>1. [MCNext]_allvars => [Next]_vars
    BY DEF MCNext, allvars
  <2> QED
    BY <2>1, DmStep
<1> QED
  BY <1>1, <1>2, PTL DEF MCSpec, allvars

\* After a pass of the watchdog a register that nothing else wrote holds what its
\* mechanism believes, through scans, resets, associations and opens of the interface.
THEOREM RegistersBelieved == MCSpec => []Believed
<1>1. DmInv => Believed
  BY DEF DmInv, Believed, Written, OnePass, Connected
<1> QED
  BY <1>1, DmHolds, PTL

\* The mechanisms come to rest after two quiet passes, whatever was left behind.
THEOREM MechanismsComeToRest == MCSpec => Quiet
<1>1. DmInv /\ [MCNext]_allvars => [hal_dm_watchdog /\ calm >= 2 => reg' = reg]_vars
  BY PassQuiet
<1> QED
  BY <1>1, DmHolds, PTL DEF MCSpec, Quiet, allvars
=============================================================================
