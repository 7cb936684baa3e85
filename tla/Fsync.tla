--------------------------------- MODULE Fsync ---------------------------------
(***************************************************************************)
(* Software frame synchronisation for Broadcom access points: the watchdog  *)
(* (dm_check_fsync) starts and ends it, a timer toggles the registers 0xc36 *)
(* and 0xc3e while it runs, and a silent reset cuts it off.  The register   *)
(* 0xc38 is set by the watchdog alone.  bfsync_enable is always true, so    *)
(* hardware synchronisation (two empty functions) is never used.            *)
(***************************************************************************)
EXTENDS Integers

VARIABLES
    ap,     \* linked to a Broadcom access point ("bcm"), to another, or not
    near,   \* undecorated_smoothed_pwdb is above the thresholds
    st,     \* fsync_state
    timer,  \* fsync_timer is pending
    switched, \* bswitch_fsync
    c36,    \* TRUE: 0xc36 and 0xc3e hold the switched values
    c38, c38State, \* the value in 0xc38, and the static reg_c38_State
    counted,       \* reset_cnt # reset_count
    phase   \* of a silent reset: "up", "backup" (up = 0), "down", "started"

fvars == <<ap, near, st, timer, switched, c36, c38, c38State, counted, phase>>

Init ==
    /\ ap = "none" /\ near = FALSE /\ st = "Default" /\ timer = FALSE /\ switched = FALSE
    /\ c36 = FALSE /\ c38 = "framesync" /\ c38State = "Default" /\ counted = FALSE /\ phase = "up"
-----------------------------------------------------------------------------
Link(a, n) ==
    /\ <<a, n>> # <<ap, near>> /\ ap' = a /\ near' = n
    /\ UNCHANGED <<st, timer, switched, c36, c38, c38State, counted, phase>>

dm_StartSWFsync == st' = "SW" /\ timer' = TRUE /\ switched' = FALSE /\ UNCHANGED c36

EndSWFsyncLeavesSwitch == st' = "Default" /\ timer' = FALSE /\ UNCHANGED <<switched, c36>>  \* mutant
dm_EndSWFsync ==
    /\ st' = "Default" /\ timer' = FALSE /\ switched' = FALSE /\ c36' = (c36 /\ ~switched)

\* What the first half of dm_check_fsync wants in 0xc38; it writes a change only.
C38Wanted ==
    IF ap = "bcm" THEN "Fsync_AP_BCM"
    ELSE IF ap = "other" /\ ~near THEN "NonFsync_Other_AP"
    ELSE "Default"
C38Value(s) ==
    [Default |-> "framesync", NonFsync_Other_AP |-> "0x10", Fsync_AP_BCM |-> "0x15"][s]

dm_check_fsync ==
    /\ phase \in {"up", "started"}
    /\ \/ ap = "bcm" /\ st = "Default" /\ dm_StartSWFsync
       \/ ap # "bcm" /\ st = "SW" /\ dm_EndSWFsync
       \/ (ap = "bcm" <=> st = "SW") /\ UNCHANGED <<st, timer, switched, c36>>
    /\ IF counted THEN c38' = "framesync" /\ c38State' = "Default"
       ELSE /\ c38State' = C38Wanted
            /\ c38' = IF c38State = C38Wanted THEN c38 ELSE C38Value(C38Wanted)
    /\ counted' = FALSE /\ UNCHANGED <<ap, near, phase>>

\* fewer: the counted rates were received less often than the threshold says.
dm_fsync_timer_callback(fewer) ==
    /\ timer
    /\ IF ap = "bcm"
       THEN /\ timer' = TRUE
            /\ switched' = (IF near /\ fewer THEN ~switched ELSE near /\ switched)
            /\ c36' = IF near /\ fewer THEN ~switched ELSE c36 /\ (near \/ ~switched)
       ELSE timer' = FALSE /\ switched' = FALSE /\ c36' = (c36 /\ ~switched)
    /\ UNCHANGED <<ap, near, st, c38, c38State, counted, phase>>

\* A silent reset.  The timer may fire between the first two steps; a pass of the
\* watchdog may run between the last two.
dm_backup_dynamic_mechanism_state ==
    /\ phase = "up" /\ phase' = "backup" /\ switched' = FALSE
    /\ UNCHANGED <<ap, near, st, timer, c36, c38, c38State, counted>>
dm_deInit_fsync ==
    /\ phase = "backup" /\ phase' = "down" /\ timer' = FALSE
    /\ UNCHANGED <<ap, near, st, switched, c36, c38, c38State, counted>>
AdapterStarted ==
    /\ phase = "down" /\ phase' = "started" /\ c36' = FALSE /\ c38' = "framesync"
    /\ UNCHANGED <<ap, near, st, timer, switched, c38State, counted>>
ResetCounted ==
    /\ phase = "started" /\ phase' = "up" /\ counted' = TRUE
    /\ UNCHANGED <<ap, near, st, timer, switched, c36, c38, c38State>>

Next ==
    \/ \E a \in {"none", "bcm", "other"}, n \in BOOLEAN : Link(a, n)
    \/ dm_check_fsync \/ (\E fewer \in BOOLEAN : dm_fsync_timer_callback(fewer))
    \/ dm_backup_dynamic_mechanism_state \/ dm_deInit_fsync \/ AdapterStarted \/ ResetCounted
-----------------------------------------------------------------------------
\* With the driver up, the switched values stand in the registers only while software
\* synchronisation runs, where the next pass or the timer puts them back; and once a
\* reset is counted 0xc38 holds what reg_c38_State says.
FsyncReturned ==
    /\ phase \in {"up", "started"} => ((c36 => st = "SW" /\ switched) /\ (timer => st = "SW"))
    /\ phase = "up" /\ ~counted => c38 = C38Value(c38State)
=============================================================================
