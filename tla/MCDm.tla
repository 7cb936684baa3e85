---------------------------------- MODULE MCDm ----------------------------------
(* The mechanisms of the watchdog.  The four modules share no state, so every    *)
(* behaviour exercises one of them and leaves the others in a fixed initial state. *)
EXTENDS Dm

CONSTANTS Levels, Defaults

\* Signal levels are percentages, and the gains start inside the table.
ASSUME MCDmAssumption == Levels \subseteq 0 .. 100 /\ Defaults \subseteq 0 .. 36

VARIABLES which,
    on, th, cnt, cck, method,
    ap, near, st, timer, switched, c36, c38, c38State, counted, phase,
    start, idx, real, diff, att, band, bwWork

P == INSTANCE RxPathSel
F == INSTANCE Fsync
T == INSTANCE TxPowerTrack

pvars == <<on, th, cnt, cck, method>>
fvars == <<ap, near, st, timer, switched, c36, c38, c38State, counted, phase>>
tvars == <<start, idx, real, diff, att, band, bwWork>>

MCInit ==
    /\ Init /\ P!Init /\ F!Init /\ T!Init /\ which \in {"dm", "path", "fsync", "track"}
    /\ which # "dm" => rssi = 38
    /\ which # "path" => method = 1
    /\ which # "track" => start = [c \in T!Chains |-> 16]

MCNext ==
    \/ which = "dm" /\ Next /\ UNCHANGED <<which, pvars, fvars, tvars>>
    \/ which = "path" /\ P!Next /\ UNCHANGED <<which, vars, fvars, tvars>>
    \/ which = "fsync" /\ F!Next /\ UNCHANGED <<which, vars, pvars, tvars>>
    \/ which = "track" /\ T!Next /\ UNCHANGED <<which, vars, pvars, fvars>>

MCSpec == MCInit /\ [][MCNext]_<<which, vars, pvars, fvars, tvars>>

\* The receiver keeps two paths and awaits CCK frames on enabled ones (RxPathSel).
ReceiverKept == P!ReceiverKept
\* What software frame synchronisation switched is switched back (Fsync).
FsyncReturned == F!FsyncReturned
\* The tracked gains stay in their tables and in step with the bandwidth (TxPowerTrack).
GainsInStep == T!GainsInStep
=============================================================================
