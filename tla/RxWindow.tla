------------------------------ MODULE RxWindow ------------------------------
(***************************************************************************)
(* What the receiver of one traffic stream promises the network stack,     *)
(* with frames numbered by the unbounded position at which the peer sent   *)
(* them.  Frames are handed up in the order they were sent, each of them   *)
(* at most once: a step moves the window start forward, hands up exactly   *)
(* the frames held below the new start and keeps the rest, all of them     *)
(* inside the window.  RxReorder implements this promise with 12-bit       *)
(* sequence numbers.                                                       *)
(***************************************************************************)
EXTENDS Integers

CONSTANTS Frames,     \* positions of the frames a peer may send
          WinSize     \* width of the receive window

VARIABLES start,      \* the window start: every frame below it is settled
          buf,        \* frames held back, waiting for a missing one
          out         \* frames the last step handed up

vars == <<start, buf, out>>

NoPos == -1           \* the stream has not seen its first frame

Init == start = NoPos /\ buf = {} /\ out = {}

(* The window start moves forward: of the frames in b those below the new  *)
(* start go up, the others stay and fit into the window.                   *)
Advance(b) ==
    /\ start' >= start
    /\ out' = {m \in b : m < start'}
    /\ buf' = {m \in b : m >= start'}
    /\ \A m \in buf' : start' < m /\ m < start' + WinSize

(* The first frame of a stream goes up at once and starts the window.      *)
First(n) == start = NoPos /\ start' = n + 1 /\ out' = {n} /\ buf' = buf

(* A frame below the window start is lost; so is one that finds no room.   *)
Receive(n) ==
    /\ start # NoPos
    /\ \/ Advance(buf)
       \/ n >= start /\ Advance(buf \cup {n})

Timeout == start # NoPos /\ Advance(buf)

(* The stream ends, or its record is given to a new one: what is held is   *)
(* freed.                                                                  *)
Restart == start' \in {start, NoPos} /\ buf' = {} /\ out' = {}

Next == Restart \/ Timeout \/ \E n \in Frames : First(n) \/ Receive(n)

Spec == Init /\ [][Next]_vars
=============================================================================
