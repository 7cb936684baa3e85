--------------------------- MODULE StaMlmeProofs ---------------------------
(***************************************************************************)
(* Theorems about StaMlme, for every set of user operations the statements *)
(* name, with or without link loss and early answers, and every retry      *)
(* limit.                                                                  *)
(*                                                                         *)
(* The properties speak of works that are pending, the code of a delayed   *)
(* list and a queue.  The first lemmas say what the operations of the work *)
(* queue do to the set of pending works; after them the proofs never open  *)
(* the queue again.                                                        *)
(***************************************************************************)
EXTENDS StaMlme, SequenceTheorems, TLAPS

(* A work is on one list, in one place.                                    *)
Once(ws) ==
    /\ \A i, j \in 1..Len(ws.queue) : ws.queue[i] = ws.queue[j] => i = j
    /\ \A i \in 1..Len(ws.queue) : ws.queue[i] \notin ws.delayed

-----------------------------------------------------------------------------
(* The work queue.                                                         *)

(* Removing an element closes the gap.                                     *)
LEMMA RemoveAtIs ==
    ASSUME NEW S, NEW s \in Seq(S), NEW i \in 1..Len(s)
    PROVE  /\ RemoveAt(s, i) \in Seq(S)
           /\ Len(RemoveAt(s, i)) = Len(s) - 1
           /\ \A j \in 1..(Len(s) - 1) :
                 RemoveAt(s, i)[j] = IF j < i THEN s[j] ELSE s[j + 1]
<1> DEFINE a == SubSeq(s, 1, i - 1)
           b == SubSeq(s, i + 1, Len(s))
<1>1. Len(s) \in Nat /\ i \in Nat
  BY LenProperties
<1>2. /\ a \in Seq(S) /\ Len(a) = i - 1
      /\ \A j \in 1..(i - 1) : a[j] = s[j]
  BY <1>1, SubSeqProperties
<1>3. /\ b \in Seq(S) /\ Len(b) = Len(s) - i
      /\ \A j \in 1..(Len(s) - i) : b[j] = s[i + j]
  <2>1. CASE i = Len(s)
    BY <2>1, <1>1, SubSeqProperties
  <2>2. CASE i < Len(s)
    BY <2>2, <1>1, SubSeqProperties
  <2> QED
    BY <2>1, <2>2, <1>1
<1>4. /\ a \o b \in Seq(S) /\ Len(a \o b) = Len(a) + Len(b)
      /\ \A j \in 1..(Len(a) + Len(b)) : (a \o b)[j] = IF j <= Len(a) THEN a[j] ELSE b[j - Len(a)]
  BY <1>2, <1>3, ConcatProperties
<1>5. RemoveAt(s, i) = a \o b
  BY DEF RemoveAt
<1> HIDE DEF a, b
<1>6. ASSUME NEW j \in 1..(Len(s) - 1)
      PROVE  (a \o b)[j] = IF j < i THEN s[j] ELSE s[j + 1]
  <2>1. CASE j < i
    BY <2>1, <1>1, <1>2, <1>3, <1>4
  <2>2. CASE ~(j < i)
    <3>1. (a \o b)[j] = b[j - (i - 1)] /\ j - (i - 1) \in 1..(Len(s) - i)
      BY <2>2, <1>1, <1>2, <1>3, <1>4
    <3>2. b[j - (i - 1)] = s[i + (j - (i - 1))]
      BY ONLY <1>3, <3>1
    <3>3. i + (j - (i - 1)) = j + 1
      BY ONLY <1>1, j \in 1..(Len(s) - 1)
    <3> QED
      BY ONLY <2>2, <3>1, <3>2, <3>3
  <2> QED
    BY <2>1, <2>2
<1>7. Len(a \o b) = Len(s) - 1
  BY <1>1, <1>2, <1>3, <1>4
<1>8. a \o b \in Seq(S)
  BY <1>4
<1> HIDE DEF a, b
<1> QED
  BY ONLY <1>5, <1>6, <1>7, <1>8

(* queue_work and queue_delayed_work make the work pending.                *)
LEMMA QueueWorkIs ==
    ASSUME NEW ws \in WorkLists, Once(ws), NEW w \in Works
    PROVE  /\ QueueWork(ws, w) \in WorkLists /\ Once(QueueWork(ws, w))
           /\ \A v : PendingIn(QueueWork(ws, w), v) <=> PendingIn(ws, v) \/ v = w
<1>1. CASE PendingIn(ws, w)
  BY <1>1 DEF QueueWork, PendingIn
<1>2. CASE ~PendingIn(ws, w)
  <2> DEFINE q == ws.queue
             n == [ws EXCEPT !.queue = Append(@, w)]
  <2>1. q \in Seq(Works) /\ Len(q) \in Nat /\ ws.delayed \subseteq Works
    BY LenProperties DEF WorkLists
  <2>2. QueueWork(ws, w) = n
    BY <1>2 DEF QueueWork
  <2>3. /\ n \in WorkLists /\ n.delayed = ws.delayed
        /\ n.queue = Append(q, w) /\ Len(n.queue) = Len(q) + 1
        /\ \A i \in 1..Len(q) : n.queue[i] = q[i]
        /\ n.queue[Len(q) + 1] = w
    BY <2>1 DEF WorkLists
  <2>4. \A i \in 1..Len(q) : q[i] # w
    BY <1>2 DEF PendingIn, InQueue
  <2> HIDE DEF n
  <2>5. Once(n)
    BY <1>2, <2>1, <2>3, <2>4 DEF Once, PendingIn
  <2>6. ASSUME NEW v PROVE InQueue(n, v) <=> InQueue(ws, v) \/ v = w
    BY <2>1, <2>3 DEF InQueue
  <2> QED
    BY <2>2, <2>3, <2>5, <2>6 DEF PendingIn
<1> QED
  BY <1>1, <1>2

LEMMA QueueDelayedWorkIs ==
    ASSUME NEW ws \in WorkLists, Once(ws), NEW w \in Works
    PROVE  /\ QueueDelayedWork(ws, w) \in WorkLists /\ Once(QueueDelayedWork(ws, w))
           /\ \A v : PendingIn(QueueDelayedWork(ws, w), v) <=> PendingIn(ws, v) \/ v = w
<1>1. CASE PendingIn(ws, w)
  BY <1>1 DEF QueueDelayedWork, PendingIn
<1>2. CASE ~PendingIn(ws, w)
  <2> DEFINE n == [ws EXCEPT !.delayed = @ \cup {w}]
  <2>1. QueueDelayedWork(ws, w) = n
    BY <1>2 DEF QueueDelayedWork
  <2>2. n \in WorkLists /\ n.delayed = ws.delayed \cup {w} /\ n.queue = ws.queue
    BY DEF WorkLists
  <2> HIDE DEF n
  <2> QED
    BY <1>2, <2>1, <2>2 DEF Once, PendingIn, InQueue
<1> QED
  BY <1>1, <1>2

(* cancel_delayed_work takes the work off its list.                        *)
LEMMA CancelWorkIs ==
    ASSUME NEW ws \in WorkLists, Once(ws), NEW w \in Works
    PROVE  /\ CancelWork(ws, w) \in WorkLists /\ Once(CancelWork(ws, w))
           /\ \A v : PendingIn(CancelWork(ws, w), v) <=> PendingIn(ws, v) /\ v # w
<1> DEFINE q == ws.queue
           c == CancelWork(ws, w)
<1>1. q \in Seq(Works) /\ Len(q) \in Nat /\ ws.delayed \subseteq Works
  BY LenProperties DEF WorkLists
<1>2. CASE ~InQueue(ws, w)
  <2>1. c.delayed = ws.delayed \ {w} /\ c.queue = q /\ c \in WorkLists
    BY <1>1, <1>2 DEF CancelWork, WorkLists
  <2> HIDE DEF c
  <2> QED
    BY <1>2, <2>1 DEF Once, PendingIn, InQueue, c
<1>3. CASE InQueue(ws, w)
  <2> DEFINE i == CHOOSE k \in 1..Len(q) : q[k] = w
  <2>1. i \in 1..Len(q) /\ q[i] = w
    BY <1>3 DEF InQueue
  <2> HIDE DEF i
  <2>2. c.delayed = ws.delayed \ {w} /\ c.queue = RemoveAt(q, i)
    BY <1>3 DEF CancelWork, i
  <2>3. /\ c.queue \in Seq(Works) /\ Len(c.queue) = Len(q) - 1
        /\ \A j \in 1..(Len(q) - 1) : c.queue[j] = IF j < i THEN q[j] ELSE q[j + 1]
    <3>1. /\ RemoveAt(q, i) \in Seq(Works) /\ Len(RemoveAt(q, i)) = Len(q) - 1
          /\ \A j \in 1..(Len(q) - 1) : RemoveAt(q, i)[j] = IF j < i THEN q[j] ELSE q[j + 1]
      <4> HIDE DEF q, c
      <4> QED
        BY <1>1, <2>1, RemoveAtIs
    <3> QED
      BY ONLY <3>1, <2>2
  <2>4. c \in WorkLists
    BY <1>1, <2>2, <2>3 DEF WorkLists, CancelWork
  <2> HIDE DEF c
  <2>5. \A j \in 1..Len(q) : q[j] = w => j = i
    BY <2>1 DEF Once
  <2>6. Once(c)
    <3>1. ASSUME NEW j \in 1..Len(c.queue), NEW k \in 1..Len(c.queue), c.queue[j] = c.queue[k]
          PROVE  j = k
      <4> DEFINE jj == IF j < i THEN j ELSE j + 1
                 kk == IF k < i THEN k ELSE k + 1
      <4>0. j \in 1..(Len(q) - 1) /\ k \in 1..(Len(q) - 1) /\ i \in 1..Len(q) /\ Len(q) \in Nat
        BY <1>1, <2>1, <2>3
      <4>a. jj \in 1..Len(q) /\ kk \in 1..Len(q)
        BY ONLY <4>0
      <4>b. c.queue[j] = q[jj] /\ c.queue[k] = q[kk]
        BY ONLY <4>0, <2>3
      <4>1. jj \in 1..Len(q) /\ kk \in 1..Len(q) /\ q[jj] = q[kk]
        BY ONLY <4>a, <4>b, <3>1
      <4>2. jj = kk
        BY <4>1 DEF Once
      <4> QED
        BY <4>2, <1>1, <2>1, <2>3
    <3>2. ASSUME NEW j \in 1..Len(c.queue) PROVE c.queue[j] \notin c.delayed
      BY <1>1, <2>1, <2>2, <2>3 DEF Once
    <3> QED
      BY <3>1, <3>2 DEF Once
  <2>7. ASSUME NEW v PROVE InQueue(c, v) <=> InQueue(ws, v) /\ v # w
    <3>1. ASSUME InQueue(c, v) PROVE InQueue(ws, v) /\ v # w
      <4>1. PICK j \in 1..Len(c.queue) : c.queue[j] = v
        BY <3>1 DEF InQueue
      <4> DEFINE jj == IF j < i THEN j ELSE j + 1
      <4>2. jj \in 1..Len(q) /\ q[jj] = v /\ jj # i
        BY <1>1, <2>1, <2>3, <4>1
      <4> QED
        BY <4>2, <2>5 DEF InQueue
    <3>2. ASSUME InQueue(ws, v), v # w PROVE InQueue(c, v)
      <4>1. PICK j \in 1..Len(q) : q[j] = v
        BY <3>2 DEF InQueue
      <4>2. j # i
        BY <4>1, <3>2, <2>1
      <4> DEFINE jj == IF j < i THEN j ELSE j - 1
      <4>3. jj \in 1..Len(c.queue) /\ c.queue[jj] = v
        BY <1>1, <2>1, <2>3, <4>1, <4>2
      <4> QED
        BY <4>3 DEF InQueue
    <3> QED
      BY <3>1, <3>2
  <2>8. ASSUME NEW v PROVE PendingIn(c, v) <=> PendingIn(ws, v) /\ v # w
    BY <2>2, <2>7 DEF PendingIn
  <2> QED
    BY <2>4, <2>6, <2>8 DEF c
<1> QED
  BY <1>2, <1>3

(* The worker takes the first work off the queue.                          *)
LEMMA DequeueIs ==
    ASSUME NEW ws \in WorkLists, Once(ws), ws.queue # << >>,
           NEW d, d = [ws EXCEPT !.queue = Tail(@)]
    PROVE  /\ d \in WorkLists /\ Once(d)
           /\ PendingIn(ws, Head(ws.queue))
           /\ \A v : PendingIn(d, v) <=> PendingIn(ws, v) /\ v # Head(ws.queue)
<1> DEFINE q == ws.queue
<1>1. /\ q \in Seq(Works) /\ Len(q) \in Nat \ {0} /\ ws.delayed \subseteq Works
      /\ Head(q) = q[1]
  BY EmptySeq, LenProperties, HeadTailProperties DEF WorkLists
<1>2. /\ d.delayed = ws.delayed /\ d.queue = Tail(q)
      /\ Tail(q) \in Seq(Works) /\ Len(Tail(q)) = Len(q) - 1
      /\ \A i \in 1..(Len(q) - 1) : Tail(q)[i] = q[i + 1]
  BY <1>1, HeadTailProperties DEF WorkLists
<1>3. d \in WorkLists
  BY <1>1, <1>2 DEF WorkLists
<1>4. PendingIn(ws, Head(q))
  BY <1>1 DEF PendingIn, InQueue
<1>5. Once(d)
  <2>1. ASSUME NEW i \in 1..Len(d.queue), NEW j \in 1..Len(d.queue), d.queue[i] = d.queue[j]
        PROVE  i = j
    <3>1. i + 1 \in 1..Len(q) /\ j + 1 \in 1..Len(q) /\ q[i + 1] = q[j + 1]
      BY <1>1, <1>2, <2>1
    <3>2. i + 1 = j + 1
      BY <3>1 DEF Once
    <3> QED
      BY <3>2, <1>1, <1>2
  <2>2. ASSUME NEW i \in 1..Len(d.queue) PROVE d.queue[i] \notin d.delayed
    BY <1>1, <1>2 DEF Once
  <2> QED
    BY <2>1, <2>2 DEF Once
<1>6. ASSUME NEW v PROVE InQueue(d, v) <=> InQueue(ws, v) /\ v # Head(q)
  <2>1. ASSUME InQueue(d, v) PROVE InQueue(ws, v) /\ v # Head(q)
    <3>1. PICK i \in 1..(Len(q) - 1) : q[i + 1] = v
      BY <2>1, <1>1, <1>2 DEF InQueue
    <3>2. i + 1 \in 1..Len(q) /\ i + 1 # 1 /\ 1 \in 1..Len(q)
      BY <1>1
    <3> QED
      BY <3>1, <3>2, <1>1 DEF InQueue, Once
  <2>2. ASSUME InQueue(ws, v), v # Head(q) PROVE InQueue(d, v)
    <3>1. PICK i \in 1..Len(q) : q[i] = v
      BY <2>2 DEF InQueue
    <3>2. i - 1 \in 1..(Len(q) - 1) /\ Tail(q)[i - 1] = v
      BY <3>1, <2>2, <1>1, <1>2
    <3> QED
      BY <3>2, <1>2 DEF InQueue
  <2> QED
    BY <2>1, <2>2
<1>7. Head(q) \notin ws.delayed
  BY <1>1 DEF Once
<1> QED
  BY <1>2, <1>3, <1>4, <1>5, <1>6, <1>7 DEF PendingIn

(* The delay of a work ends: it is still pending.                          *)
LEMMA ExpireIs ==
    ASSUME NEW ws \in WorkLists, Once(ws), NEW w \in ws.delayed,
           NEW d, d = [delayed |-> ws.delayed \ {w}, queue |-> Append(ws.queue, w)]
    PROVE  d \in WorkLists /\ Once(d) /\ \A v : PendingIn(d, v) <=> PendingIn(ws, v)
<1> DEFINE q == ws.queue
<1>1. q \in Seq(Works) /\ Len(q) \in Nat /\ ws.delayed \subseteq Works /\ w \in Works
  BY LenProperties DEF WorkLists
<1>2. /\ d \in WorkLists /\ d.delayed = ws.delayed \ {w}
      /\ d.queue = Append(q, w) /\ Len(d.queue) = Len(q) + 1
      /\ \A i \in 1..Len(q) : d.queue[i] = q[i]
      /\ d.queue[Len(q) + 1] = w
  BY <1>1 DEF WorkLists
<1>3. \A i \in 1..Len(q) : q[i] # w
  BY DEF Once
<1>4. Once(d)
  BY <1>1, <1>2, <1>3 DEF Once
<1>5. ASSUME NEW v PROVE InQueue(d, v) <=> InQueue(ws, v) \/ v = w
  BY <1>1, <1>2 DEF InQueue
<1> QED
  BY <1>2, <1>4, <1>5 DEF PendingIn
-----------------------------------------------------------------------------
(* The inductive invariant.                                                *)

UnderSem == {"stopscan", "sent", "again", "research", "rescan"}
Surveys == {"surveywait", "surveying"}
UserUnderSem == {"stop", "stopstate", "start", "startscan", "survey"}

(* wx_sem is held by whoever stands between its down and its up.           *)
Holders == (sem = "worker" <=> worker \in UnderSem) /\ (sem = "user" <=> user.pc \in UserUnderSem)

(* A survey that runs is not queued a second time.                         *)
OneSurvey == worker \in Surveys => ~PendingIn(works, "survey")

(* The user asks for what the configuration allows, and stands where that  *)
(* call can stand.                                                         *)
Asked ==
    /\ user.op \in UserOps \cup {"none"}
    /\ user.pc \in {"survey", "syncwait", "syncing"} => user.op = "scan"
    /\ user.pc \in {"stop", "stopstate"} => user.op \in {"restart", "down"}
    /\ user.pc = "idle" <=> user.op = "none"

(* proto_started is off while rtllib_stop_protocol takes the link down.    *)
Stopped == user.pc \in {"stopstate", "start"} => ~proto

(* An association request is under the associate timer.                    *)
AssocTimed == state = "AUTHENTICATED" => timer \/ user.pc = "stopstate"

(* Without site surveys nothing is left of them.                           *)
NoSurvey == ~Pending("survey") /\ worker \notin Surveys /\ state # "LINKED_SCANNING"

(* The interface has not been opened yet.                                  *)
Unopened ==
    /\ ~up /\ ~proto /\ state = "NOLINK" /\ ~timer /\ worker = "idle" /\ watchdog = "idle"
    /\ (\A w : ~Pending(w)) /\ user.pc \in {"idle", "wait"}

(* An interface that stays up runs the protocol, except during a restart.  *)
Running == Unopened \/ (up /\ (proto \/ user.pc \in {"stopstate", "start"}))

(* NothingForgotten, without its hypothesis: what the middle of a restart  *)
(* may leave behind is only what it makes NOLINK next.                     *)
Coming ==
    user.pc # "stopstate" =>
       /\ state = "ASSOCIATING" => ProcedureComing
       /\ state = "RETRY" => timer \/ ProcedureComing \/ Pending("retry") \/ worker \in {"retry", "again"}
       /\ state \in {"AUTHENTICATING", "AUTHENTICATED"} => timer \/ ProcedureComing \/ worker = "sent"

(* scanning is set only while the scan work is pending.                    *)
FlagKept == (scan.flag => Pending("scan")) /\ ~scan.sync

Always == Holders /\ OneSurvey /\ Asked /\ Stopped /\ AssocTimed /\ SemHandedOver /\ LinkUsable
IfNoScan == "scan" \notin UserOps => NoSurvey /\ LinkIsReal
IfOpen == UserOps \subseteq {"restart", "scan"} => Running /\ Coming
IfRestart == UserOps \subseteq {"restart"} => FlagKept

Inv == TypeOK /\ Once(works) /\ Always /\ IfNoScan /\ IfOpen /\ IfRestart

LEMMA InitInv == Init => Inv
<1> SUFFICES ASSUME Init PROVE Inv
  OBVIOUS
<1>1. works = [delayed |-> {}, queue |-> << >>]
  BY DEF Init
<1>2. \A w : ~PendingIn(works, w)
  BY <1>1 DEF PendingIn, InQueue
<1>3. Once(works)
  BY <1>1 DEF Once
<1>4. TypeOK
  <2>1. works \in WorkLists
    BY <1>1 DEF WorkLists
  <2>2. asocRetry \in 0..(RetryLimit - 1)
    BY StaAssumption DEF Init
  <2> QED
    BY <2>1, <2>2 DEF Init, TypeOK, States, Transient, WorkerPcs, Scans, Users
<1> QED
  BY <1>2, <1>3, <1>4 DEF Init, Inv, Always, IfNoScan, IfOpen, IfRestart, Holders, OneSurvey, Asked,
     Stopped, AssocTimed, SemHandedOver, LinkUsable, Pending, NoUser, UnderSem, Surveys, UserUnderSem,
     NoSurvey, LinkIsReal, Unopened, Running, Coming, FlagKept
-----------------------------------------------------------------------------
(* TypeOK in two parts, for two provers.                                   *)
Flags == {joined, proto, up, timer, carrier, filter} \subseteq BOOLEAN
Others ==
    /\ state \in States /\ asocRetry \in 0..(RetryLimit - 1)
    /\ scan \in Scans /\ sem \in {"none", "user", "worker", "survey"}
    /\ works \in WorkLists /\ worker \in WorkerPcs
    /\ user \in Users /\ watchdog \in {"idle", "lost", "queue"}

(* What a step does to the pending works.                                  *)

Tidy == works' \in WorkLists /\ Once(works')
Keeps == \A v : PendingIn(works', v) <=> PendingIn(works, v)
Adds(w) == \A v : PendingIn(works', v) <=> PendingIn(works, v) \/ v = w
Drops(w) == \A v : PendingIn(works', v) <=> PendingIn(works, v) /\ v # w

LEMMA Effects ==
    ASSUME Inv, NEW w \in Works
    PROVE  /\ works' = works => Tidy /\ Keeps
           /\ works' = QueueWork(works, w) => Tidy /\ Adds(w)
           /\ works' = QueueDelayedWork(works, w) => Tidy /\ Adds(w)
           /\ works' = CancelWork(works, w) => Tidy /\ Drops(w)
           /\ Dispatch(w) /\ works' = Dequeued => Tidy /\ Drops(w) /\ PendingIn(works, w)
           /\ DelayExpires(w) => Tidy /\ Keeps
<1>1. works \in WorkLists /\ Once(works)
  BY DEF Inv, TypeOK
<1>2. works' = works => Tidy /\ Keeps
  BY <1>1 DEF Tidy, Keeps
<1>3. works' = QueueWork(works, w) => Tidy /\ Adds(w)
  BY <1>1, QueueWorkIs DEF Tidy, Adds
<1>4. works' = QueueDelayedWork(works, w) => Tidy /\ Adds(w)
  BY <1>1, QueueDelayedWorkIs DEF Tidy, Adds
<1>5. works' = CancelWork(works, w) => Tidy /\ Drops(w)
  BY <1>1, CancelWorkIs DEF Tidy, Drops
<1>6. Dispatch(w) /\ works' = Dequeued => Tidy /\ Drops(w) /\ PendingIn(works, w)
  BY <1>1, DequeueIs DEF Tidy, Drops, Dispatch, Dequeued
<1>7. DelayExpires(w) => Tidy /\ Keeps
  <2> DEFINE d == [delayed |-> works.delayed \ {w}, queue |-> Append(works.queue, w)]
  <2>1. ASSUME w \in works.delayed
        PROVE  d \in WorkLists /\ Once(d) /\ \A v : PendingIn(d, v) <=> PendingIn(works, v)
    BY <1>1, <2>1, ExpireIs
  <2>2. DelayExpires(w) => w \in works.delayed /\ works' = d
    BY DEF DelayExpires
  <2> HIDE DEF d
  <2> QED
    BY <2>1, <2>2 DEF Tidy, Keeps
<1> QED
  BY <1>2, <1>3, <1>4, <1>5, <1>6, <1>7

(* The handlers that queue works and take others back.                     *)
LEMMA DoubleEffects ==
    ASSUME Inv
    PROVE  /\ works' = QueueWork(QueueDelayedWork(works, "procedure"), "linkchange")
                 => Tidy /\ \A v : PendingIn(works', v) <=> PendingIn(works, v) \/ v \in {"procedure", "linkchange"}
           /\ works' = QueueDelayedWork(CancelWork(works, "scan"), "retry")
                 => Tidy /\ \A v : PendingIn(works', v) <=> (PendingIn(works, v) /\ v # "scan") \/ v = "retry"
           /\ works' = QueueWork(CancelWork(works, "scan"), "linkchange")
                 => Tidy /\ \A v : PendingIn(works', v) <=> (PendingIn(works, v) /\ v # "scan") \/ v = "linkchange"
           /\ works' = CancelWork(CancelWork(works, "retry"), "linkchange")
                 => Tidy /\ \A v : PendingIn(works', v) <=> PendingIn(works, v) /\ v \notin {"retry", "linkchange"}
           /\ Dispatch("scan") /\ works' = QueueDelayedWork(Dequeued, "scan")
                 => Tidy /\ Keeps /\ PendingIn(works, "scan")
<1>1. works \in WorkLists /\ Once(works)
  BY DEF Inv, TypeOK
<1>2. {"procedure", "linkchange", "scan", "retry"} \subseteq Works
  BY DEF Works
<1>3. works' = QueueWork(QueueDelayedWork(works, "procedure"), "linkchange")
        => Tidy /\ \A v : PendingIn(works', v) <=> PendingIn(works, v) \/ v \in {"procedure", "linkchange"}
  <2> DEFINE m == QueueDelayedWork(works, "procedure")
  <2>1. m \in WorkLists /\ Once(m) /\ \A v : PendingIn(m, v) <=> PendingIn(works, v) \/ v = "procedure"
    BY <1>1, <1>2, QueueDelayedWorkIs
  <2> HIDE DEF m
  <2>2. /\ QueueWork(m, "linkchange") \in WorkLists /\ Once(QueueWork(m, "linkchange"))
        /\ \A v : PendingIn(QueueWork(m, "linkchange"), v) <=> PendingIn(m, v) \/ v = "linkchange"
    BY <2>1, <1>2, QueueWorkIs
  <2> QED
    BY <2>1, <2>2 DEF Tidy, m
<1>4. ASSUME NEW n \in {QueueDelayedWork(CancelWork(works, "scan"), "retry")}
      PROVE  /\ n \in WorkLists /\ Once(n)
             /\ \A v : PendingIn(n, v) <=> (PendingIn(works, v) /\ v # "scan") \/ v = "retry"
  <2> DEFINE m == CancelWork(works, "scan")
  <2>1. m \in WorkLists /\ Once(m) /\ \A v : PendingIn(m, v) <=> PendingIn(works, v) /\ v # "scan"
    BY <1>1, <1>2, CancelWorkIs
  <2>2. n = QueueDelayedWork(m, "retry")
    BY <1>4
  <2> HIDE DEF m
  <2> QED
    BY <2>1, <2>2, <1>2, QueueDelayedWorkIs
<1>5. ASSUME NEW n \in {QueueWork(CancelWork(works, "scan"), "linkchange")}
      PROVE  /\ n \in WorkLists /\ Once(n)
             /\ \A v : PendingIn(n, v) <=> (PendingIn(works, v) /\ v # "scan") \/ v = "linkchange"
  <2> DEFINE m == CancelWork(works, "scan")
  <2>1. m \in WorkLists /\ Once(m) /\ \A v : PendingIn(m, v) <=> PendingIn(works, v) /\ v # "scan"
    BY <1>1, <1>2, CancelWorkIs
  <2>2. n = QueueWork(m, "linkchange")
    BY <1>5
  <2> HIDE DEF m
  <2> QED
    BY <2>1, <2>2, <1>2, QueueWorkIs
<1>6. ASSUME NEW n \in {CancelWork(CancelWork(works, "retry"), "linkchange")}
      PROVE  /\ n \in WorkLists /\ Once(n)
             /\ \A v : PendingIn(n, v) <=> PendingIn(works, v) /\ v \notin {"retry", "linkchange"}
  <2> DEFINE m == CancelWork(works, "retry")
  <2>1. m \in WorkLists /\ Once(m) /\ \A v : PendingIn(m, v) <=> PendingIn(works, v) /\ v # "retry"
    BY <1>1, <1>2, CancelWorkIs
  <2>2. n = CancelWork(m, "linkchange")
    BY <1>6
  <2> HIDE DEF m
  <2> QED
    BY <2>1, <2>2, <1>2, CancelWorkIs
<1>7. ASSUME Dispatch("scan"), NEW n \in {QueueDelayedWork(Dequeued, "scan")}
      PROVE  /\ n \in WorkLists /\ Once(n) /\ PendingIn(works, "scan")
             /\ \A v : PendingIn(n, v) <=> PendingIn(works, v)
  <2> DEFINE m == Dequeued
  <2>1. /\ m \in WorkLists /\ Once(m) /\ PendingIn(works, "scan")
        /\ \A v : PendingIn(m, v) <=> PendingIn(works, v) /\ v # "scan"
    BY <1>1, <1>7, DequeueIs DEF Dispatch, Dequeued
  <2>2. n = QueueDelayedWork(m, "scan")
    BY <1>7
  <2> HIDE DEF m
  <2>3. /\ n \in WorkLists /\ Once(n)
        /\ \A v : PendingIn(n, v) <=> PendingIn(m, v) \/ v = "scan"
    BY <2>1, <2>2, <1>2, QueueDelayedWorkIs
  <2> QED
    BY <2>1, <2>3
<1> QED
  BY <1>3, <1>4, <1>5, <1>6, <1>7 DEF Tidy, Keeps

-----------------------------------------------------------------------------
(* Every action keeps the invariant.                                       *)

LEMMA RxBeaconKeeps ==
    ASSUME Inv, RxBeacon
    PROVE  Inv'
<1> USE DEF RxBeacon, rtllib_softmac_new_net, RxFrame, Receives
<1>1. Tidy /\ Adds("procedure")
  BY Effects DEF Works
<1>2. Flags'
  BY DEF Inv, TypeOK, Flags
<1>3. Others'
  BY <1>1, StaAssumption DEF Inv, TypeOK, Others, Tidy, States, Transient
<1>4. Always'
  BY <1>1 DEF Inv, Always, Holders, OneSurvey, Asked, Stopped, AssocTimed, SemHandedOver,
     LinkUsable, Pending, Adds
<1>5. IfNoScan'
  BY <1>1 DEF Inv, IfNoScan, NoSurvey, LinkIsReal, Pending, Adds
<1>6. IfOpen'
  BY <1>1 DEF Inv, IfOpen, Running, Unopened, Coming, ProcedureComing, Pending, Adds
<1>7. IfRestart'
  BY <1>1 DEF Inv, IfRestart, FlagKept, Pending, Adds
<1> QED
  BY <1>1, <1>2, <1>3, <1>4, <1>5, <1>6, <1>7 DEF Inv, TypeOK, Tidy, Flags, Others

LEMMA RxDeauthKeeps ==
    ASSUME Inv, RxDeauth
    PROVE  Inv'
<1> USE DEF RxDeauth, rtllib_disassociate, RxFrame, Receives
<1>1. Tidy /\ IF state = "LINKED"
               THEN \A v : PendingIn(works', v) <=> PendingIn(works, v) \/ v \in {"procedure", "linkchange"}
               ELSE Keeps
  BY Effects, DoubleEffects DEF Works
<1>2. Flags'
  BY DEF Inv, TypeOK, Flags
<1>3. Others'
  BY <1>1, StaAssumption DEF Inv, TypeOK, Others, Tidy, States
<1>4. Always'
  BY <1>1 DEF Inv, Always, Holders, OneSurvey, Asked, Stopped, AssocTimed, SemHandedOver,
     LinkUsable, Pending
<1>5. IfNoScan'
  BY <1>1 DEF Inv, IfNoScan, NoSurvey, LinkIsReal, Pending
<1>6. IfOpen'
  BY <1>1 DEF Inv, IfOpen, Running, Coming, ProcedureComing, Pending
<1>7. IfRestart'
  BY <1>1 DEF Inv, IfRestart, FlagKept, Pending
<1> QED
  BY <1>1, <1>2, <1>3, <1>4, <1>5, <1>6, <1>7 DEF Inv, TypeOK, Tidy, Flags, Others

LEMMA RxAuthKeeps ==
    ASSUME Inv, NEW answer \in {"ok", "challenge", "refused"}, NEW alloc \in BOOLEAN, RxAuth(answer, alloc)
    PROVE  Inv'
<1> USE DEF RxAuth, rtllib_associate_abort, RxFrame, Receives
<1>1. Tidy /\ IF state' = "RETRY" THEN Adds("retry") ELSE Keeps
  BY Effects DEF Works
<1>2. Flags'
  BY DEF Inv, TypeOK, Flags
<1>3. Others'
  BY <1>1, StaAssumption DEF Inv, TypeOK, Others, Tidy, States, Transient
<1>4. Always'
  BY <1>1 DEF Inv, Always, Holders, OneSurvey, Asked, Stopped, AssocTimed, SemHandedOver,
     LinkUsable, Pending, Adds
<1>5. IfNoScan'
  BY <1>1 DEF Inv, IfNoScan, NoSurvey, LinkIsReal, Pending, Adds
<1>6. IfOpen'
  BY <1>1 DEF IfOpen, Running, Coming, Pending, Adds
<1>7. IfRestart'
  BY <1>1 DEF Inv, IfRestart, FlagKept, Pending, Adds
<1> QED
  BY <1>1, <1>2, <1>3, <1>4, <1>5, <1>6, <1>7 DEF Inv, TypeOK, Tidy, Flags, Others

LEMMA RxAssocOkKeeps ==
    ASSUME Inv, NEW trouble \in {"none", "memory", "malformed"}, RxAssocOk(trouble)
    PROVE  Inv'
<1> USE DEF RxAssocOk, RxFrame, Receives
<1>1. Tidy /\ IF trouble = "none" THEN Adds("complete") ELSE Keeps
  BY Effects DEF Works
<1>2. Flags'
  BY DEF Inv, TypeOK, Flags
<1>3. Others'
  BY <1>1, StaAssumption DEF Inv, TypeOK, Others, Tidy, States
<1>4. Always'
  BY <1>1 DEF Inv, Always, Holders, OneSurvey, Asked, Stopped, AssocTimed, SemHandedOver,
     LinkUsable, Pending, Adds
<1>5. IfNoScan'
  BY <1>1 DEF Inv, IfNoScan, NoSurvey, LinkIsReal, Pending, Adds
<1>6. IfOpen'
  BY <1>1 DEF Inv, IfOpen, Running, Coming, ProcedureComing, Pending
<1>7. IfRestart'
  BY <1>1 DEF Inv, IfRestart, FlagKept, Pending, Adds
<1> QED
  BY <1>1, <1>2, <1>3, <1>4, <1>5, <1>6, <1>7 DEF Inv, TypeOK, Tidy, Flags, Others

LEMMA RxAssocRefusedKeeps ==
    ASSUME Inv, NEW why \in {"curable", "short", "other"}, RxAssocRefused(why)
    PROVE  Inv'
<1> USE DEF RxAssocRefused, AssocRefusals, rtllib_associate_abort, RxFrame, Receives
<1>1. Tidy /\ IF state' = "RETRY" THEN Adds("retry") ELSE state' = "AUTHENTICATED" /\ Adds("procedure")
  BY Effects DEF Works
<1>2. Flags'
  BY DEF Inv, TypeOK, Flags
<1>3. Others'
  BY <1>1, StaAssumption DEF Inv, TypeOK, Others, Tidy
<1>4. Always'
  BY <1>1 DEF Inv, Always, Holders, OneSurvey, Asked, Stopped, AssocTimed, SemHandedOver,
     LinkUsable, Pending, Adds
<1>5. IfNoScan'
  BY <1>1 DEF Inv, IfNoScan, NoSurvey, LinkIsReal, Pending, Adds
<1>6. IfOpen'
  BY <1>1 DEF IfOpen, Running, Coming, ProcedureComing, Pending, Adds
<1>7. IfRestart'
  BY <1>1 DEF Inv, IfRestart, FlagKept, Pending, Adds
<1> QED
  BY <1>1, <1>2, <1>3, <1>4, <1>5, <1>6, <1>7 DEF Inv, TypeOK, Tidy, Flags, Others

LEMMA AssociateTimeoutKeeps ==
    ASSUME Inv, AssociateTimeout
    PROVE  Inv'
<1> USE DEF AssociateTimeout, rtllib_associate_abort
<1>1. Tidy /\ Adds("retry")
  BY Effects DEF Works
<1>2. Flags'
  BY DEF Inv, TypeOK, Flags
<1>3. Others'
  BY <1>1, StaAssumption DEF Inv, TypeOK, Others, Tidy, States, Transient
<1>4. Always'
  BY <1>1 DEF Inv, Always, Holders, OneSurvey, Asked, Stopped, AssocTimed, SemHandedOver,
     LinkUsable, Pending, Adds
<1>5. IfNoScan'
  BY <1>1 DEF Inv, IfNoScan, NoSurvey, LinkIsReal, Pending, Adds
<1>6. IfOpen'
  BY <1>1 DEF Inv, IfOpen, Running, Unopened, Coming, Pending, Adds
<1>7. IfRestart'
  BY <1>1 DEF Inv, IfRestart, FlagKept, Pending, Adds
<1> QED
  BY <1>1, <1>2, <1>3, <1>4, <1>5, <1>6, <1>7 DEF Inv, TypeOK, Tidy, Flags, Others

LEMMA DelayExpiresKeeps ==
    ASSUME Inv, NEW w \in Works, DelayExpires(w)
    PROVE  Inv'
<1> USE DEF DelayExpires
<1>1. Tidy /\ Keeps
  BY Effects
<1>2. Flags'
  BY DEF Inv, TypeOK, Flags
<1>3. Others'
  BY <1>1, StaAssumption DEF Inv, TypeOK, Others, Tidy
<1>4. Always'
  BY <1>1 DEF Inv, Always, Holders, OneSurvey, Asked, Stopped, AssocTimed, SemHandedOver,
     LinkUsable, Pending, Keeps
<1>5. IfNoScan'
  BY <1>1 DEF Inv, IfNoScan, NoSurvey, LinkIsReal, Pending, Keeps
<1>6. IfOpen'
  BY <1>1 DEF Inv, IfOpen, Running, Unopened, Coming, ProcedureComing, Pending, Keeps
<1>7. IfRestart'
  BY <1>1 DEF Inv, IfRestart, FlagKept, Pending, Keeps
<1> QED
  BY <1>1, <1>2, <1>3, <1>4, <1>5, <1>6, <1>7 DEF Inv, TypeOK, Tidy, Flags, Others

LEMMA StartProcedureKeeps ==
    ASSUME Inv, StartProcedure
    PROVE  Inv'
<1> USE DEF StartProcedure, Dispatch, WorkerOnly, rtl8192_link_change
<1>1. Tidy /\ Drops("procedure") /\ PendingIn(works, "procedure")
  BY Effects DEF Works
<1>2. Flags'
  BY DEF Inv, TypeOK, Flags
<1>3. Others'
  BY <1>1, StaAssumption DEF Inv, TypeOK, Others, Tidy, WorkerPcs
<1>4. Always'
  BY <1>1 DEF Inv, Always, Holders, OneSurvey, Asked, Stopped, AssocTimed, SemHandedOver,
     LinkUsable, UnderSem, Surveys, Pending, Drops
<1>5. IfNoScan'
  BY <1>1 DEF Inv, IfNoScan, NoSurvey, LinkIsReal, Surveys, Pending, Drops
<1>6. IfOpen'
  BY <1>1 DEF Inv, IfOpen, Running, Unopened, Coming, ProcedureComing, Pending
<1>7. IfRestart'
  BY <1>1 DEF Inv, IfRestart, FlagKept, Pending, Drops
<1> QED
  BY <1>1, <1>2, <1>3, <1>4, <1>5, <1>6, <1>7 DEF Inv, TypeOK, Tidy, Flags, Others

LEMMA StartRetryKeeps ==
    ASSUME Inv, StartRetry
    PROVE  Inv'
<1> USE DEF StartRetry, Dispatch, WorkerOnly, rtl8192_link_change
<1>1. Tidy /\ Drops("retry") /\ PendingIn(works, "retry")
  BY Effects DEF Works
<1>2. Flags'
  BY DEF Inv, TypeOK, Flags
<1>3. Others'
  BY <1>1, StaAssumption DEF Inv, TypeOK, Others, Tidy, WorkerPcs
<1>4. Always'
  BY <1>1 DEF Inv, Always, Holders, OneSurvey, Asked, Stopped, AssocTimed, SemHandedOver,
     LinkUsable, UnderSem, Surveys, Pending, Drops
<1>5. IfNoScan'
  BY <1>1 DEF Inv, IfNoScan, NoSurvey, LinkIsReal, Surveys, Pending, Drops
<1>6. IfOpen'
  BY <1>1 DEF Inv, IfOpen, Running, Unopened, Coming, ProcedureComing, Pending, Drops
<1>7. IfRestart'
  BY <1>1 DEF Inv, IfRestart, FlagKept, Pending, Drops
<1> QED
  BY <1>1, <1>2, <1>3, <1>4, <1>5, <1>6, <1>7 DEF Inv, TypeOK, Tidy, Flags, Others

LEMMA CompleteKeeps ==
    ASSUME Inv, rtllib_associate_complete_wq
    PROVE  Inv'
<1> USE DEF rtllib_associate_complete_wq, Dispatch, WorkerOnly, rtl8192_link_change
<1>1. Tidy /\ Drops("complete") /\ PendingIn(works, "complete")
  BY Effects DEF Works
<1>2. Flags'
  BY DEF Inv, TypeOK, Flags
<1>3. Others'
  BY <1>1, StaAssumption DEF Inv, TypeOK, Others, Tidy
<1>4. Always'
  BY <1>1 DEF Inv, Always, Holders, OneSurvey, Asked, Stopped, AssocTimed, SemHandedOver,
     LinkUsable, Pending, Drops
<1>5. IfNoScan'
  BY <1>1 DEF Inv, IfNoScan, NoSurvey, LinkIsReal, Pending, Drops
<1>6. IfOpen'
  BY <1>1 DEF Inv, IfOpen, Running, Unopened, Coming, ProcedureComing, Pending, Drops
<1>7. IfRestart'
  BY <1>1 DEF Inv, IfRestart, FlagKept, Pending, Drops
<1> QED
  BY <1>1, <1>2, <1>3, <1>4, <1>5, <1>6, <1>7 DEF Inv, TypeOK, Tidy, Flags, Others

LEMMA LinkChangeKeeps ==
    ASSUME Inv, rtllib_link_change_wq
    PROVE  Inv'
<1> USE DEF rtllib_link_change_wq, Dispatch, WorkerOnly, rtl8192_link_change
<1>1. Tidy /\ Drops("linkchange") /\ PendingIn(works, "linkchange")
  BY Effects DEF Works
<1>2. Flags'
  BY DEF Inv, TypeOK, Flags
<1>3. Others'
  BY <1>1, StaAssumption DEF Inv, TypeOK, Others, Tidy
<1>4. Always'
  BY <1>1 DEF Inv, Always, Holders, OneSurvey, Asked, Stopped, AssocTimed, SemHandedOver,
     LinkUsable, Pending, Drops
<1>5. IfNoScan'
  BY <1>1 DEF Inv, IfNoScan, NoSurvey, LinkIsReal, Pending, Drops
<1>6. IfOpen'
  BY <1>1 DEF Inv, IfOpen, Running, Unopened, Coming, ProcedureComing, Pending, Drops
<1>7. IfRestart'
  BY <1>1 DEF Inv, IfRestart, FlagKept, Pending, Drops
<1> QED
  BY <1>1, <1>2, <1>3, <1>4, <1>5, <1>6, <1>7 DEF Inv, TypeOK, Tidy, Flags, Others

LEMMA SurveyStartsKeeps ==
    ASSUME Inv, SurveyStarts
    PROVE  Inv'
<1> USE DEF SurveyStarts, Dispatch, WorkerOnly, rtl8192_link_change
<1>1. Tidy /\ Drops("survey") /\ PendingIn(works, "survey")
  BY Effects DEF Works
<1>2. Flags'
  BY DEF Inv, TypeOK, Flags
<1>3. Others'
  BY <1>1, StaAssumption DEF Inv, TypeOK, Others, Tidy, States, WorkerPcs, Scans
<1>4. Always'
  BY <1>1 DEF Inv, Always, Holders, OneSurvey, Asked, Stopped, AssocTimed, SemHandedOver,
     LinkUsable, UnderSem, Pending, Drops
<1>5. IfNoScan'
  BY <1>1 DEF Inv, IfNoScan, NoSurvey, Pending
<1>6. IfOpen'
  BY <1>1 DEF Inv, IfOpen, Running, Unopened, Coming, Pending
<1>7. IfRestart'
  BY <1>1 DEF Inv, IfNoScan, NoSurvey, IfRestart, Pending
<1> QED
  BY <1>1, <1>2, <1>3, <1>4, <1>5, <1>6, <1>7 DEF Inv, TypeOK, Tidy, Flags, Others

LEMMA ScanWorkKeeps ==
    ASSUME Inv, NEW last \in BOOLEAN, rtllib_softmac_scan_wq(last)
    PROVE  Inv'
<1> USE DEF rtllib_softmac_scan_wq, Dispatch, WorkerOnly
<1>1. Tidy /\ PendingIn(works, "scan")
      /\ \/ Drops("scan") /\ (~up \/ scan.sync) /\ scan' = scan
         \/ Drops("scan") /\ scan' = [scan EXCEPT !.flag = FALSE]
         \/ Keeps /\ scan' = scan
  BY Effects, DoubleEffects DEF Works
<1>2. Flags'
  BY DEF Inv, TypeOK, Flags
<1>3. (scan \in Scans)'
  BY DEF Inv, TypeOK, Scans
<1>4. Others'
  BY <1>1, <1>3, StaAssumption DEF Inv, TypeOK, Others, Tidy
<1>5. Always'
  BY <1>1 DEF Inv, Always, Holders, OneSurvey, Asked, Stopped, AssocTimed, SemHandedOver,
     LinkUsable, Pending, Keeps, Drops
<1>6. IfNoScan'
  BY <1>1 DEF Inv, IfNoScan, NoSurvey, LinkIsReal, Pending, Keeps, Drops
<1>7. IfOpen'
  BY <1>1 DEF Inv, IfOpen, Running, Unopened, Coming, ProcedureComing, Pending, Keeps, Drops
<1>8. IfRestart'
  BY <1>1 DEF Inv, TypeOK, Scans, IfOpen, Running, Unopened, IfRestart, FlagKept, Pending, Keeps
<1> QED
  BY <1>1, <1>2, <1>4, <1>5, <1>6, <1>7, <1>8 DEF Inv, TypeOK, Tidy, Flags, Others

LEMMA ProcedureKeeps ==
    ASSUME Inv, NEW alloc \in BOOLEAN, rtllib_associate_procedure_wq(alloc)
    PROVE  Inv'
<1> USE DEF rtllib_associate_procedure_wq, WorkerOnly
<1>1. Tidy /\ \A v : PendingIn(works', v)
               <=> (PendingIn(works, v) /\ ~(v = "scan" /\ scan.flag)) \/ (~alloc /\ v = "retry")
  BY Effects, DoubleEffects DEF rtllib_softmac_stop_scan, Works, Adds, Drops
<1>2. Flags'
  BY DEF Inv, TypeOK, Flags
<1>3. Others'
  BY <1>1, StaAssumption DEF Inv, TypeOK, Others, Tidy, States, Transient, WorkerPcs, Scans
<1>4. Always'
  BY <1>1 DEF Inv, Always, Holders, OneSurvey, Asked, Stopped, AssocTimed, SemHandedOver,
     LinkUsable, UnderSem, Pending
<1>5. IfNoScan'
  BY <1>1 DEF Inv, IfNoScan, NoSurvey, LinkIsReal, Surveys, Pending
<1>6. IfOpen'
  BY <1>1 DEF Inv, IfOpen, Running, Unopened, Coming, Pending
<1>7. IfRestart'
  BY <1>1 DEF Inv, IfRestart, FlagKept
<1> QED
  BY <1>1, <1>2, <1>3, <1>4, <1>5, <1>6, <1>7 DEF Inv, TypeOK, Tidy, Flags, Others

LEMMA Step1StartsTimerKeeps ==
    ASSUME Inv, Step1StartsTimer
    PROVE  Inv'
<1> USE DEF Step1StartsTimer, WorkerOnly, rtl8192_link_change
<1>1. Tidy /\ Keeps
  BY Effects DEF Works
<1>2. Flags'
  BY DEF Inv, TypeOK, Flags
<1>3. Others'
  BY <1>1, StaAssumption DEF Inv, TypeOK, Others, WorkerPcs
<1>4. Always'
  BY <1>1 DEF Inv, Always, Holders, OneSurvey, Asked, Stopped, AssocTimed, SemHandedOver,
     LinkUsable, UnderSem, Pending
<1>5. IfNoScan'
  BY <1>1 DEF Inv, IfNoScan, NoSurvey, LinkIsReal, Surveys, Pending
<1>6. IfOpen'
  BY <1>1 DEF Inv, IfOpen, Running, Unopened, Coming, ProcedureComing, Pending
<1>7. IfRestart'
  BY <1>1 DEF Inv, IfRestart, FlagKept, Pending
<1> QED
  BY <1>1, <1>2, <1>3, <1>4, <1>5, <1>6, <1>7 DEF Inv, TypeOK, Tidy, Flags, Others

LEMMA RetryLooksKeeps ==
    ASSUME Inv, RetryLooks
    PROVE  Inv'
<1> USE DEF RetryLooks, WorkerOnly, rtl8192_link_change
<1>1. Tidy /\ Keeps
  BY Effects DEF Works
<1>2. Flags'
  BY DEF Inv, TypeOK, Flags
<1>3. Others'
  BY <1>1, StaAssumption DEF Inv, TypeOK, Others, States, WorkerPcs
<1>4. Always'
  BY <1>1 DEF Inv, Always, Holders, OneSurvey, Asked, Stopped, AssocTimed, SemHandedOver,
     LinkUsable, UnderSem, Pending
<1>5. IfNoScan'
  BY <1>1 DEF Inv, IfNoScan, NoSurvey, LinkIsReal, Surveys, Pending
<1>6. IfOpen'
  BY <1>1 DEF Inv, Always, Holders, UnderSem, UserUnderSem, IfOpen, Running, Unopened, Coming,
     ProcedureComing, Pending
<1>7. IfRestart'
  BY <1>1 DEF Inv, IfRestart, FlagKept, Pending
<1> QED
  BY <1>1, <1>2, <1>3, <1>4, <1>5, <1>6, <1>7 DEF Inv, TypeOK, Tidy, Flags, Others

LEMMA SurveyScansKeeps ==
    ASSUME Inv, SurveyScans
    PROVE  Inv'
<1> USE DEF SurveyScans, WorkerOnly, rtl8192_link_change
<1>1. Tidy /\ Keeps
  BY Effects DEF Works
<1>2. Flags'
  BY DEF Inv, TypeOK, Flags
<1>3. Others'
  BY <1>1, StaAssumption DEF Inv, TypeOK, Others, WorkerPcs, Scans
<1>4. Always'
  BY <1>1 DEF Inv, Always, Holders, OneSurvey, Asked, Stopped, AssocTimed, SemHandedOver,
     LinkUsable, UnderSem, Surveys, Pending
<1>5. IfNoScan'
  BY <1>1 DEF Inv, IfNoScan, NoSurvey, Surveys
<1>6. IfOpen'
  BY <1>1 DEF Inv, IfOpen, Running, Unopened, Coming, ProcedureComing, Pending
<1>7. IfRestart'
  BY <1>1 DEF Inv, IfNoScan, NoSurvey, Surveys, IfRestart
<1> QED
  BY <1>1, <1>2, <1>3, <1>4, <1>5, <1>6, <1>7 DEF Inv, TypeOK, Tidy, Flags, Others

LEMMA SurveyEndsKeeps ==
    ASSUME Inv, SurveyEnds
    PROVE  Inv'
<1> USE DEF SurveyEnds, WorkerOnly, rtl8192_link_change
<1>1. Tidy /\ Keeps
  BY Effects DEF Works
<1>2. Flags'
  BY DEF Inv, TypeOK, Flags
<1>3. Others'
  BY <1>1, StaAssumption DEF Inv, TypeOK, Others, States, WorkerPcs, Scans
<1>4. Always'
  BY <1>1 DEF Inv, Always, Holders, OneSurvey, Asked, Stopped, AssocTimed, SemHandedOver,
     LinkUsable, UnderSem, Surveys, Pending
<1>5. IfNoScan'
  BY <1>1 DEF Inv, IfNoScan, NoSurvey, Surveys
<1>6. IfOpen'
  BY <1>1 DEF Inv, IfOpen, Running, Unopened, Coming
<1>7. IfRestart'
  BY <1>1 DEF Inv, IfRestart, FlagKept, Pending
<1> QED
  BY <1>1, <1>2, <1>3, <1>4, <1>5, <1>6, <1>7 DEF Inv, TypeOK, Tidy, Flags, Others

LEMMA RetryChecksNetsKeeps ==
    ASSUME Inv, RetryChecksNets
    PROVE  Inv'
<1> USE DEF RetryChecksNets, rtllib_softmac_check_all_nets, rtllib_softmac_new_net, WorkerOnly
<1>1. Tidy /\ IF state' = state /\ works' = works THEN Keeps ELSE state' = "ASSOCIATING" /\ Adds("procedure")
  BY Effects DEF Works
<1>2. Flags'
  BY DEF Inv, TypeOK, Flags
<1>3. Others'
  BY <1>1, StaAssumption DEF Inv, TypeOK, Others, Tidy, States, Transient, WorkerPcs
<1>4. Always'
  BY <1>1 DEF Inv, Always, Holders, OneSurvey, Asked, Stopped, AssocTimed, SemHandedOver,
     LinkUsable, UnderSem, Pending, Adds
<1>5. IfNoScan'
  BY <1>1 DEF Inv, IfNoScan, NoSurvey, LinkIsReal, Surveys, Pending, Adds
<1>6. IfOpen'
  BY <1>1 DEF Inv, IfOpen, Running, Unopened, Coming, ProcedureComing, Pending, Adds
<1>7. IfRestart'
  BY <1>1 DEF Inv, IfRestart, FlagKept, Pending, Adds
<1> QED
  BY <1>1, <1>2, <1>3, <1>4, <1>5, <1>6, <1>7 DEF Inv, TypeOK, Tidy, Flags, Others

LEMMA RetryScansKeeps ==
    ASSUME Inv, RetryScans
    PROVE  Inv'
<1> USE DEF RetryScans, StartScanUnlessLinking, WorkerOnly
<1>1. Tidy /\ IF scan' = scan THEN Keeps ELSE Adds("scan")
  BY Effects DEF Works, Inv, TypeOK, Scans
<1>2. Flags'
  BY DEF Inv, TypeOK, Flags
<1>3. Others'
  BY <1>1, StaAssumption DEF Inv, TypeOK, Others, Tidy, WorkerPcs, Scans
<1>4. Always'
  BY <1>1 DEF Inv, Always, Holders, OneSurvey, Asked, Stopped, AssocTimed, SemHandedOver,
     LinkUsable, UnderSem, Pending, Keeps, Adds
<1>5. IfNoScan'
  BY <1>1 DEF Inv, IfNoScan, NoSurvey, LinkIsReal, Surveys, Pending, Keeps, Adds
<1>6. IfOpen'
  BY <1>1 DEF Inv, IfOpen, Running, Unopened, Coming, ProcedureComing, Pending
<1>7. IfRestart'
  BY <1>1 DEF Inv, TypeOK, Scans, IfRestart, FlagKept, Pending, Adds
<1> QED
  BY <1>1, <1>2, <1>3, <1>4, <1>5, <1>6, <1>7 DEF Inv, TypeOK, Tidy, Flags, Others

LEMMA WorkerTakesSemKeeps ==
    ASSUME Inv, NEW from \in {"procedure", "retry"}, WorkerTakesSem(from, IF from = "retry" THEN "again" ELSE "stopscan")
    PROVE  Inv'
<1> USE DEF WorkerTakesSem, WorkerOnly
<1>1. Tidy /\ Keeps
  BY Effects DEF Works
<1>2. Flags'
  BY DEF Inv, TypeOK, Flags
<1>3. Others'
  BY <1>1, StaAssumption DEF Inv, TypeOK, Others, WorkerPcs
<1>4. Always'
  BY <1>1 DEF Inv, Always, Holders, OneSurvey, Asked, Stopped, AssocTimed, SemHandedOver,
     LinkUsable, UnderSem, Pending
<1>5. IfNoScan'
  BY <1>1 DEF Inv, IfNoScan, NoSurvey, LinkIsReal, Surveys, Pending
<1>6. IfOpen'
  BY <1>1 DEF Inv, IfOpen, Running, Unopened, Coming, ProcedureComing, Pending
<1>7. IfRestart'
  BY <1>1 DEF Inv, IfRestart, FlagKept, Pending
<1> QED
  BY <1>1, <1>2, <1>3, <1>4, <1>5, <1>6, <1>7 DEF Inv, TypeOK, Tidy, Flags, Others

LEMMA WatchdogMissesBeaconsKeeps ==
    ASSUME Inv, WatchdogMissesBeacons
    PROVE  Inv'
<1> USE DEF WatchdogMissesBeacons, WatchdogOnly, rtl8192_link_change
<1>1. Tidy /\ Keeps
  BY Effects DEF Works
<1>2. Flags'
  BY DEF Inv, TypeOK, Flags
<1>3. Others'
  BY <1>1, StaAssumption DEF Inv, TypeOK, Others
<1>4. Always'
  BY <1>1 DEF Inv, Always, Holders, OneSurvey, Asked, Stopped, AssocTimed, SemHandedOver,
     LinkUsable, Pending
<1>5. IfNoScan'
  BY <1>1 DEF Inv, IfNoScan, NoSurvey, LinkIsReal, Pending
<1>6. IfOpen'
  BY <1>1 DEF Inv, IfOpen, Running, Unopened, Coming
<1>7. IfRestart'
  BY <1>1 DEF Inv, IfRestart, FlagKept, Pending
<1> QED
  BY <1>1, <1>2, <1>3, <1>4, <1>5, <1>6, <1>7 DEF Inv, TypeOK, Tidy, Flags, Others

LEMMA WatchdogEndsLinkKeeps ==
    ASSUME Inv, WatchdogEndsLink
    PROVE  Inv'
<1> USE DEF WatchdogEndsLink, WatchdogOnly, rtl8192_link_change
<1>1. Tidy /\ Keeps
  BY Effects DEF Works
<1>2. Flags'
  BY DEF Inv, TypeOK, Flags
<1>3. Others'
  BY <1>1, StaAssumption DEF Inv, TypeOK, Others, States, Transient
<1>4. Always'
  BY <1>1 DEF Inv, Always, Holders, OneSurvey, Asked, Stopped, AssocTimed, SemHandedOver,
     LinkUsable, Pending
<1>5. IfNoScan'
  BY <1>1 DEF Inv, IfNoScan, NoSurvey, LinkIsReal, Pending
<1>6. IfOpen'
  BY <1>1 DEF Inv, IfOpen, Running, Unopened, Coming, ProcedureComing
<1>7. IfRestart'
  BY <1>1 DEF Inv, IfRestart, FlagKept, Pending
<1> QED
  BY <1>1, <1>2, <1>3, <1>4, <1>5, <1>6, <1>7 DEF Inv, TypeOK, Tidy, Flags, Others

LEMMA WatchdogQueuesKeeps ==
    ASSUME Inv, WatchdogQueues
    PROVE  Inv'
<1> USE DEF WatchdogQueues, WatchdogOnly
<1>1. Tidy /\ Adds("procedure")
  BY Effects DEF Works
<1>2. Flags'
  BY DEF Inv, TypeOK, Flags
<1>3. Others'
  BY <1>1, StaAssumption DEF Inv, TypeOK, Others, Tidy
<1>4. Always'
  BY <1>1 DEF Inv, Always, Holders, OneSurvey, Asked, Stopped, AssocTimed, SemHandedOver,
     LinkUsable, Pending, Adds
<1>5. IfNoScan'
  BY <1>1 DEF Inv, IfNoScan, NoSurvey, LinkIsReal, Pending, Adds
<1>6. IfOpen'
  BY <1>1 DEF Inv, IfOpen, Running, Unopened, Coming, ProcedureComing, Pending, Adds
<1>7. IfRestart'
  BY <1>1 DEF Inv, IfRestart, FlagKept, Pending, Adds
<1> QED
  BY <1>1, <1>2, <1>3, <1>4, <1>5, <1>6, <1>7 DEF Inv, TypeOK, Tidy, Flags, Others

LEMMA UserCallsKeeps ==
    ASSUME Inv, NEW op \in AllUserOps \ {"scan"}, UserCalls(op)
    PROVE  Inv'
<1> USE DEF UserCalls, UserAt, UserOnly, AllUserOps
<1>1. Tidy /\ Keeps
  BY Effects DEF Works
<1>2. Flags'
  BY DEF Inv, TypeOK, Flags
<1>3. Others'
  BY <1>1, StaAssumption DEF Inv, TypeOK, Others, Users
<1>4. Always'
  BY <1>1 DEF Inv, Always, Holders, OneSurvey, Asked, Stopped, AssocTimed, SemHandedOver,
     LinkUsable, NoUser, UserUnderSem, Pending
<1>5. IfNoScan'
  BY <1>1 DEF Inv, IfNoScan, NoSurvey, LinkIsReal, Pending
<1>6. IfOpen'
  BY <1>1 DEF Inv, IfOpen, Running, Unopened, Coming, ProcedureComing, Pending
<1>7. IfRestart'
  BY <1>1 DEF Inv, IfRestart, FlagKept, Pending
<1> QED
  BY <1>1, <1>2, <1>3, <1>4, <1>5, <1>6, <1>7 DEF Inv, TypeOK, Tidy, Flags, Others

LEMMA UserCallsScanKeeps ==
    ASSUME Inv, UserCallsScan
    PROVE  Inv'
<1> USE DEF UserCallsScan, UserAt, UserGoes, UserOnly, AllUserOps
<1>1. Tidy /\ Keeps
  BY Effects DEF Works
<1>2. Flags'
  BY DEF Inv, TypeOK, Flags
<1>3. (user \in Users)'
  BY DEF Users
<1>4. (scan \in Scans)'
  BY DEF Inv, TypeOK, Scans
<1>5. Others'
  BY <1>1, <1>3, <1>4, StaAssumption DEF Inv, TypeOK, Others
<1>6. Always'
  BY <1>1 DEF Inv, Always, Holders, OneSurvey, Asked, Stopped, AssocTimed, SemHandedOver,
     LinkUsable, UserUnderSem, Pending
<1>7. IfNoScan'
  BY <1>1 DEF IfNoScan
<1>8. IfOpen'
  BY <1>1 DEF Inv, IfOpen, Running, Unopened, Coming, ProcedureComing, Pending
<1>9. IfRestart'
  BY <1>1 DEF IfRestart
<1> QED
  BY <1>1, <1>2, <1>5, <1>6, <1>7, <1>8, <1>9 DEF Inv, TypeOK, Tidy, Flags, Others

LEMMA UserScansKeeps ==
    ASSUME Inv, UserScans
    PROVE  Inv'
<1> USE DEF UserScans, UserAt, UserGoes, UserOnly, AllUserOps
<1>1. Tidy /\ Keeps
  BY Effects DEF Works
<1>2. Flags'
  BY DEF Inv, TypeOK, Flags
<1>3. (user \in Users)'
  BY DEF Inv, TypeOK, Users, NoUser
<1>4. (scan \in Scans)'
  BY DEF Inv, TypeOK, Scans
<1>5. Others'
  BY <1>1, <1>3, <1>4, StaAssumption DEF Inv, TypeOK, Others
<1>6. Always'
  BY <1>1 DEF Inv, TypeOK, Users, Always, Holders, OneSurvey, Asked, Stopped, AssocTimed,
     SemHandedOver, LinkUsable, NoUser, UserUnderSem, Pending
<1>7. IfNoScan'
  BY <1>1 DEF Inv, IfNoScan, NoSurvey, LinkIsReal, Pending
<1>8. IfOpen'
  BY <1>1 DEF Inv, IfOpen, Running, Unopened, Coming, ProcedureComing, Pending
<1>9. IfRestart'
  BY <1>1 DEF Inv, Always, Asked, IfRestart
<1> QED
  BY <1>1, <1>2, <1>5, <1>6, <1>7, <1>8, <1>9 DEF Inv, TypeOK, Tidy, Flags, Others

LEMMA UserTakesSemKeeps ==
    ASSUME Inv, UserTakesSem
    PROVE  Inv'
<1> USE DEF UserTakesSem, UserAt, UserGoes, UserOnly, AllUserOps
<1>1. Tidy /\ Keeps
  BY Effects DEF Works
<1>2. Flags'
  BY DEF Inv, TypeOK, Flags
<1>3. (user \in Users)'
  BY DEF Inv, TypeOK, Users, NoUser
<1>4. (scan \in Scans)'
  BY DEF Inv, TypeOK
<1>5. Others'
  BY <1>1, <1>3, <1>4, StaAssumption DEF Inv, TypeOK, Others
<1>6. Always'
  BY <1>1 DEF Inv, Always, Holders, OneSurvey, Asked, Stopped, AssocTimed, SemHandedOver,
     LinkUsable, NoUser, UserUnderSem, Pending
<1>7. IfNoScan'
  BY <1>1 DEF Inv, IfNoScan, NoSurvey, LinkIsReal, Pending
<1>8. IfOpen'
  BY <1>1 DEF Inv, Always, Asked, IfOpen, Running, Unopened, Coming, ProcedureComing, NoUser,
     Pending
<1>9. IfRestart'
  BY <1>1 DEF Inv, IfRestart, FlagKept, Pending
<1> QED
  BY <1>1, <1>2, <1>5, <1>6, <1>7, <1>8, <1>9 DEF Inv, TypeOK, Tidy, Flags, Others

LEMMA SetScanKeeps ==
    ASSUME Inv, rtllib_wx_set_scan
    PROVE  Inv'
<1> USE DEF rtllib_wx_set_scan, UserAt, UserGoes, UserOnly, AllUserOps
<1>1. Tidy /\ Adds("survey")
  BY Effects DEF Works
<1>2. Flags'
  BY DEF Inv, TypeOK, Flags
<1>3. Others'
  BY <1>1, StaAssumption DEF Inv, TypeOK, Others, Tidy, Users
<1>4. Always'
  BY <1>1 DEF Inv, Always, Holders, OneSurvey, Asked, Stopped, AssocTimed, SemHandedOver,
     LinkUsable, NoUser, Surveys, UserUnderSem, Pending, Adds
<1>5. IfNoScan'
  BY <1>1 DEF Inv, Always, Asked, IfNoScan
<1>6. IfOpen'
  BY <1>1 DEF Inv, IfOpen, Running, Unopened, Coming, ProcedureComing, Pending, Adds
<1>7. IfRestart'
  BY <1>1 DEF Inv, IfRestart, FlagKept, Pending, Adds
<1> QED
  BY <1>1, <1>2, <1>3, <1>4, <1>5, <1>6, <1>7 DEF Inv, TypeOK, Tidy, Flags, Others

LEMMA StopProtocolTimersKeeps ==
    ASSUME Inv, StopProtocolTimers
    PROVE  Inv'
<1> USE DEF StopProtocolTimers, UserAt, UserGoes, UserOnly, AllUserOps
<1>1. Tidy /\ \A v : PendingIn(works', v) <=> PendingIn(works, v) /\ v \notin {"retry", "linkchange"}
  BY DoubleEffects
<1>2. Flags'
  BY DEF Inv, TypeOK, Flags
<1>3. (user \in Users)'
  BY DEF Inv, TypeOK, Users, NoUser
<1>4. (scan \in Scans)'
  BY DEF Inv, TypeOK
<1>5. Others'
  BY <1>1, <1>3, <1>4, StaAssumption DEF Inv, TypeOK, Others, Tidy
<1>6. Always'
  BY <1>1 DEF Inv, Always, Holders, OneSurvey, Asked, Stopped, AssocTimed, SemHandedOver,
     LinkUsable, UserUnderSem, Pending
<1>7. IfNoScan'
  BY <1>1 DEF Inv, IfNoScan, NoSurvey, LinkIsReal, Pending
<1>8. IfOpen'
  BY <1>1 DEF Inv, IfOpen, Running, Unopened, Coming
<1>9. IfRestart'
  BY <1>1 DEF Inv, IfRestart, FlagKept, Pending
<1> QED
  BY <1>1, <1>2, <1>5, <1>6, <1>7, <1>8, <1>9 DEF Inv, TypeOK, Tidy, Flags, Others

LEMMA StopProtocolLinkKeeps ==
    ASSUME Inv, StopProtocolLink
    PROVE  Inv'
<1> USE DEF StopProtocolLink, rtllib_disassociate, UserAt, UserGoes, UserOnly, AllUserOps,
     Transient
<1>1. Tidy /\ \A v : PendingIn(works', v)
               <=> (PendingIn(works, v) /\ ~(v = "scan" /\ scan.flag)) \/ (state = "LINKED" /\ v = "linkchange")
  BY Effects, DoubleEffects DEF rtllib_softmac_stop_scan, Works, Adds, Drops
<1>2. Flags'
  BY DEF Inv, TypeOK, Flags
<1>3. (user \in Users)'
  BY DEF Inv, TypeOK, Users, NoUser
<1>4. (scan \in Scans)'
  BY DEF Inv, TypeOK, Scans
<1>5. Others'
  BY <1>1, <1>3, <1>4, StaAssumption DEF Inv, TypeOK, Others, Tidy, States
<1>6. Always'
  BY <1>1 DEF Inv, TypeOK, Users, Always, Holders, OneSurvey, Asked, Stopped, AssocTimed,
     SemHandedOver, LinkUsable, NoUser, UserUnderSem, Pending
<1>7. IfNoScan'
  BY <1>1 DEF Inv, IfNoScan, NoSurvey, LinkIsReal, Pending
<1>8. IfOpen'
  BY <1>1 DEF Inv, TypeOK, Users, Always, Asked, IfOpen, Running, Unopened, Coming, NoUser
<1>9. IfRestart'
  BY <1>1 DEF Inv, IfRestart, FlagKept
<1> QED
  BY <1>1, <1>2, <1>5, <1>6, <1>7, <1>8, <1>9 DEF Inv, TypeOK, Tidy, Flags, Others

LEMMA StartProtocolKeeps ==
    ASSUME Inv, StartProtocol
    PROVE  Inv'
<1> USE DEF StartProtocol, rtllib_softmac_check_all_nets, rtllib_softmac_new_net, UserAt,
     UserGoes, UserOnly, AllUserOps
<1>1. Tidy /\ IF state' = state /\ works' = works THEN Keeps ELSE state' = "ASSOCIATING" /\ Adds("procedure")
  BY Effects DEF Works
<1>2. Flags'
  BY DEF Inv, TypeOK, Flags
<1>3. (user \in Users)'
  BY DEF Inv, TypeOK, Users, NoUser
<1>4. (scan \in Scans)'
  BY DEF Inv, TypeOK
<1>5. Others'
  BY <1>1, <1>3, <1>4, StaAssumption DEF Inv, TypeOK, Others, Tidy, States, Transient
<1>6. Always'
  BY <1>1 DEF Inv, Always, Holders, OneSurvey, Asked, Stopped, AssocTimed, SemHandedOver,
     LinkUsable, UserUnderSem, Pending, Adds
<1>7. IfNoScan'
  BY <1>1 DEF Inv, IfNoScan, NoSurvey, LinkIsReal, Pending, Adds
<1>8. IfOpen'
  BY <1>1 DEF Inv, IfOpen, Running, Unopened, Coming, ProcedureComing, Pending, Adds
<1>9. IfRestart'
  BY <1>1 DEF Inv, IfRestart, FlagKept, Pending, Adds
<1> QED
  BY <1>1, <1>2, <1>5, <1>6, <1>7, <1>8, <1>9 DEF Inv, TypeOK, Tidy, Flags, Others

LEMMA StartBssScansKeeps ==
    ASSUME Inv, StartBssScans
    PROVE  Inv'
<1> USE DEF StartBssScans, StartScanUnlessLinking, UserAt, UserGoes, UserOnly, AllUserOps
<1>1. Tidy /\ IF scan' = scan THEN Keeps ELSE Adds("scan")
  BY Effects DEF Works, Inv, TypeOK, Scans
<1>2. Flags'
  BY DEF Inv, TypeOK, Flags
<1>3. (user \in Users)'
  BY DEF Users
<1>4. (scan \in Scans)'
  BY DEF Inv, TypeOK, Scans
<1>5. Others'
  BY <1>1, <1>3, <1>4, StaAssumption DEF Inv, TypeOK, Others, Tidy
<1>6. Always'
  BY <1>1 DEF Inv, Always, Holders, OneSurvey, Asked, Stopped, AssocTimed, SemHandedOver,
     LinkUsable, NoUser, UserUnderSem, Pending, Keeps, Adds
<1>7. IfNoScan'
  BY <1>1 DEF Inv, IfNoScan, NoSurvey, LinkIsReal, Pending, Keeps, Adds
<1>8. IfOpen'
  BY <1>1 DEF Inv, IfOpen, Running, Unopened, Coming, ProcedureComing, Pending
<1>9. IfRestart'
  BY <1>1 DEF Inv, TypeOK, Scans, IfRestart, FlagKept, Pending, Adds
<1> QED
  BY <1>1, <1>2, <1>5, <1>6, <1>7, <1>8, <1>9 DEF Inv, TypeOK, Tidy, Flags, Others

-----------------------------------------------------------------------------
(* The theorems.                                                           *)

LEMMA StepInv == Inv /\ [Next]_vars => Inv'
<1> SUFFICES ASSUME Inv, [Next]_vars PROVE Inv'
  OBVIOUS
<1>1. CASE Rx
  BY <1>1, RxBeaconKeeps, RxDeauthKeeps, RxAuthKeeps, RxAssocOkKeeps, RxAssocRefusedKeeps DEF Rx
<1>2. CASE AssociateTimeout \/ \E w \in Works : DelayExpires(w)
  BY <1>2, AssociateTimeoutKeeps, DelayExpiresKeeps
<1>3. CASE WorkerStep
  BY <1>3, StartProcedureKeeps, StartRetryKeeps, SurveyStartsKeeps, ProcedureKeeps, Step1StartsTimerKeeps,
     RetryLooksKeeps, RetryChecksNetsKeeps, RetryScansKeeps, CompleteKeeps, LinkChangeKeeps, ScanWorkKeeps,
     SurveyScansKeeps, SurveyEndsKeeps DEF WorkerStep
<1>4. CASE WorkerSem
  BY <1>4, WorkerTakesSemKeeps DEF WorkerSem
<1>5. CASE WatchdogMissesBeacons \/ WatchdogStep
  BY <1>5, WatchdogMissesBeaconsKeeps, WatchdogEndsLinkKeeps, WatchdogQueuesKeeps DEF WatchdogStep
<1>6. CASE (\E op \in AllUserOps \ {"scan"} : UserCalls(op)) \/ UserCallsScan \/ UserTakesSem
  BY <1>6, UserCallsKeeps, UserCallsScanKeeps, UserTakesSemKeeps
<1>7. CASE UserStep
  BY <1>7, UserScansKeeps, SetScanKeeps, StopProtocolTimersKeeps, StopProtocolLinkKeeps, StartProtocolKeeps,
     StartBssScansKeeps DEF UserStep
<1>8. CASE UNCHANGED vars
  BY <1>8 DEF vars, Inv, TypeOK, Once, Always, Holders, OneSurvey, Asked, Stopped, AssocTimed, SemHandedOver,
     LinkUsable, IfNoScan, NoSurvey, LinkIsReal, IfOpen, Running, Unopened, Coming, ProcedureComing, IfRestart,
     FlagKept, Pending
<1> QED
  BY <1>1, <1>2, <1>3, <1>4, <1>5, <1>6, <1>7, <1>8 DEF Next

LEMMA InvHolds == Spec => []Inv
<1> QED
  BY InitInv, StepInv, PTL DEF Spec

(* Whatever the user does and however the access point answers, the        *)
(* semaphore that rtllib_wx_set_scan takes and does not release is always  *)
(* a site survey's: queued or running, and one of them.                    *)
THEOREM SemIsTheSurveys == Spec => []SurveyOwnsSem
<1>1. Inv => SurveyOwnsSem
  BY DEF Inv, Always, SurveyOwnsSem
<1> QED
  BY <1>1, InvHolds, PTL

(* A station that is LINKED can send, or is about to, or the associate     *)
(* timer ends the link that an answer it could not parse has left          *)
(* (rtllib_rx_frame_softmac, rtllib_associate_complete_wq).                *)
THEOREM LinksAreUsable == Spec => []LinkUsable
<1>1. Inv => LinkUsable
  BY DEF Inv, Always
<1> QED
  BY <1>1, InvHolds, PTL

(* Without site surveys, LINKED means that the access point has accepted   *)
(* this station and has not ended that since, the interface going down and *)
(* up included (rtllib_rx_frame_softmac, rtllib_stop_protocol).            *)
THEOREM LinksAreReal ==
    ASSUME "scan" \notin UserOps
    PROVE  Spec => []LinkIsReal
<1>1. Inv => LinkIsReal
  BY DEF Inv, IfNoScan
<1> QED
  BY <1>1, InvHolds, PTL

(* On an interface that stays up, whatever restarts and surveys the user   *)
(* asks for, every stage of joining has something pending that will leave  *)
(* it (rtllib_associate_abort, rtllib_associate_procedure_wq).             *)
THEOREM NothingIsForgotten ==
    ASSUME UserOps \subseteq {"restart", "scan"}
    PROVE  Spec => []NothingForgotten
<1>1. Inv => NothingForgotten
  BY DEF Inv, Always, Stopped, IfOpen, Coming, NothingForgotten
<1> QED
  BY <1>1, InvHolds, PTL

(* With restarts only, where rtllib_associate_retry_wq and rtllib_start_bss *)
(* mean to start a background scan, its work is pending afterwards.         *)
THEOREM ScansStart ==
    ASSUME UserOps \subseteq {"restart"}
    PROVE  Spec => ScanStarts
<1>1. ASSUME Inv, RetryScans \/ StartBssScans, state = "NOLINK"
      PROVE  PendingIn(works', "scan")
  <2>1. "scan" \in Works
    BY DEF Works
  <2>2. CASE scan.flag
    BY <1>1, <2>2 DEF Inv, IfRestart, FlagKept, Pending, RetryScans, StartBssScans, StartScanUnlessLinking
  <2>3. CASE ~scan.flag
    BY <1>1, <2>1, <2>3, Effects DEF RetryScans, StartBssScans, StartScanUnlessLinking, Adds
  <2> QED
    BY <2>2, <2>3
<1>2. Inv /\ [Next]_vars
        => [(RetryScans \/ StartBssScans) /\ state = "NOLINK" => PendingIn(works', "scan")]_vars
  BY <1>1
<1> QED
  BY <1>2, InvHolds, PTL DEF Spec, ScanStarts
=============================================================================
