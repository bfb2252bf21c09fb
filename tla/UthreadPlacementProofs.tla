----------------------- MODULE UthreadPlacementProofs -----------------------
(***************************************************************************)
(* No coroutine is in two places, none is used after it was freed, and the *)
(* joins keep their links, whatever the program and the system below do:   *)
(* closed fds, hang-ups, timeouts and failed allocations included.  Only a *)
(* signal in the middle of uthread_join or _register_event ends that, and  *)
(* only by waking a coroutine that it has put into the ready queue.        *)
(***************************************************************************)
EXTENDS UthreadProofs

-----------------------------------------------------------------------------
(* The ready queue *)

(* What TAILQ_INSERT_TAIL and TAILQ_REMOVE of the head do to its members. *)
LEMMA Enqueue ==
    ASSUME ready \in Seq(Ut), NEW x \in Ut, ready' = Append(ready, x)
    PROVE  /\ \A u : InReady(u)' <=> (InReady(u) \/ u = x)
           /\ /\ \A i, j \in 1..Len(ready) : ready[i] = ready[j] => i = j
              /\ ~ InReady(x)
              => \A i, j \in 1..Len(ready') : ready'[i] = ready'[j] => i = j
<1>1. /\ Len(ready') = Len(ready) + 1 /\ Len(ready) \in Nat
      /\ ready'[Len(ready) + 1] = x
      /\ \A i \in 1..Len(ready) : ready'[i] = ready[i]
  OBVIOUS
<1>2. \A u : InReady(u)' <=> (InReady(u) \/ u = x)
  BY <1>1 DEF InReady
<1>3. ASSUME \A i, j \in 1..Len(ready) : ready[i] = ready[j] => i = j,
             ~ InReady(x)
      PROVE  \A i, j \in 1..Len(ready') : ready'[i] = ready'[j] => i = j
  BY <1>1, <1>3 DEF InReady
<1>. QED
  BY <1>2, <1>3

LEMMA Dequeue ==
    ASSUME ready \in Seq(Ut), ready # <<>>, ready' = Tail(ready),
           \A i, j \in 1..Len(ready) : ready[i] = ready[j] => i = j
    PROVE  /\ \A u : InReady(u)' <=> (InReady(u) /\ u # Head(ready))
           /\ InReady(Head(ready)) /\ Head(ready) \in Ut
           /\ \A i, j \in 1..Len(ready') : ready'[i] = ready'[j] => i = j
<1>1. /\ Len(ready) \in Nat \ {0} /\ Len(ready') = Len(ready) - 1
      /\ Head(ready) = ready[1] /\ Head(ready) \in Ut
      /\ \A i \in 1..(Len(ready) - 1) : ready'[i] = ready[i + 1]
  OBVIOUS
<1>2. ASSUME NEW u PROVE InReady(u)' <=> (InReady(u) /\ u # Head(ready))
  <2>1. ASSUME InReady(u)' PROVE InReady(u) /\ u # Head(ready)
    <3>1. PICK i \in 1..Len(ready') : ready'[i] = u
      BY <2>1 DEF InReady
    <3>2. i + 1 \in 1..Len(ready) /\ ready[i + 1] = u
      BY <1>1, <3>1
    <3>. QED
      BY <1>1, <3>2 DEF InReady
  <2>2. ASSUME InReady(u), u # Head(ready) PROVE InReady(u)'
    <3>1. PICK i \in 1..Len(ready) : ready[i] = u
      BY <2>2 DEF InReady
    <3>2. i - 1 \in 1..Len(ready') /\ ready'[i - 1] = u
      BY <1>1, <2>2, <3>1
    <3>. QED
      BY <3>2 DEF InReady
  <2>. QED
    BY <2>1, <2>2
<1>3. \A i, j \in 1..Len(ready') : ready'[i] = ready'[j] => i = j
  BY <1>1
<1>4. InReady(Head(ready))
  BY <1>1 DEF InReady
<1>. QED
  BY <1>1, <1>2, <1>3, <1>4

-----------------------------------------------------------------------------
(* Whoever is not in the middle of a call is not midway. *)
LEMMA NotMidway ==
    /\ {"none", "user", "join", "io"} \cap Midway = {}
    /\ Inserted \subseteq Midway
BY DEF Midway, Inserted

(* What is known of the coroutine that runs, or that has just come back. *)
LEMMA RunningFacts ==
    ASSUME Inv, outcome = "up", NEW u \in Ut, control = "uthread", cur_uthread = u
    PROVE  /\ u \in live /\ ~ InReady(u)
           /\ "EXITED" \notin status[u] /\ "SLEEPING" \notin status[u]
           /\ frame[u] \notin Inserted => u \notin sleeping
           /\ frame[u] \in {"user", "join", "io"} =>
                u \notin sleeping /\ u \notin waiting /\ \A t \in live : ut_joined[t] # u
<1>1. ~ InReady(u) /\ (frame[u] \notin Inserted => u \notin sleeping)
  BY DEF Inv, PlaceInv, OnePlace, OnThread
<1>2. u \in live
  BY DEF Inv, PlaceInv, PlacedLive, OnThread
<1>3. "EXITED" \notin status[u] /\ "SLEEPING" \notin status[u]
  BY <1>1, <1>2, NotMidway DEF Inv, BitInv, SleepBits, ExitedBits
<1>4. ASSUME frame[u] \in {"user", "join", "io"} 
      PROVE  u \notin sleeping /\ u \notin waiting /\ \A t \in live : ut_joined[t] # u
  <2>1. u \notin sleeping
    BY <1>1, <1>4 DEF Inserted
  <2>2. u \notin waiting
    BY <1>4, <2>1 DEF Inv, FrameOK
  <2>3. \A t \in live : ut_joined[t] # u
    BY <1>4, <2>1, ConstantsAssumption DEF Inv, JoinLinks, Joins
  <2>. QED
    BY <2>1, <2>2, <2>3
<1>. QED
  BY <1>1, <1>2, <1>3, <1>4

LEMMA ResumedFacts ==
    ASSUME Inv, NEW u \in Ut, Resumed(u)
    PROVE  u \in live /\ ~ InReady(u) /\ control = "resume" /\ cur_uthread = u
<1>1. control = "resume" /\ cur_uthread = u
  BY DEF Resumed
<1>2. ~ InReady(u)
  BY <1>1 DEF Inv, PlaceInv, OnePlace
<1>3. u \in live
  BY <1>1 DEF Inv, PlaceInv, PlacedLive, OnThread
<1>. QED
  BY <1>1, <1>2, <1>3

(* While the loop runs, no coroutine has the thread. *)
LEMMA LoopFacts ==
    ASSUME Inv, control = "loop"
    PROVE  cur_uthread = NULL /\ \A u \in Ut : ~ OnThread(u)
BY ConstantsAssumption DEF Inv, PlaceInv, OnThread

-----------------------------------------------------------------------------
(* Steps that move no coroutine. *)
LEMMA PlaceUnchanged ==
    ASSUME Inv, UNCHANGED <<live, ready, sleeping, cur_uthread, control>>,
           \A v \in Ut : frame[v] \in Inserted => frame'[v] \in Inserted
    PROVE  PlaceInv'
<1>1. control = "uthread" => cur_uthread \in Ut
  BY DEF Inv, TypeOK, SchedType, PlaceInv
<1>. QED
  BY <1>1 DEF Inv, PlaceInv, OnePlace, PlacedLive, OnThread, InReady

(* Coroutines leave the sleeping tree, and one of them gets the thread. *)
LEMMA PlaceWoken ==
    ASSUME Inv, control = "loop", NEW u \in Ut, u \in live, ~ InReady(u),
           sleeping' \subseteq sleeping, u \in sleeping' => frame[u] \in Inserted,
           cur_uthread' = u, control' = "uthread", UNCHANGED <<live, ready, frame>>
    PROVE  PlaceInv'
<1>2. \A v \in Ut : OnThread(v)' <=> v = u /\ v \notin sleeping'
  BY DEF OnThread
<1>3. \A v : InReady(v)' <=> InReady(v)
  BY DEF InReady
<1>4. OnePlace'
  BY <1>2, <1>3 DEF Inv, PlaceInv, OnePlace
<1>5. PlacedLive'
  BY <1>2, <1>3, LoopFacts DEF Inv, PlaceInv, PlacedLive
<1>. QED
  BY <1>4, <1>5, ConstantsAssumption DEF PlaceInv

(* The coroutine that runs gives up the thread, to sleep or not. *)
LEMMA PlaceLeft ==
    ASSUME Inv, NEW u \in Ut, outcome = "up", control = "uthread", cur_uthread = u,
           control' = "resume",
           sleeping' = sleeping \/ sleeping' = sleeping \cup {u},
           \A v \in Ut \ {u} : frame'[v] = frame[v],
           UNCHANGED <<live, ready, cur_uthread>>
    PROVE  PlaceInv'
<1>1. u \in live /\ ~ InReady(u)
  BY RunningFacts
<1>2. \A v \in Ut : OnThread(v)' \/ v \in sleeping' <=> OnThread(v) \/ v \in sleeping
  BY <1>1 DEF OnThread
<1>3. \A v : InReady(v)' <=> InReady(v)
  BY DEF InReady
<1>4. OnePlace'
  BY <1>1, <1>2, <1>3 DEF Inv, PlaceInv, OnePlace
<1>5. PlacedLive'
  BY <1>2, <1>3 DEF Inv, PlaceInv, PlacedLive
<1>. QED
  BY <1>1, <1>4, <1>5, ConstantsAssumption DEF PlaceInv

-----------------------------------------------------------------------------
(* The invariant is preserved by every call a coroutine makes. *)

Others == PlaceInv /\ BitInv /\ JoinLinks /\ FrameOK

LEMMA CreateInv ==
    ASSUME Inv, NEW u \in Ut, NEW a \in Ut, uthread_create(u, a)
    PROVE  Others'
<1>1. /\ a \notin live /\ a \notin sleeping /\ ~ InReady(a) /\ ~ OnThread(a)
      /\ a \notin waiting /\ outcome = "up" /\ u \in live /\ cur_uthread = u
  <2>1. outcome = "up" /\ control = "uthread" /\ cur_uthread = u /\ a \notin live
    BY DEF uthread_create, InUser
  <2>2. u \in live
    BY <2>1, RunningFacts
  <2>3. a \notin sleeping /\ ~ InReady(a) /\ ~ OnThread(a)
    BY <2>1 DEF Inv, PlaceInv, PlacedLive
  <2>4. a \notin waiting
    BY <2>1, <2>3 DEF Inv, FrameOK
  <2>. QED
    BY <2>1, <2>2, <2>3, <2>4
<1>0. \A v \in Ut \ {a} : fd_wait'[v] = fd_wait[v] /\ frame'[v] = frame[v]
                             /\ target'[v] = target[v] /\ status'[v] = status[v]
  BY DEF uthread_create, Inv, TypeOK, UtType, StackType
<1>2. PlaceInv'
  <2>1. /\ \A v : InReady(v)' <=> (InReady(v) \/ v = a)
        /\ \A i, j \in 1..Len(ready') : ready'[i] = ready'[j] => i = j
    BY <1>1, Enqueue DEF uthread_create, Inv, TypeOK, PType, PlaceInv, OnePlace
  <2>2. \A v \in Ut : OnThread(v)' <=> OnThread(v)
    BY DEF uthread_create, OnThread, schedVars
  <2>3. OnePlace'
    BY <1>0, <1>1, <2>1, <2>2
       DEF uthread_create, Inv, PlaceInv, OnePlace, OnThread, schedVars
  <2>4. PlacedLive'
    BY <1>1, <2>1, <2>2 DEF uthread_create, Inv, PlaceInv, PlacedLive
  <2>. QED
    BY <2>3, <2>4 DEF PlaceInv, Inv, uthread_create, schedVars
<1>3. BitInv'
  <2>1. status'[a] = {"NEW"} /\ frame'[a] = "user" /\ live' = live \cup {a}
    BY DEF uthread_create, Inv, TypeOK, UtType, StackType
  <2>. QED
    BY <1>0, <1>1, <2>1, NotMidway
       DEF uthread_create, Inv, TypeOK, UtType, BitInv, SleepBits, ExitedBits,
           OnThread, schedVars
<1>4. JoinLinks'
  <2>1. \A v \in Ut \ {a} : Joins(v) => Joins(v)'
    BY <1>0 DEF uthread_create, Joins
  <2>2. ut_joined'[a] = NULL /\ \A v \in Ut \ {a} : ut_joined'[v] = ut_joined[v]
    BY DEF uthread_create, Inv, TypeOK, UtType
  <2>3. ~ Joins(a)
    BY <1>1 DEF Joins
  <2>. QED
    BY <1>0, <1>1, <2>1, <2>2, <2>3
       DEF uthread_create, Inv, TypeOK, UtType, JoinLinks
<1>5. FrameOK'
  <2>2. fd_wait'[a] = NULL /\ UNCHANGED <<sleeping, waiting, outcome>>
    BY DEF uthread_create, Inv, TypeOK, UtType
  <2>. QED
    BY <1>0, <1>1, <2>2 DEF uthread_create, Inv, TypeOK, PType, UtType, FrameOK
<1>. QED
  BY <1>2, <1>3, <1>4, <1>5 DEF Others

LEMMA CreateFailsInv ==
    ASSUME Inv, NEW u \in Ut, NEW a \in Ut, uthread_create_fails(u, a)
    PROVE  Others'
<1>1. a \notin live /\ a \notin sleeping /\ a \notin waiting /\ outcome = "up"
  BY DEF uthread_create_fails, InUser, Inv, PlaceInv, PlacedLive, FrameOK
<1>2. PlaceInv'
  BY PlaceUnchanged DEF uthread_create_fails, pVars, schedVars, stackVars
<1>3. BitInv'
  BY <1>1 DEF uthread_create_fails, Inv, TypeOK, UtType, BitInv, SleepBits,
              ExitedBits, OnThread, pVars, schedVars, stackVars
<1>4. JoinLinks'
  BY <1>1 DEF uthread_create_fails, Inv, TypeOK, UtType, JoinLinks, Joins, pVars,
              stackVars
<1>5. FrameOK'
  <2>1. /\ \A v \in Ut \ {a} : fd_wait'[v] = fd_wait[v]
        /\ UNCHANGED <<live, frame, sleeping, waiting, outcome>>
    BY DEF uthread_create_fails, pVars, stackVars, Inv, TypeOK, UtType
  <2>. QED
    BY <1>1, <2>1 DEF Inv, TypeOK, PType, UtType, FrameOK
<1>. QED
  BY <1>2, <1>3, <1>4, <1>5 DEF Others

(* Steps that leave both trees and the stacks alone. *)
LEMMA FrameUnchanged ==
    ASSUME FrameOK, live' = live, outcome' = "up" => outcome = "up",
           UNCHANGED <<fd_wait, frame, sleeping, waiting>>
    PROVE  FrameOK'
BY DEF FrameOK

LEMMA LinksUnchanged ==
    ASSUME JoinLinks, live' = live, outcome' = "up" => outcome = "up",
           UNCHANGED <<ut_joined, frame, target, sleeping>>
    PROVE  JoinLinks'
BY DEF JoinLinks, Joins

LEMMA ExitInv ==
    ASSUME Inv, NEW u \in Ut, uthread_exit(u)
    PROVE  Others'
<1>1. /\ u \notin sleeping /\ cur_uthread = u /\ frame[u] = "user"
      /\ outcome = "up" /\ control = "uthread"
  BY RunningFacts DEF uthread_exit, InUser
<1>2. PlaceInv'
  BY <1>1, PlaceLeft DEF uthread_exit, pVars, stackVars
<1>3. BitInv'
  BY <1>1 DEF uthread_exit, Inv, TypeOK, UtType, BitInv, SleepBits, ExitedBits,
              OnThread, pVars, stackVars
<1>4. JoinLinks' /\ FrameOK'
  BY LinksUnchanged, FrameUnchanged DEF Inv, uthread_exit, pVars, stackVars, kernelVars
<1>. QED
  BY <1>2, <1>3, <1>4 DEF Others

LEMMA YieldInv ==
    ASSUME Inv, NEW u \in Ut, _uthread_yield(u)
    PROVE  Others'
<1>1. PlaceInv'
  BY PlaceLeft DEF _uthread_yield, pVars, utVars, stackVars
<1>2. BitInv'
  BY RunningFacts DEF _uthread_yield, Inv, BitInv, SleepBits, ExitedBits, OnThread,
                      pVars, utVars, stackVars
<1>3. JoinLinks' /\ FrameOK'
  BY LinksUnchanged, FrameUnchanged
     DEF Inv, _uthread_yield, utVars, pVars, stackVars, kernelVars
<1>. QED
  BY <1>1, <1>2, <1>3 DEF Others

LEMMA DetachInv ==
    ASSUME Inv, NEW u \in Ut, NEW t \in Ut, uthread_detach(u, t)
    PROVE  Others'
<1>1. PlaceInv'
  BY PlaceUnchanged DEF uthread_detach, pVars, schedVars, stackVars
<1>2. BitInv'
  BY DEF uthread_detach, Inv, TypeOK, UtType, BitInv, SleepBits, ExitedBits,
         OnThread, pVars, schedVars, stackVars
<1>3. JoinLinks' /\ FrameOK'
  BY LinksUnchanged, FrameUnchanged
     DEF Inv, uthread_detach, pVars, stackVars, kernelVars
<1>. QED
  BY <1>1, <1>2, <1>3 DEF Others

LEMMA JoinExitedInv ==
    ASSUME Inv, NEW u \in Ut, NEW t \in Ut, uthread_join_exited(u, t)
    PROVE  Others'
<1>1. PlaceInv'
  BY PlaceUnchanged DEF uthread_join_exited, utVars, pVars, schedVars, stackVars
<1>2. BitInv'
  BY DEF uthread_join_exited, Inv, BitInv, SleepBits, ExitedBits, OnThread, utVars,
         pVars, schedVars, stackVars
<1>3. JoinLinks' /\ FrameOK'
  BY LinksUnchanged, FrameUnchanged
     DEF Inv, uthread_join_exited, utVars, pVars, stackVars, kernelVars
<1>. QED
  BY <1>1, <1>2, <1>3 DEF Others

(* _uthread_sched_sleep: the coroutine that runs goes into the sleeping     *)
(* tree, or the process ends.                                               *)
LEMMA SchedSleepInv ==
    ASSUME Inv, NEW u \in Ut, InUser(u), NEW timeout, NEW bits \in SUBSET StatusBit,
           "EXITED" \notin bits, "SLEEPING" \notin bits, NEW f \in {"join", "io"},
           frame' = [frame EXCEPT ![u] = f],
           SchedSleep(u, timeout, bits), UNCHANGED <<live, ready, cur_uthread>>
    PROVE  /\ PlaceInv' /\ BitInv'
           /\ outcome' = "up" => sleeping' = sleeping \cup {u}
<1>1. u \in live /\ u \notin sleeping /\ cur_uthread = u /\ outcome = "up"
      /\ control = "uthread"
      /\ frame[u] = "user"
  BY RunningFacts DEF InUser
<1>0. /\ \A v \in Ut \ {u} : frame'[v] = frame[v]
      /\ frame'[u] = f /\ f \notin Midway /\ f \notin Inserted /\ frame[u] \notin Inserted
  BY <1>1, NotMidway DEF Inv, TypeOK, StackType
<1>2. CASE sleeping' = sleeping \cup {u} /\ control' = "resume"
           /\ status' = [status EXCEPT ![u] = bits \cup {"SLEEPING"}]
  <2>1. PlaceInv'
    BY <1>0, <1>1, <1>2, PlaceLeft
  <2>2. BitInv'
    BY <1>0, <1>1, <1>2 DEF Inv, TypeOK, UtType, BitInv, SleepBits, ExitedBits, OnThread
  <2>. QED
    BY <1>2, <2>1, <2>2
<1>3. CASE /\ outcome' = "abort_sleep_insert"
           /\ status' = [status EXCEPT ![u] = bits]
           /\ UNCHANGED <<sleeping, wakeup_time, control>>
  <2>1. PlaceInv'
    BY <1>0, <1>3, PlaceUnchanged
  <2>2. BitInv'
    BY <1>0, <1>1, <1>3 DEF Inv, TypeOK, UtType, BitInv, SleepBits, ExitedBits, OnThread
  <2>. QED
    BY <1>3, <2>1, <2>2
<1>. QED
  BY <1>2, <1>3 DEF SchedSleep

LEMMA JoinInv ==
    ASSUME Inv, NEW u \in Ut, NEW t \in Ut, uthread_join(u, t)
    PROVE  Others'
<1>1. /\ u \in live /\ u \notin sleeping /\ u \notin waiting /\ outcome = "up"
      /\ "EXITED" \notin status[u] /\ "SLEEPING" \notin status[u]
      /\ frame[u] = "user" /\ status[u] \in SUBSET StatusBit
      /\ \A v \in live : ut_joined[v] # u
  BY RunningFacts DEF uthread_join, InUser, Inv, TypeOK, UtType
<1>2. /\ PlaceInv' /\ BitInv'
      /\ outcome' = "up" => sleeping' = sleeping \cup {u}
  BY <1>1, SchedSleepInv DEF uthread_join
<1>3. JoinLinks'
  BY <1>1, <1>2 DEF uthread_join, Inv, TypeOK, UtType, StackType, JoinLinks, Joins
<1>4. FrameOK'
  <2>1. /\ \A v \in Ut \ {u} : frame'[v] = frame[v]
        /\ frame'[u] = "join"
        /\ UNCHANGED <<live, fd_wait, waiting>>
    BY DEF uthread_join, Inv, TypeOK, StackType
  <2>. QED
    BY <1>1, <1>2, <2>1 DEF Inv, TypeOK, PType, UtType, FrameOK, IoFrame
<1>. QED
  BY <1>2, <1>3, <1>4 DEF Others

LEMMA RegisterFailsInv ==
    ASSUME Inv, NEW u \in Ut, NEW fd \in Fd, register_event_fails(u, fd)
    PROVE  Others'
<1>1. PlaceInv'
  BY PlaceUnchanged DEF register_event_fails, utVars, pVars, schedVars, stackVars
<1>2. BitInv'
  BY DEF register_event_fails, Inv, BitInv, SleepBits, ExitedBits, OnThread, utVars,
         pVars, schedVars, stackVars
<1>3. JoinLinks' /\ FrameOK'
  BY LinksUnchanged, FrameUnchanged
     DEF Inv, register_event_fails, InUser, utVars, pVars, stackVars, kernelVars
<1>. QED
  BY <1>1, <1>2, <1>3 DEF Others

LEMMA RegisterInv ==
    ASSUME Inv, NEW u \in Ut, NEW fd \in Fd, NEW e \in Event, NEW timeout,
           _register_event(u, fd, e, timeout)
    PROVE  Others'
<1>1. /\ u \in live /\ u \notin sleeping /\ u \notin waiting /\ outcome = "up"
      /\ "EXITED" \notin status[u] /\ "SLEEPING" \notin status[u]
      /\ frame[u] = "user" /\ status[u] \in SUBSET StatusBit
      /\ \A v \in live : ut_joined[v] # u
  BY RunningFacts DEF _register_event, InUser, Inv, TypeOK, UtType
<1>2. /\ PlaceInv' /\ BitInv'
      /\ outcome' = "up" => sleeping' = sleeping \cup {u}
  <2>1. /\ status[u] \cup {WaitBit(e)} \in SUBSET StatusBit
        /\ "EXITED" \notin status[u] \cup {WaitBit(e)}
        /\ "SLEEPING" \notin status[u] \cup {WaitBit(e)}
    BY <1>1 DEF WaitBit, StatusBit
  <2>. HIDE DEF SchedSleep, WaitBit
  <2>. QED
    BY <2>1, SchedSleepInv DEF _register_event
<1>3. JoinLinks'
  BY <1>1, <1>2 DEF _register_event, Inv, TypeOK, UtType, StackType, JoinLinks, Joins
<1>4. FrameOK'
  <2>1. /\ \A v \in Ut \ {u} : frame'[v] = frame[v] /\ fd_wait'[v] = fd_wait[v]
        /\ frame'[u] = "io"
        /\ waiting' \subseteq waiting \cup {u}
        /\ UNCHANGED live
    BY DEF _register_event, Inv, TypeOK, UtType, StackType
  <2>. QED
    BY <1>1, <1>2, <2>1 DEF Inv, TypeOK, PType, UtType, FrameOK, IoFrame
<1>. QED
  BY <1>2, <1>3, <1>4 DEF Others

-----------------------------------------------------------------------------
(* The rest of a call, when its coroutine runs again. *)

LEMMA JoinReturnInv ==
    ASSUME Inv, NEW u \in Ut, JoinReturn(u)
    PROVE  Others'
<1>1. /\ u \in live /\ u \notin sleeping /\ u \notin waiting /\ outcome = "up"
      /\ frame[u] = "join" /\ "SLEEPING" \notin status[u]
      /\ \A v \in live : ut_joined[v] # u
  BY RunningFacts DEF JoinReturn
<1>4. /\ \A v \in Ut \ {u} : frame'[v] = frame[v] /\ target'[v] = target[v]
      /\ frame'[u] = "user" /\ frame[u] \notin Inserted /\ frame'[u] \notin Midway
      /\ frame'[u] \notin Inserted
  BY <1>1, NotMidway DEF JoinReturn, Inv, TypeOK, StackType
<1>2. PlaceInv'
  BY <1>4, PlaceUnchanged DEF JoinReturn, pVars, schedVars
<1>3. BitInv'
  <2>1. status' = status
    BY <1>1 DEF JoinReturn, Inv, TypeOK, UtType
  <2>. QED
    BY <1>4, <2>1 DEF JoinReturn, Inv, TypeOK, UtType, BitInv, SleepBits, ExitedBits,
                      OnThread, pVars, schedVars
<1>5. JoinLinks'
  <2>1. \A v \in Ut : ut_joined'[v] = ut_joined[v] \/ ut_joined'[v] = NULL
    BY DEF JoinReturn, Inv, TypeOK, UtType
  <2>. QED
    BY <1>1, <1>4, <2>1
       DEF JoinReturn, Inv, TypeOK, UtType, PType, JoinLinks, Joins, pVars
<1>6. FrameOK'
  BY <1>1, <1>4 DEF JoinReturn, Inv, TypeOK, UtType, PType, FrameOK, IoFrame, pVars
<1>. QED
  BY <1>2, <1>3, <1>5, <1>6 DEF Others

LEMMA EventReturnInv ==
    ASSUME Inv, NEW u \in Ut, EventReturn(u)
    PROVE  Others'
<1>1. /\ u \in live /\ u \notin sleeping /\ u \notin waiting /\ outcome = "up"
      /\ "EXITED" \notin status[u] /\ \A v \in live : ut_joined[v] # u
      /\ frame[u] = "io"
  BY RunningFacts DEF EventReturn
<1>0. /\ frame'[u] \notin Inserted /\ frame[u] \notin Inserted /\ frame'[u] \notin Midway
      /\ \A v \in Ut \ {u} : frame'[v] = frame[v]
  BY <1>1, NotMidway DEF EventReturn, Inv, TypeOK, StackType
<1>2. PlaceInv'
  BY <1>0, PlaceUnchanged DEF EventReturn, pVars, schedVars
<1>3. BitInv'
  BY <1>0, <1>1 DEF EventReturn, Inv, TypeOK, UtType, BitInv, SleepBits, ExitedBits,
              OnThread, pVars, schedVars
<1>4. /\ \A v \in Ut \ {u} : frame'[v] = frame[v] /\ fd_wait'[v] = fd_wait[v]
      /\ fd_wait'[u] = NULL
      /\ UNCHANGED <<live, sleeping, waiting, outcome>>
  BY DEF EventReturn, Inv, TypeOK, UtType, StackType, pVars
<1>5. JoinLinks'
  BY <1>1, <1>4 DEF EventReturn, Inv, TypeOK, UtType, PType, JoinLinks, Joins
<1>6. FrameOK'
  BY <1>1, <1>4 DEF Inv, TypeOK, UtType, PType, FrameOK
<1>. QED
  BY <1>2, <1>3, <1>5, <1>6 DEF Others

-----------------------------------------------------------------------------
(* What _uthread_resume does once its coroutine is back. *)

(* A coroutine that is over leaves; the one that joined it is made ready. *)
LEMMA ResumeExitedInv ==
    ASSUME Inv, NEW u \in Ut, ResumeExited(u)
    PROVE  Others'
<1>1. /\ u \in live /\ u \notin sleeping /\ ~ InReady(u) /\ cur_uthread = u
      /\ outcome = "up" /\ u \notin waiting /\ frame[u] = "user"
  BY ResumedFacts DEF ResumeExited, Resumed, Inv, BitInv, ExitedBits, OnThread, FrameOK
<1>2. /\ live' = live \ {u} /\ cur_uthread' = NULL /\ control' = "loop"
      /\ UNCHANGED <<ut_joined, fd_wait, frame, target, waiting, outcome>>
      /\ \A v \in Ut : ~ OnThread(v)'
  BY ConstantsAssumption
     DEF ResumeExited, BackToLoop, _uthread_free, OnThread, stackVars
<1>3. CASE ut_joined[u] = NULL
  <2>1. UNCHANGED <<status, sleeping, ready>>
    BY <1>3 DEF ResumeExited, WakeJoiner
  <2>2. PlaceInv'
    BY <1>1, <1>2, <2>1, ConstantsAssumption
       DEF Inv, PlaceInv, OnePlace, PlacedLive, OnThread, InReady
  <2>3. BitInv'
    BY <1>1, <1>2, <2>1 DEF Inv, BitInv, SleepBits, ExitedBits, OnThread
  <2>4. JoinLinks'
    BY <1>1, <1>2, <2>1 DEF Inv, JoinLinks, Joins
  <2>5. FrameOK'
    BY <1>1, <1>2, <2>1 DEF Inv, FrameOK
  <2>. QED
    BY <2>2, <2>3, <2>4, <2>5 DEF Others
<1>4. CASE ut_joined[u] # NULL
  <2>. DEFINE j == ut_joined[u]
  <2>1. /\ j \in Ut /\ Joins(j) /\ j # u /\ target[j] = u
        /\ j \in live /\ ~ InReady(j)
        /\ frame[j] \in {"join", "join_linked", "join_inserted"}
    BY <1>1, <1>4 DEF Inv, TypeOK, UtType, JoinLinks, Joins, BitInv, SleepBits,
                      ResumeExited, JoinerQueued
  <2>2. /\ ready' = Append(ready, j)
        /\ status' = [status EXCEPT ![j] = DeschedBits(@)]
        /\ sleeping' = sleeping \ {v \in {j} : "SLEEPING" \in status[v]}
    BY <1>4 DEF ResumeExited, WakeJoiner, DeschedSleep
  <2>3. /\ \A v : InReady(v)' <=> (InReady(v) \/ v = j)
        /\ \A i, k \in 1..Len(ready') : ready'[i] = ready'[k] => i = k
    BY <2>1, <2>2, Enqueue DEF Inv, TypeOK, PType, PlaceInv, OnePlace
  <2>4. /\ \A v \in Ut \ {j} : status'[v] = status[v] /\ (v \in sleeping' <=> v \in sleeping)
        /\ "EXITED" \notin status'[j] /\ "SLEEPING" \notin status'[j]
        /\ j \in sleeping' <=> frame[j] \in Inserted
    <3>1. "EXITED" \notin status[j]
      BY <1>1, <2>1 DEF Inv, BitInv, ExitedBits, OnThread
    <3>2. /\ \A v \in Ut \ {j} : status'[v] = status[v]
          /\ status'[j] = DeschedBits(status[j])
      BY <2>1, <2>2 DEF Inv, TypeOK, UtType
    <3>3. frame[j] \in Inserted => j \in sleeping /\ "SLEEPING" \notin status[j]
      BY <2>1, NotMidway DEF Inv, BitInv, SleepBits
    <3>4. frame[j] \notin Inserted => (j \in sleeping <=> "SLEEPING" \in status[j])
      BY <2>1 DEF Inv, BitInv, SleepBits
    <3>. QED
      BY <2>1, <2>2, <3>1, <3>2, <3>3, <3>4 DEF DeschedBits
  <2>. HIDE DEF j
  <2>5. PlaceInv'
    <3>1. OnePlace'
      BY <1>1, <1>2, <2>1, <2>3, <2>4, ConstantsAssumption DEF Inv, PlaceInv, OnePlace
    <3>2. PlacedLive'
      BY <1>1, <1>2, <2>1, <2>3, <2>4 DEF Inv, PlaceInv, PlacedLive, OnThread
    <3>. QED
      BY <1>2, <3>1, <3>2 DEF PlaceInv
  <2>6. BitInv'
    <3>1. SleepBits'
      BY <1>1, <1>2, <2>1, <2>4 DEF Inv, TypeOK, UtType, BitInv, SleepBits
    <3>2. ExitedBits'
      BY <1>1, <1>2, <2>1, <2>4
         DEF Inv, TypeOK, UtType, BitInv, ExitedBits, OnThread
    <3>. QED
      BY <3>1, <3>2 DEF BitInv
  <2>7. JoinLinks'
    <3>1. ASSUME NEW t \in live', ut_joined'[t] # NULL
          PROVE  Joins(ut_joined[t])' /\ target'[ut_joined'[t]] = t
      <4>. DEFINE k == ut_joined[t]
      <4>1. t \in live /\ t # u /\ Joins(k) /\ target[k] = t /\ k \in Ut
        BY <1>1, <1>2, <3>1 DEF Inv, TypeOK, UtType, JoinLinks
      <4>2. k # j /\ k # u
        BY <1>1, <2>1, <4>1 DEF Joins
      <4>. QED
        BY <1>2, <2>4, <4>1, <4>2 DEF Joins
    <3>. QED
      BY <1>2, <3>1 DEF JoinLinks
  <2>8. FrameOK'
    BY <1>1, <1>2, <2>1, <2>2, <2>4 DEF Inv, TypeOK, UtType, PType, FrameOK
  <2>. QED
    BY <2>5, <2>6, <2>7, <2>8 DEF Others
<1>. QED
  BY <1>3, <1>4

LEMMA ResumeSleepingInv ==
    ASSUME Inv, NEW u \in Ut, ResumeSleeping(u)
    PROVE  Others'
<1>1. /\ u \in live /\ u \in sleeping /\ cur_uthread = u
      /\ cur_uthread' = NULL /\ control' = "loop"
      /\ UNCHANGED <<live, status, ready, sleeping, frame>>
  BY ResumedFacts
     DEF ResumeSleeping, BackToLoop, Inv, BitInv, SleepBits, utVars, pVars, stackVars
<1>2. PlaceInv'
  BY <1>1, ConstantsAssumption
     DEF Inv, PlaceInv, OnePlace, PlacedLive, OnThread, InReady
<1>3. BitInv'
  BY <1>1 DEF ResumeSleeping, Inv, TypeOK, UtType, BitInv, SleepBits, ExitedBits, OnThread
<1>4. JoinLinks' /\ FrameOK'
  BY LinksUnchanged, FrameUnchanged
     DEF Inv, ResumeSleeping, utVars, pVars, stackVars, kernelVars
<1>. QED
  BY <1>2, <1>3, <1>4 DEF Others

LEMMA ResumeYieldedInv ==
    ASSUME Inv, NEW u \in Ut, ResumeYielded(u)
    PROVE  Others'
<1>1. /\ u \in live /\ ~ InReady(u) /\ cur_uthread = u
      /\ u \in sleeping => frame[u] \in Inserted
      /\ cur_uthread' = NULL /\ control' = "loop" /\ "EXITED" \notin status[u]
      /\ UNCHANGED <<live, status, sleeping, frame>>
      /\ \A v \in Ut : ~ OnThread(v)'
  BY ResumedFacts, ConstantsAssumption
     DEF ResumeYielded, BackToLoop, Inv, BitInv, SleepBits, OnThread, utVars, pVars,
         stackVars
<1>2. /\ \A v : InReady(v)' <=> (InReady(v) \/ v = u)
      /\ \A i, j \in 1..Len(ready') : ready'[i] = ready'[j] => i = j
  BY <1>1, Enqueue DEF ResumeYielded, Inv, TypeOK, PType, PlaceInv, OnePlace
<1>3. PlaceInv'
  <2>1. OnePlace'
    BY <1>1, <1>2, ConstantsAssumption DEF Inv, PlaceInv, OnePlace
  <2>2. PlacedLive'
    BY <1>1, <1>2 DEF Inv, PlaceInv, PlacedLive, OnThread
  <2>. QED
    BY <1>1, <2>1, <2>2 DEF PlaceInv
<1>4. BitInv'
  BY <1>1 DEF Inv, TypeOK, UtType, BitInv, SleepBits, ExitedBits, OnThread
<1>5. JoinLinks' /\ FrameOK'
  BY LinksUnchanged, FrameUnchanged
     DEF Inv, ResumeYielded, utVars, stackVars, kernelVars
<1>. QED
  BY <1>3, <1>4, <1>5 DEF Others

-----------------------------------------------------------------------------
(* The steps of the scheduler's loop and of the world around it. *)

(* Most of them move no coroutine. *)
LEMMA Unmoved ==
    ASSUME Inv, outcome' = "up" => outcome = "up",
           UNCHANGED <<live, status, ut_joined, fd_wait, frame, target, ready,
                       sleeping, waiting, cur_uthread, control>>
    PROVE  Others'
<1>1. PlaceInv'
  BY PlaceUnchanged DEF Inv
<1>2. BitInv'
  BY DEF Inv, BitInv, SleepBits, ExitedBits, OnThread
<1>3. JoinLinks' /\ FrameOK'
  BY LinksUnchanged, FrameUnchanged DEF Inv
<1>. QED
  BY <1>1, <1>2, <1>3 DEF Others

(* Coroutines inside of _register_event are taken out of both trees, as far *)
(* as they are in them, and one of them runs.                               *)
LEMMA WaitersWoken ==
    ASSUME Inv, outcome = "up", control = "loop", NEW us \in SUBSET live,
           NEW u \in us, ~ InReady(u), \A v \in us : frame[v] \in IoFrame,
           waiting' \subseteq waiting \ us,
           sleeping' = sleeping \ {v \in us : "SLEEPING" \in status[v]},
           \A v \in Ut \ us : status'[v] = status[v],
           \A v \in us : "EXITED" \notin status'[v] /\ "SLEEPING" \notin status'[v],
           \A v \in Ut : fd_wait'[v] = fd_wait[v] \/ fd_wait'[v] = NULL,
           cur_uthread' = u, control' = "uthread",
           UNCHANGED <<live, ut_joined, frame, target, ready, outcome>>
    PROVE  Others'
<1>1. us \subseteq Ut /\ waiting \subseteq Ut /\ live \subseteq Ut
  BY DEF Inv, TypeOK, UtType, PType
<1>2. \A v \in Ut : v \in sleeping' <=>
            v \in live /\ ("SLEEPING" \in status'[v] \/ frame[v] \in Inserted)
  BY <1>1, NotMidway DEF Inv, BitInv, SleepBits
<1>3. PlaceInv'
  BY <1>1, <1>2, PlaceWoken
<1>4. BitInv'
  BY <1>1, <1>2, LoopFacts DEF Inv, TypeOK, UtType, BitInv, SleepBits, ExitedBits, OnThread
<1>5. JoinLinks'
  <2>1. \A v \in Ut : Joins(v) => v \notin us
    BY DEF Joins, IoFrame
  <2>2. \A v \in Ut : Joins(v) => Joins(v)'
    BY <2>1 DEF Joins
  <2>. QED
    BY <1>1, <2>2 DEF Inv, TypeOK, UtType, JoinLinks
<1>6. FrameOK'
  BY <1>1 DEF Inv, TypeOK, UtType, PType, FrameOK
<1>. QED
  BY <1>3, <1>4, <1>5, <1>6 DEF Others

(* Who is in the waiting tree. *)
LEMMA WaiterFacts ==
    ASSUME Inv, outcome = "up", NEW u \in waiting
    PROVE  /\ u \in Ut /\ u \in live /\ frame[u] \in IoFrame
           /\ InReady(u) => frame[u] \in Midway
<1>1. u \in Ut /\ \/ frame[u] = "io" /\ u \in sleeping
                  \/ frame[u] \in {"io_waiting", "io_inserted"} /\ u \in live
  BY DEF Inv, TypeOK, PType, FrameOK
<1>2. u \in live
  BY <1>1 DEF Inv, BitInv, SleepBits
<1>3. frame[u] = "io" /\ u \in sleeping => ~ InReady(u)
  BY <1>1 DEF Inv, PlaceInv, OnePlace, Inserted
<1>. QED
  BY <1>1, <1>2, <1>3 DEF IoFrame, Midway, Inserted

(* _uthread_resume_expired: besides the sleeper it may find another waiter  *)
(* in the waiting tree, if the fd was closed in between.  That one leaves   *)
(* both trees too and is not put anywhere.                                  *)
LEMMA ResumeExpiredInv ==
    ASSUME Inv, NEW u \in Ut, ResumeExpired(u)
    PROVE  Others'
<1>. DEFINE us == {u} \cup FindWaiter(fd_wait[u])
<1>1. /\ outcome = "up" /\ control = "loop" /\ u \in sleeping /\ ~ InReady(u)
      /\ fd_wait[u] # NULL /\ u \in live
  BY DEF ResumeExpired, LoopAt, Due, EarliestSleeper, Registered, Inv,
         BitInv, SleepBits
<1>2. us \subseteq live /\ us \subseteq Ut /\ \A v \in us : frame[v] \in IoFrame
  <2>1. frame[u] \in IoFrame
    BY <1>1 DEF Inv, FrameOK
  <2>. QED
    BY <1>1, <2>1, WaiterFacts DEF FindWaiter
<1>4. \A v \in us : "EXITED" \notin status[v]
  BY <1>1, <1>2, LoopFacts DEF Inv, BitInv, SleepBits, ExitedBits
<1>5. waiting' \subseteq waiting \ us
  BY DEF ResumeExpired, _uthread_cancel_event, FindWaiter
<1>6. sleeping' = sleeping \ {v \in us : "SLEEPING" \in status[v]}
  BY DEF ResumeExpired, DeschedSleep
<1>7. /\ cur_uthread' = u /\ control' = "uthread"
      /\ UNCHANGED <<live, ut_joined, frame, target, ready, outcome>>
  BY DEF ResumeExpired, Resume, stackVars
<1>8. \A v \in Ut : fd_wait'[v] = fd_wait[v] \/ fd_wait'[v] = NULL
  BY DEF ResumeExpired, Inv, TypeOK, UtType
<1>9. /\ \A v \in Ut \ us : status'[v] = status[v]
      /\ \A v \in us \ {u} : status'[v] = DeschedBits(status[v])
      /\ status'[u] = InitBits(DeschedBits(ClearWaitBits(status[u]) \cup {"EXPIRED"}))
  BY <1>2 DEF ResumeExpired, Resume, Inv, TypeOK, UtType
<1>10. \A v \in us : "EXITED" \notin status'[v] /\ "SLEEPING" \notin status'[v]
  <2>1. \A bits : "SLEEPING" \notin DeschedBits(bits) /\ "SLEEPING" \notin InitBits(DeschedBits(bits))
    BY DEF InitBits, DeschedBits
  <2>2. "EXITED" \notin status'[u]
    BY <1>4, <1>9 DEF InitBits, DeschedBits, ClearWaitBits
  <2>3. \A v \in us \ {u} : "EXITED" \notin status'[v]
    <3>1. ASSUME NEW v \in us \ {u} PROVE "EXITED" \notin status'[v]
      <4>1. "EXITED" \notin status[v]
        BY <1>4
      <4>2. status'[v] = DeschedBits(status[v])
        BY <1>9
      <4>. QED
        BY <4>1, <4>2 DEF DeschedBits
    <3>. QED
      BY <3>1
  <2>. QED
    BY <1>9, <2>1, <2>2, <2>3
<1>. HIDE DEF us
<1>11. us \in SUBSET live /\ u \in us
  BY <1>2 DEF us
<1>. QED
  BY <1>1, <1>2, <1>5, <1>6, <1>7, <1>8, <1>9, <1>10, <1>11, WaitersWoken

LEMMA HandleEventFoundInv ==
    ASSUME Inv, NEW u \in Ut, NEW e \in Event, NEW next, outcome = "up",
           control = "loop", event # NULL, HandleEventFound(u, e, next)
    PROVE  Others'
<1>1. u \in waiting /\ u \in live /\ frame[u] \in IoFrame /\ ~ InReady(u)
  BY WaiterFacts DEF HandleEventFound, FindWaiter
<1>2. "EXITED" \notin status[u]
  BY <1>1, LoopFacts DEF Inv, BitInv, ExitedBits
<1>3. sleeping' = sleeping \ {v \in {u} : "SLEEPING" \in status[v]}
  BY DEF HandleEventFound, DeschedSleep
<1>4. /\ cur_uthread' = u /\ control' = "uthread" /\ waiting' = waiting \ {u}
      /\ UNCHANGED <<live, ut_joined, fd_wait, frame, target, ready, outcome>>
  BY DEF HandleEventFound, Resume, stackVars
<1>5. \A v \in Ut \ {u} : status'[v] = status[v]
  BY DEF HandleEventFound, Resume, Inv, TypeOK, UtType
<1>6. status'[u] = InitBits(ClearWaitBits(DeschedBits(status[u]))
                            \cup (IF event[2] THEN {"FDEOF"} ELSE {}))
  BY DEF HandleEventFound, Resume, Inv, TypeOK, UtType
<1>7. "EXITED" \notin status'[u] /\ "SLEEPING" \notin status'[u]
  BY <1>2, <1>6 DEF InitBits, DeschedBits, ClearWaitBits
<1>. DEFINE us == {u}
<1>8. /\ us \in SUBSET live /\ u \in us /\ \A v \in us : frame[v] \in IoFrame
      /\ waiting' \subseteq waiting \ us
      /\ sleeping' = sleeping \ {v \in us : "SLEEPING" \in status[v]}
      /\ \A v \in Ut \ us : status'[v] = status[v]
      /\ \A v \in us : "EXITED" \notin status'[v] /\ "SLEEPING" \notin status'[v]
      /\ \A v \in Ut : fd_wait'[v] = fd_wait[v] \/ fd_wait'[v] = NULL
  BY <1>1, <1>3, <1>4, <1>5, <1>7
<1>. HIDE DEF us
<1>. QED
  BY <1>1, <1>4, <1>8, WaitersWoken

LEMMA HandleEventInv ==
    ASSUME Inv, NEW e \in Event, NEW next, outcome = "up", control = "loop",
           event # NULL, handle_event(e, next)
    PROVE  Others'
<1>1. CASE HandleEventNone(e, next)
  BY <1>1, Unmoved DEF HandleEventNone, utVars, stackVars
<1>2. ASSUME NEW u \in Ut, HandleEventFound(u, e, next) PROVE Others'
  BY <1>2, HandleEventFoundInv
<1>3. ASSUME NEW u \in Ut, HandleEventFails(u, e) PROVE Others'
  BY <1>3, Unmoved DEF HandleEventFails, utVars, stackVars
<1>4. ASSUME NEW u \in Ut, HandleEventTwice(u, e) PROVE Others'
  BY <1>4, Unmoved DEF HandleEventTwice, utVars, stackVars
<1>. QED
  BY <1>1, <1>2, <1>3, <1>4 DEF handle_event

LEMMA RunReadyInv ==
    ASSUME Inv, RunReady
    PROVE  Others'
<1>. DEFINE u == Head(ready)
<1>1. /\ outcome = "up" /\ control = "loop" /\ ready # <<>> /\ ready' = Tail(ready)
      /\ cur_uthread' = u /\ control' = "uthread"
      /\ status' = [status EXCEPT ![u] = InitBits(@)]
      /\ UNCHANGED <<live, ut_joined, fd_wait, frame, target, sleeping, waiting, outcome>>
  BY DEF RunReady, LoopAt, Resume, stackVars
<1>2. /\ \A v : InReady(v)' <=> (InReady(v) /\ v # u)
      /\ InReady(u) /\ u \in Ut
      /\ \A i, j \in 1..Len(ready') : ready'[i] = ready'[j] => i = j
  BY <1>1, Dequeue DEF Inv, TypeOK, PType, PlaceInv, OnePlace
<1>3. u \in live /\ (u \in sleeping => frame[u] \in Inserted)
  BY <1>2 DEF Inv, PlaceInv, OnePlace, PlacedLive
<1>4. \A v \in Ut : OnThread(v)' <=> v = u /\ u \notin sleeping
  BY <1>1, <1>3 DEF OnThread
<1>5. PlaceInv'
  <2>1. OnePlace'
    BY <1>1, <1>2, <1>3, <1>4 DEF Inv, PlaceInv, OnePlace
  <2>2. PlacedLive'
    BY <1>1, <1>2, <1>3, <1>4, LoopFacts DEF Inv, PlaceInv, PlacedLive
  <2>. QED
    BY <1>1, <1>2, <2>1, <2>2, ConstantsAssumption DEF PlaceInv
<1>6. BitInv'
  <2>1. /\ \A v \in Ut \ {u} : status'[v] = status[v]
        /\ "EXITED" \notin status'[u] /\ "SLEEPING" \notin status'[u]
    BY <1>1, <1>2, <1>3, NotMidway
       DEF InitBits, Inv, TypeOK, UtType, BitInv, SleepBits, ExitedBits
  <2>. QED
    BY <1>1, <1>3, <2>1 DEF Inv, TypeOK, UtType, BitInv, SleepBits, ExitedBits, OnThread
<1>7. JoinLinks' /\ FrameOK'
  BY <1>1, LinksUnchanged, FrameUnchanged DEF Inv
<1>. QED
  BY <1>5, <1>6, <1>7 DEF Others

LEMMA SchedStepInv ==
    ASSUME Inv, SchedStep
    PROVE  Others'
<1>1. CASE While
  BY <1>1, Unmoved DEF While, utVars, stackVars, pVars
<1>2. CASE Done
  BY <1>2, Unmoved DEF Done, LoopAt, utVars, stackVars, pVars
<1>3. ASSUME NEW u \in Ut, ResumeExpired(u) PROVE Others'
  BY <1>3, ResumeExpiredInv
<1>4. ASSUME NEW u \in Ut, ResumeExpiredFails(u) PROVE Others'
  BY <1>4, Unmoved
     DEF ResumeExpiredFails, LoopAt, utVars, stackVars, pVars, schedVars
<1>5. CASE StartRound
  BY <1>5, Unmoved DEF StartRound, utVars, stackVars, pVars
<1>6. CASE RunReady
  BY <1>6, RunReadyInv
<1>7. CASE ReadyEmpty
  BY <1>7, Unmoved DEF ReadyEmpty, utVars, stackVars, pVars
<1>8. CASE _uthread_poll
  BY <1>8, Unmoved DEF _uthread_poll, utVars, stackVars, pVars
<1>9. CASE _uthread_min_timeout
  BY <1>9, Unmoved DEF _uthread_min_timeout, utVars, stackVars, pVars
<1>10. CASE EpollReturns
  BY <1>10, Unmoved DEF EpollReturns, utVars, stackVars
<1>11. CASE EpollTimesOut
  BY <1>11, Unmoved DEF EpollTimesOut, utVars, stackVars, pVars
<1>12. CASE NextEvent
  BY <1>12, Unmoved DEF NextEvent, utVars, stackVars
<1>13. CASE HandleRead
  BY <1>13, HandleEventInv DEF HandleRead, LoopAt, Event
<1>14. CASE HandleWrite
  BY <1>14, HandleEventInv DEF HandleWrite, LoopAt, Event, Inv, TypeOK, SchedType
<1>15. ASSUME NEW u \in Ut, ResumeExpiredTwice(u) PROVE Others'
  BY <1>15, Unmoved
     DEF ResumeExpiredTwice, QueuedAlready, LoopAt, utVars, stackVars, pVars, schedVars
<1>. QED
  BY <1>1, <1>2, <1>3, <1>4, <1>5, <1>6, <1>7, <1>8, <1>9, <1>10, <1>11, <1>12,
     <1>13, <1>14, <1>15 DEF SchedStep

-----------------------------------------------------------------------------
(* The theorems *)

LEMMA InvInit == Init => Inv
<1>. SUFFICES ASSUME Init PROVE Inv
  OBVIOUS
<1>0. TypeOK
  BY TypeInit
<1>1. /\ ready = <<Main>> /\ Len(ready) = 1 /\ ready[1] = Main /\ Main \in Ut
      /\ live = {Main} /\ sleeping = {} /\ cur_uthread = NULL /\ control = "loop"
  BY ConstantsAssumption DEF Init, _runtime_init, _uthread_create_main
<1>2. \A u : InReady(u) <=> u = Main
  BY <1>1 DEF InReady
<1>3. \A u \in Ut : ~ OnThread(u)
  BY <1>1, ConstantsAssumption DEF OnThread
<1>4. PlaceInv
  BY <1>1, <1>2, <1>3, ConstantsAssumption DEF PlaceInv, OnePlace, PlacedLive
<1>7. \A u \in Ut : frame[u] \notin Midway /\ frame[u] \notin Inserted
  BY NotMidway DEF Init, _uthread_create_main
<1>5. BitInv
  BY <1>1, <1>7
     DEF Init, _runtime_init, _uthread_create_main,
         BitInv, SleepBits, ExitedBits
<1>6. JoinLinks /\ FrameOK
  BY <1>1 DEF Init, _runtime_init, _uthread_create_main, JoinLinks, FrameOK
<1>8. TwiceBySignal
  BY <1>7 DEF Init, TwiceBySignal
<1>. QED
  BY <1>0, <1>4, <1>5, <1>6, <1>8 DEF Inv

LEMMA UserCallInv ==
    ASSUME Inv, NEW u \in Ut, UserCall(u)
    PROVE  Others'
<1>1. ASSUME NEW a \in Ut, uthread_create(u, a) \/ uthread_create_fails(u, a)
      PROVE  Others'
  BY <1>1, CreateInv, CreateFailsInv
<1>2. CASE uthread_exit(u)
  BY <1>2, ExitInv
<1>3. ASSUME NEW t \in Ut, \/ uthread_detach(u, t) \/ uthread_join_exited(u, t)
                            \/ uthread_join(u, t)
      PROVE  Others'
  BY <1>3, DetachInv, JoinExitedInv, JoinInv
<1>4. ASSUME NEW fd \in Fd, register_event_fails(u, fd) PROVE Others'
  BY <1>4, RegisterFailsInv
<1>5. ASSUME NEW fd \in Fd, NEW e \in Event, NEW t \in IoTimeouts,
             _register_event(u, fd, e, t)
      PROVE  Others'
  BY <1>5, RegisterInv
<1>6. ASSUME NEW fd \in Fd, close(u, fd) PROVE Others'
  BY <1>6, Unmoved DEF close, utVars, stackVars, pVars, schedVars
<1>. QED
  BY <1>1, <1>2, <1>3, <1>4, <1>5, <1>6 DEF UserCall

-----------------------------------------------------------------------------
(* The steps of a call that a signal may come between. *)

LEMMA JoinCheckInv ==
    ASSUME Inv, NEW u \in Ut, NEW t \in Ut, JoinCheck(u, t)
    PROVE  Others'
<1>1. /\ u \in live /\ u \notin sleeping /\ u \notin waiting /\ outcome = "up"
      /\ "SLEEPING" \notin status[u] /\ frame[u] = "user" /\ cur_uthread = u
      /\ control = "uthread" /\ "EXITED" \notin status[u]
      /\ \A v \in live : ut_joined[v] # u
  BY RunningFacts DEF JoinCheck, InUser
<1>2. /\ \A v \in Ut \ {u} : frame'[v] = frame[v] /\ target'[v] = target[v]
      /\ frame'[u] = "join_checked" /\ frame[u] \notin Inserted
      /\ frame'[u] \notin Inserted
  BY <1>1, NotMidway DEF JoinCheck, Inv, TypeOK, StackType, Inserted
<1>3. PlaceInv'
  BY <1>2, PlaceUnchanged DEF JoinCheck, utVars, pVars, schedVars
<1>4. BitInv'
  BY <1>1, <1>2 DEF JoinCheck, Inv, TypeOK, UtType, BitInv, SleepBits, ExitedBits,
                    OnThread, utVars, pVars, schedVars
<1>5. JoinLinks'
  BY <1>1, <1>2 DEF JoinCheck, Inv, TypeOK, UtType, JoinLinks, Joins, utVars, pVars
<1>6. FrameOK'
  BY <1>1, <1>2 DEF JoinCheck, Inv, TypeOK, UtType, PType, FrameOK, IoFrame, utVars,
                    pVars
<1>. QED
  BY <1>3, <1>4, <1>5, <1>6 DEF Others

LEMMA JoinLinkInv ==
    ASSUME Inv, NEW u \in Ut, JoinLink(u)
    PROVE  Others'
<1>1. /\ u \in live /\ outcome = "up" /\ frame[u] = "join_checked"
      /\ cur_uthread = u /\ control = "uthread"
      /\ "SLEEPING" \notin status[u] /\ "EXITED" \notin status[u]
  BY RunningFacts DEF JoinLink, InCall
<1>2. /\ \A v \in Ut \ {u} : frame'[v] = frame[v]
      /\ frame'[u] = "join_linked" /\ frame[u] \notin Inserted
      /\ frame'[u] \notin Inserted /\ u \notin sleeping /\ u \notin waiting
      /\ \A v \in live : ut_joined[v] # u
  <2>1. frame[u] \notin Inserted
    BY <1>1 DEF Inserted
  <2>. QED
    BY <1>1, <2>1, RunningFacts, ConstantsAssumption
       DEF JoinLink, Inv, TypeOK, StackType, Inserted, FrameOK, JoinLinks, Joins
<1>3. PlaceInv'
  BY <1>2, PlaceUnchanged DEF JoinLink, pVars, schedVars
<1>4. BitInv'
  BY <1>1, <1>2 DEF JoinLink, Inv, TypeOK, UtType, BitInv, SleepBits, ExitedBits,
                    OnThread, pVars, schedVars
<1>5. JoinLinks'
  <2>1. \A v \in Ut : Joins(v) => Joins(v)'
    BY <1>1, <1>2 DEF Joins, JoinLink, pVars
  <2>2. Joins(u)'
    BY <1>1, <1>2 DEF Joins, JoinLink
  <2>3. \A t \in live : ut_joined'[t] = ut_joined[t] \/ (ut_joined'[t] = u /\ t = target[u])
    BY DEF JoinLink, Inv, TypeOK, UtType
  <2>. QED
    BY <1>1, <2>1, <2>2, <2>3 DEF JoinLink, Inv, TypeOK, UtType, JoinLinks
<1>6. FrameOK'
  BY <1>1, <1>2 DEF JoinLink, Inv, TypeOK, UtType, PType, FrameOK, IoFrame, pVars
<1>. QED
  BY <1>3, <1>4, <1>5, <1>6 DEF Others

LEMMA EventAddInv ==
    ASSUME Inv, NEW u \in Ut, NEW fd \in Fd, NEW e \in Event, EventAdd(u, fd, e)
    PROVE  Others'
<1>1. /\ u \in live /\ u \notin sleeping /\ u \notin waiting /\ outcome = "up"
      /\ "SLEEPING" \notin status[u] /\ "EXITED" \notin status[u]
      /\ frame[u] = "user" /\ cur_uthread = u /\ control = "uthread"
      /\ \A v \in live : ut_joined[v] # u
  BY RunningFacts DEF EventAdd, InUser
<1>2. /\ \A v \in Ut \ {u} : /\ frame'[v] = frame[v] /\ fd_wait'[v] = fd_wait[v]
                             /\ status'[v] = status[v]
      /\ frame'[u] = "io_added" /\ frame[u] \notin Inserted
      /\ frame'[u] \notin Inserted
      /\ "SLEEPING" \notin status'[u] /\ "EXITED" \notin status'[u]
  BY <1>1, NotMidway
     DEF EventAdd, Inv, TypeOK, UtType, StackType, Inserted, WaitBit
<1>3. PlaceInv'
  BY <1>2, PlaceUnchanged DEF EventAdd, pVars, schedVars
<1>4. BitInv'
  BY <1>1, <1>2 DEF EventAdd, Inv, TypeOK, UtType, BitInv, SleepBits, ExitedBits,
                    OnThread, pVars, schedVars
<1>5. JoinLinks'
  BY <1>1, <1>2 DEF EventAdd, Inv, TypeOK, UtType, JoinLinks, Joins, pVars
<1>6. FrameOK'
  BY <1>1, <1>2 DEF EventAdd, Inv, TypeOK, UtType, PType, FrameOK, IoFrame, pVars
<1>. QED
  BY <1>3, <1>4, <1>5, <1>6 DEF Others

LEMMA EventWaitInv ==
    ASSUME Inv, NEW u \in Ut, EventWait(u)
    PROVE  Others'
<1>1. /\ u \in live /\ outcome = "up" /\ frame[u] = "io_added"
      /\ cur_uthread = u /\ control = "uthread"
      /\ "SLEEPING" \notin status[u] /\ "EXITED" \notin status[u]
  BY RunningFacts DEF EventWait, InCall
<1>2. /\ \A v \in Ut \ {u} : frame'[v] = frame[v]
      /\ frame'[u] = "io_waiting" /\ frame[u] \notin Inserted
      /\ frame'[u] \notin Inserted /\ u \notin sleeping
      /\ waiting' \subseteq waiting \cup {u}
  <2>1. frame[u] \notin Inserted
    BY <1>1 DEF Inserted
  <2>. QED
    BY <1>1, <2>1, RunningFacts DEF EventWait, Inv, TypeOK, StackType, Inserted
<1>3. PlaceInv'
  BY <1>2, PlaceUnchanged DEF EventWait, utVars, schedVars
<1>4. BitInv'
  BY <1>1, <1>2 DEF EventWait, Inv, TypeOK, UtType, BitInv, SleepBits, ExitedBits,
                    OnThread, utVars, schedVars
<1>5. JoinLinks'
  BY <1>1, <1>2 DEF EventWait, Inv, TypeOK, UtType, JoinLinks, Joins, utVars
<1>6. FrameOK'
  BY <1>1, <1>2 DEF EventWait, Inv, TypeOK, UtType, PType, FrameOK, IoFrame, utVars
<1>. QED
  BY <1>3, <1>4, <1>5, <1>6 DEF Others

(* Where _uthread_sched_sleep stands between RB_INSERT and the SLEEPING bit. *)
SleepPoint == {<<"join_linked", "join_inserted">>, <<"io_waiting", "io_inserted">>}
BitPoint == {<<"join_inserted", "join">>, <<"io_inserted", "io">>}

LEMMA SleepInsertInv ==
    ASSUME Inv, NEW u \in Ut, NEW point, NEW next, <<point, next>> \in SleepPoint,
           NEW timeout, SleepInsert(u, point, timeout, next)
    PROVE  Others'
<1>1. /\ u \in live /\ outcome = "up" /\ frame[u] = point
      /\ cur_uthread = u /\ control = "uthread" /\ ~ InReady(u)
      /\ "SLEEPING" \notin status[u] /\ "EXITED" \notin status[u]
  BY RunningFacts DEF SleepInsert, InCall
<1>2. \/ point = "join_linked" /\ next = "join_inserted"
      \/ point = "io_waiting" /\ next = "io_inserted"
  BY DEF SleepPoint
<1>3. point \notin Inserted /\ next \in Inserted /\ next \in Midway
  BY <1>2 DEF Inserted, Midway
<1>4. UNCHANGED <<live, status, ut_joined, fd_wait, target, ready, waiting,
                  cur_uthread, control>>
  BY DEF SleepInsert, schedVars
<1>5. CASE outcome' = "abort_sleep_insert" /\ UNCHANGED <<sleeping, frame>>
  BY <1>4, <1>5, Unmoved
<1>6. CASE /\ sleeping' = sleeping \cup {u} /\ frame' = [frame EXCEPT ![u] = next]
           /\ outcome' = outcome
  <2>1. frame'[u] = next /\ \A v \in Ut \ {u} : frame'[v] = frame[v]
    BY <1>6 DEF Inv, TypeOK, StackType
  <2>2. PlaceInv'
    <3>1. OnePlace'
      BY <1>1, <1>3, <1>4, <1>6, <2>1 DEF Inv, PlaceInv, OnePlace, InReady, OnThread
    <3>2. PlacedLive'
      BY <1>1, <1>4, <1>6 DEF Inv, PlaceInv, PlacedLive, InReady, OnThread
    <3>. QED
      BY <1>4, <3>1, <3>2 DEF Inv, PlaceInv
  <2>3. BitInv'
    BY <1>1, <1>3, <1>4, <1>6, <2>1
       DEF Inv, TypeOK, UtType, BitInv, SleepBits, ExitedBits, OnThread
  <2>4. JoinLinks'
    <3>1. \A v \in Ut : Joins(v) => Joins(v)'
      BY <1>1, <1>2, <1>4, <1>6, <2>1 DEF Joins
    <3>. QED
      BY <1>4, <1>6, <3>1 DEF Inv, TypeOK, UtType, JoinLinks
  <2>5. FrameOK'
    BY <1>1, <1>2, <1>3, <1>4, <1>6, <2>1
       DEF Inv, TypeOK, UtType, PType, FrameOK, IoFrame
  <2>. QED
    BY <2>2, <2>3, <2>4, <2>5 DEF Others
<1>. QED
  BY <1>5, <1>6 DEF SleepInsert

LEMMA SleepBitInv ==
    ASSUME Inv, NEW u \in Ut, NEW point, NEW next, <<point, next>> \in BitPoint,
           SleepBit(u, point, next)
    PROVE  Others'
<1>1. /\ u \in live /\ outcome = "up" /\ frame[u] = point
      /\ cur_uthread = u /\ control = "uthread" /\ ~ InReady(u)
      /\ "EXITED" \notin status[u]
  BY RunningFacts DEF SleepBit, InCall
<1>2. \/ point = "join_inserted" /\ next = "join"
      \/ point = "io_inserted" /\ next = "io"
  BY DEF BitPoint
<1>3. point \in Inserted /\ next \notin Inserted /\ next \notin Midway
  BY <1>2 DEF Inserted, Midway
<1>4. /\ UNCHANGED <<live, ut_joined, fd_wait, target, ready, waiting, sleeping,
                     cur_uthread, outcome>>
      /\ control' = "resume"
      /\ frame'[u] = next /\ \A v \in Ut \ {u} : frame'[v] = frame[v]
      /\ status'[u] = status[u] \cup {"SLEEPING"}
      /\ \A v \in Ut \ {u} : status'[v] = status[v]
  BY DEF SleepBit, pVars, Inv, TypeOK, UtType, StackType
<1>5. u \in sleeping
  BY <1>1, <1>3 DEF Inv, BitInv, SleepBits
<1>6. PlaceInv'
  BY <1>1, <1>4, PlaceLeft
<1>7. BitInv'
  BY <1>1, <1>3, <1>4, <1>5
     DEF Inv, TypeOK, UtType, BitInv, SleepBits, ExitedBits, OnThread
<1>8. JoinLinks'
  <2>1. \A v \in Ut : Joins(v) => Joins(v)'
    BY <1>1, <1>2, <1>4, <1>5 DEF Joins
  <2>. QED
    BY <1>4, <2>1 DEF Inv, TypeOK, UtType, JoinLinks
<1>9. FrameOK'
  BY <1>1, <1>2, <1>4, <1>5 DEF Inv, TypeOK, UtType, PType, FrameOK, IoFrame
<1>. QED
  BY <1>6, <1>7, <1>8, <1>9 DEF Others

LEMMA CallStepInv ==
    ASSUME Inv, NEW u \in Ut, CallStep(u)
    PROVE  Others'
<1>1. ASSUME NEW t \in Ut, JoinCheck(u, t) PROVE Others'
  BY <1>1, JoinCheckInv
<1>2. CASE JoinLink(u)
  BY <1>2, JoinLinkInv
<1>3. ASSUME NEW fd \in Fd, NEW e \in Event, EventAdd(u, fd, e) PROVE Others'
  BY <1>3, EventAddInv
<1>4. CASE EventWait(u)
  BY <1>4, EventWaitInv
<1>5. CASE SleepInsert(u, "join_linked", JoinTimeout, "join_inserted")
  BY <1>5, SleepInsertInv DEF SleepPoint
<1>6. ASSUME NEW t \in IoTimeouts, SleepInsert(u, "io_waiting", t, "io_inserted")
      PROVE  Others'
  BY <1>6, SleepInsertInv DEF SleepPoint
<1>7. CASE SleepBit(u, "join_inserted", "join")
  BY <1>7, SleepBitInv DEF BitPoint
<1>8. CASE SleepBit(u, "io_inserted", "io")
  BY <1>8, SleepBitInv DEF BitPoint
<1>. QED
  BY <1>1, <1>2, <1>3, <1>4, <1>5, <1>6, <1>7, <1>8 DEF CallStep

-----------------------------------------------------------------------------
(* What a signal inside of a call brings about. *)

(* Only the steps of CallStep leave a coroutine midway. *)
LEMMA MidwayBySignal ==
    ASSUME Inv, Next, NEW u \in Ut, frame'[u] \in Midway
    PROVE  "signals" \in Features
<1>. SUFFICES ASSUME frame[u] \notin Midway PROVE "signals" \in Features
  BY DEF Inv, TwiceBySignal
<1>1. frame'[u] # frame[u] /\ frame'[u] \notin {"none", "user", "join", "io"}
  BY NotMidway
<1>2. ASSUME NEW v \in Ut, CallStep(v) PROVE "signals" \in Features
  <2>1. ASSUME NEW point, NEW next, NEW t, point \in Midway,
               SleepInsert(v, point, t, next) \/ SleepBit(v, point, next)
        PROVE  "signals" \in Features
    BY <2>1 DEF SleepInsert, SleepBit, InCall, Inv, TwiceBySignal
  <2>2. {"join_checked", "join_linked", "io_added", "io_waiting", "join_inserted",
         "io_inserted"} \subseteq Midway
    BY DEF Midway, Inserted
  <2>3. JoinLink(v) \/ EventWait(v) => "signals" \in Features
    BY <2>2 DEF JoinLink, EventWait, InCall, Inv, TwiceBySignal
  <2>. QED
    BY <1>2, <2>1, <2>2, <2>3 DEF CallStep, JoinCheck, EventAdd
<1>3. ASSUME NEW v \in Ut, UserCall(v) \/ _uthread_yield(v) \/ CallReturn(v)
                            \/ ResumeReturn(v)
      PROVE  FALSE
  BY <1>1, <1>3
     DEF Inv, TypeOK, StackType, UserCall, uthread_create, uthread_create_fails,
         uthread_exit, uthread_detach, uthread_join_exited, uthread_join,
         register_event_fails, _register_event, close, _uthread_yield, CallReturn,
         JoinReturn, EventReturn, ResumeReturn, ResumeExited, ResumeExitedTwice,
         QueuedAlready, ResumeSleeping, ResumeYielded, stackVars
<1>4. CASE SchedStep
  BY <1>1, <1>4
     DEF SchedStep, While, Done, ResumeExpired, ResumeExpiredTwice, QueuedAlready,
         ResumeExpiredFails, StartRound, RunReady, ReadyEmpty, _uthread_poll,
         _uthread_min_timeout, EpollReturns, EpollTimesOut, NextEvent, HandleRead,
         HandleWrite, handle_event, HandleEventNone, HandleEventFound,
         HandleEventFails, HandleEventTwice, stackVars
<1>5. CASE Tick \/ Stopped \/ \E fd \in Fd : KernelEvent(fd)
  BY <1>1, <1>5 DEF Tick, Stopped, KernelEvent, vars, stackVars
<1>. QED
  BY <1>2, <1>3, <1>4, <1>5 DEF Next

(* Who is in the ready queue and is woken all the same has been stopped     *)
(* inside of a call.                                                        *)
LEMMA WokenWhileQueued ==
    ASSUME Inv, NEW u \in Ut, NEW e,
           ResumeExitedTwice(u) \/ ResumeExpiredTwice(u)
              \/ (outcome = "up" /\ HandleEventTwice(u, e))
    PROVE  \E v \in Ut : InReady(v)' /\ frame'[v] \in Midway
<1>1. \A v : InReady(v)' <=> InReady(v)
  BY DEF ResumeExitedTwice, ResumeExpiredTwice, HandleEventTwice, QueuedAlready, pVars,
         InReady
<1>2. frame' = frame
  BY DEF ResumeExitedTwice, ResumeExpiredTwice, HandleEventTwice, QueuedAlready,
         stackVars
<1>3. CASE ResumeExitedTwice(u)
  <2>. DEFINE j == ut_joined[u]
  <2>1. u \in live /\ outcome = "up" /\ j # NULL /\ InReady(j) /\ j \in Ut
    BY <1>3, ResumedFacts DEF ResumeExitedTwice, Resumed, JoinerQueued, Inv, TypeOK, UtType
  <2>2. Joins(j)
    BY <2>1 DEF Inv, JoinLinks
  <2>3. frame[j] \in {"join_linked", "join_inserted"} \cup Inserted
    BY <2>1, <2>2 DEF Joins, Inv, PlaceInv, OnePlace
  <2>. QED
    BY <1>1, <1>2, <2>1, <2>3 DEF Midway, Inserted
<1>4. CASE ResumeExpiredTwice(u)
  <2>1. u \in sleeping /\ InReady(u)
    BY <1>4 DEF ResumeExpiredTwice, Due, EarliestSleeper
  <2>. QED
    BY <1>1, <1>2, <2>1, NotMidway DEF Inv, PlaceInv, OnePlace
<1>5. CASE outcome = "up" /\ HandleEventTwice(u, e)
  BY <1>1, <1>2, <1>5, WaiterFacts DEF HandleEventTwice, FindWaiter
<1>. QED
  BY <1>3, <1>4, <1>5

LEMMA TwiceStep ==
    ASSUME Inv, Next
    PROVE  TwiceBySignal'
<1>. SUFFICES ASSUME outcome' = "twice"
              PROVE  \E u \in Ut : InReady(u)' /\ frame'[u] \in Midway
  BY MidwayBySignal DEF TwiceBySignal
<1>1. CASE Stopped
  BY <1>1 DEF Inv, TwiceBySignal, Stopped, LoopAt, vars, pVars, stackVars, InReady
<1>2. ASSUME NEW v \in Ut, UserCall(v) \/ CallStep(v) \/ _uthread_yield(v)
                            \/ CallReturn(v)
      PROVE  FALSE
  <2>1. ASSUME NEW t, NEW bits, SchedSleep(v, t, bits), outcome = "up" PROVE FALSE
    BY <2>1 DEF SchedSleep
  <2>2. ASSUME NEW point, NEW next, NEW t,
               SleepInsert(v, point, t, next) \/ SleepBit(v, point, next)
        PROVE  FALSE
    BY <2>2 DEF SleepInsert, SleepBit, InCall
  <2>3. ASSUME CallStep(v) PROVE FALSE
    BY <2>2, <2>3 DEF CallStep, JoinCheck, JoinLink, EventAdd, EventWait, InUser, InCall
  <2>4. ASSUME UserCall(v) PROVE FALSE
    BY <2>1, <2>4
       DEF UserCall, uthread_create, uthread_create_fails, uthread_exit,
           uthread_detach, uthread_join_exited, uthread_join, register_event_fails,
           _register_event, close, InUser
  <2>. QED
    BY <1>2, <2>3, <2>4 DEF _uthread_yield, CallReturn, JoinReturn, EventReturn
<1>3. ASSUME NEW v \in Ut, ResumeReturn(v) PROVE ResumeExitedTwice(v)
  BY <1>3 DEF ResumeReturn, ResumeExited, ResumeSleeping, ResumeYielded, Resumed
<1>4. ASSUME NEW e, NEW next, outcome = "up", handle_event(e, next)
      PROVE  \E v \in Ut : HandleEventTwice(v, e)
  BY <1>4 DEF handle_event, HandleEventNone, HandleEventFound, HandleEventFails
<1>5. CASE SchedStep
  <2>1. \/ \E v \in Ut : ResumeExpiredTwice(v)
        \/ HandleRead \/ HandleWrite
    BY <1>5
       DEF SchedStep, While, Done, ResumeExpired, ResumeExpiredFails, StartRound,
           RunReady, ReadyEmpty, _uthread_poll, _uthread_min_timeout, EpollReturns,
           EpollTimesOut, NextEvent, LoopAt
  <2>. QED
    BY <1>4, <2>1, WokenWhileQueued DEF HandleRead, HandleWrite, LoopAt
<1>6. CASE Tick \/ \E fd \in Fd : KernelEvent(fd)
  BY <1>6 DEF Tick, KernelEvent
<1>. QED
  BY <1>1, <1>2, <1>3, <1>5, <1>6, WokenWhileQueued DEF Next

LEMMA InvStep == Inv /\ [Next]_vars => Inv'
<1>. SUFFICES ASSUME Inv, [Next]_vars PROVE Inv'
  OBVIOUS
<1>1. TypeOK'
  BY TypeStep DEF Inv
<1>2. Others'
  <2>1. CASE SchedStep
    BY <2>1, SchedStepInv
  <2>2. ASSUME NEW u \in Ut,
               UserCall(u) \/ CallStep(u) \/ _uthread_yield(u) \/ CallReturn(u)
                  \/ ResumeReturn(u)
        PROVE  Others'
    <3>1. ASSUME ResumeExitedTwice(u) PROVE Others'
      BY <3>1, Unmoved
         DEF ResumeExitedTwice, QueuedAlready, Resumed, utVars, stackVars, pVars, schedVars
    <3>. QED
      BY <2>2, <3>1, UserCallInv, CallStepInv, YieldInv, JoinReturnInv, EventReturnInv,
         ResumeExitedInv, ResumeSleepingInv, ResumeYieldedInv DEF CallReturn, ResumeReturn
  <2>3. CASE Tick
    BY <2>3, Unmoved DEF Tick, utVars, stackVars, pVars, schedVars
  <2>4. ASSUME NEW fd \in Fd, KernelEvent(fd) PROVE Others'
    BY <2>4, Unmoved DEF KernelEvent, utVars, stackVars, pVars, schedVars
  <2>5. CASE Stopped \/ UNCHANGED vars
    BY <2>5, Unmoved DEF Stopped, vars, utVars, stackVars, pVars, schedVars
  <2>. QED
    BY <2>1, <2>2, <2>3, <2>4, <2>5 DEF Next
<1>3. TwiceBySignal'
  <2>1. CASE UNCHANGED vars
    BY <2>1 DEF Inv, TwiceBySignal, vars, pVars, stackVars, InReady
  <2>. QED
    BY <2>1, TwiceStep
<1>. QED
  BY <1>1, <1>2, <1>3 DEF Inv, Others

(* The invariant holds in every reachable state, whatever the program does  *)
(* with its fds and its handles and whatever fails: no coroutine is in two  *)
(* of the runtime's places, and none of those places names a freed block.   *)
THEOREM InvariantHolds == Spec => []Inv
BY InvInit, InvStep, PTL DEF Spec

(* TAILQ_INSERT_TAIL is never called on a coroutine that is in the ready    *)
(* queue, and none runs while it is queued or asleep, unless SIGUSR1 has    *)
(* stopped it in the middle of uthread_join or _register_event.             *)
THEOREM NeverTwiceHolds == Spec => []NeverTwice
<1>1. Inv => NeverTwice
  BY DEF Inv, PlaceInv, NeverTwice
<1>. QED
  BY <1>1, InvariantHolds, PTL

-----------------------------------------------------------------------------
(* Without a signal inside of a call, no coroutine is midway of one. *)
LEMMA NoneMidway ==
    ASSUME Inv, "signals" \notin Features
    PROVE  /\ outcome # "twice"
           /\ \A u \in Ut : frame[u] \in {"none", "user", "join", "io"}
           /\ \A u \in Ut : frame[u] \notin Midway /\ frame[u] \notin Inserted
BY NotMidway DEF Inv, TypeOK, StackType, TwiceBySignal, Frame

(* As long as signals stay out of uthread_join and _register_event, nobody  *)
(* is in two places: who is in the ready queue neither sleeps nor runs, and *)
(* neither an end, nor a timeout, nor an event wakes him.                   *)
THEOREM OnePlaceWithoutSignals ==
    ASSUME "signals" \notin Features
    PROVE  Spec => [](/\ outcome # "twice"
                      /\ \A u \in Ut : InReady(u) => u \notin sleeping /\ cur_uthread # u)
<1>1. Inv => /\ outcome # "twice"
             /\ \A u \in Ut : InReady(u) => u \notin sleeping /\ cur_uthread # u
  BY NoneMidway DEF Inv, PlaceInv, OnePlace
<1>. QED
  BY <1>1, InvariantHolds, PTL

-----------------------------------------------------------------------------
(* Who is taken out of the sleeping tree, and when. *)

LEMMA WakesOnExit ==
    ASSUME Inv, Next, NEW u \in Ut
    PROVE  JoinerSleepsOn(u)
<1>. SUFFICES ASSUME u \in sleeping, frame[u] = "join", u \notin sleeping'
              PROVE  target[u] \notin live' /\ "EXITED" \in status[target[u]]
  BY DEF JoinerSleepsOn
<1>1. ASSUME NEW v \in Ut, UserCall(v) PROVE FALSE
  <2>1. ASSUME NEW t, NEW bits, SchedSleep(v, t, bits) PROVE FALSE
    BY <2>1 DEF SchedSleep
  <2>2. ASSUME NEW a \in Ut, uthread_create(v, a) \/ uthread_create_fails(v, a)
        PROVE  FALSE
    BY <2>2 DEF uthread_create, uthread_create_fails, pVars
  <2>3. ASSUME NEW t \in Ut, uthread_join(v, t) PROVE FALSE
    BY <2>1, <2>3 DEF uthread_join
  <2>4. ASSUME NEW fd \in Fd, NEW e \in Event, NEW t \in IoTimeouts,
               _register_event(v, fd, e, t)
        PROVE  FALSE
    BY <2>1, <2>4 DEF _register_event
  <2>. QED
    BY <1>1, <2>2, <2>3, <2>4
       DEF UserCall, uthread_exit, uthread_detach, uthread_join_exited,
           register_event_fails, close, pVars
<1>2. ASSUME NEW v \in Ut, ResumeExited(v)
      PROVE  target[u] \notin live' /\ "EXITED" \in status[target[u]]
  <2>1. v \in live /\ outcome = "up" /\ live' = live \ {v} /\ "EXITED" \in status[v]
    BY <1>2, ResumedFacts DEF ResumeExited, Resumed, _uthread_free
  <2>2. ut_joined[v] # NULL /\ u = ut_joined[v]
    BY <1>2 DEF ResumeExited, WakeJoiner, DeschedSleep
  <2>. QED
    BY <2>1, <2>2 DEF Inv, JoinLinks
<1>9. ASSUME NEW v \in Ut, CallStep(v) PROVE FALSE
  BY <1>9 DEF CallStep, JoinCheck, JoinLink, EventAdd, EventWait, SleepInsert, SleepBit,
              pVars
<1>3. ASSUME NEW v \in Ut, ResumeExpired(v) PROVE FALSE
  <2>1. v \in sleeping /\ fd_wait[v] # NULL /\ v \in live /\ outcome = "up"
    BY <1>3 DEF ResumeExpired, LoopAt, Due, EarliestSleeper, Registered, Inv,
                BitInv, SleepBits
  <2>2. u \in {v} \cup FindWaiter(fd_wait[v])
    BY <1>3 DEF ResumeExpired, DeschedSleep
  <2>. QED
    BY <2>1, <2>2 DEF FindWaiter, Inv, FrameOK, IoFrame
<1>4. ASSUME NEW v \in Ut, NEW e, NEW next, outcome = "up", HandleEventFound(v, e, next)
      PROVE  FALSE
  <2>1. u = v /\ v \in waiting
    BY <1>4 DEF HandleEventFound, DeschedSleep, FindWaiter
  <2>. QED
    BY <1>4, <2>1 DEF Inv, FrameOK
<1>5. ASSUME NEW e, NEW next, outcome = "up", handle_event(e, next) PROVE FALSE
  BY <1>4, <1>5 DEF handle_event, HandleEventNone, HandleEventFails, HandleEventTwice
<1>6. CASE SchedStep
  BY <1>3, <1>5, <1>6
     DEF SchedStep, While, Done, ResumeExpiredFails, ResumeExpiredTwice, QueuedAlready,
         StartRound, RunReady, ReadyEmpty, _uthread_poll, _uthread_min_timeout,
         EpollReturns, EpollTimesOut, NextEvent, HandleRead, HandleWrite, LoopAt, pVars
<1>7. ASSUME NEW v \in Ut, _uthread_yield(v) \/ CallReturn(v) \/ ResumeReturn(v)
      PROVE  target[u] \notin live' /\ "EXITED" \in status[target[u]]
  BY <1>2, <1>7 DEF _uthread_yield, CallReturn, JoinReturn, EventReturn, ResumeReturn,
                    ResumeExitedTwice, QueuedAlready, ResumeSleeping, ResumeYielded, pVars
<1>8. CASE Tick \/ Stopped \/ \E fd \in Fd : KernelEvent(fd)
  BY <1>8 DEF Tick, Stopped, KernelEvent, vars, pVars
<1>. QED
  BY <1>1, <1>6, <1>7, <1>8, <1>9 DEF Next

(* Whoever sleeps in uthread_join is taken out of the sleeping tree by the  *)
(* end of the coroutine it joined and by nothing else.                      *)
THEOREM JoinWakes == Spec => JoinWakesOnExit
<1>1. Inv /\ [Next]_vars => [\A u \in Ut : JoinerSleepsOn(u)]_vars
  BY WakesOnExit
<1>. QED
  BY <1>1, InvariantHolds, PTL DEF Spec, JoinWakesOnExit

-----------------------------------------------------------------------------
(* Only the end of a coroutine sets its EXITED bit. *)

LEMMA ExitedBitSet ==
    ASSUME Inv, Next, NEW t \in Ut,
           "EXITED" \in status'[t], "EXITED" \notin status[t]
    PROVE  uthread_exit(t)
<1>. USE DEF Inv, TypeOK, UtType
<1>1. ASSUME NEW v \in Ut, NEW tm, NEW bits, SchedSleep(v, tm, bits),
             "EXITED" \in bits => "EXITED" \in status[v]
      PROVE  FALSE
  BY <1>1 DEF SchedSleep
<1>2. ASSUME NEW v \in Ut, UserCall(v) PROVE uthread_exit(t)
  <2>1. ASSUME NEW a \in Ut, uthread_create(v, a) \/ uthread_create_fails(v, a)
        PROVE  FALSE
    BY <2>1 DEF uthread_create, uthread_create_fails
  <2>2. ASSUME uthread_exit(v) PROVE uthread_exit(t)
    BY <2>2 DEF uthread_exit
  <2>3. ASSUME NEW w \in Ut, uthread_detach(v, w) PROVE FALSE
    BY <2>3 DEF uthread_detach
  <2>4. ASSUME NEW w \in Ut, uthread_join(v, w) PROVE FALSE
    BY <1>1, <2>4 DEF uthread_join
  <2>5. ASSUME NEW fd \in Fd, NEW e \in Event, NEW tm \in IoTimeouts,
               _register_event(v, fd, e, tm)
        PROVE  FALSE
    BY <1>1, <2>5 DEF _register_event, WaitBit
  <2>. QED
    BY <1>2, <2>1, <2>2, <2>3, <2>4, <2>5
       DEF UserCall, uthread_join_exited, register_event_fails, close, utVars
<1>3. ASSUME NEW v \in Ut, ResumeExited(v) PROVE FALSE
  BY <1>3 DEF ResumeExited, WakeJoiner, DeschedBits
<1>4. ASSUME NEW v \in Ut, ResumeExpired(v) PROVE FALSE
  BY <1>4 DEF ResumeExpired, Resume, InitBits, DeschedBits, ClearWaitBits
<1>5. ASSUME NEW e, NEW next, handle_event(e, next) PROVE FALSE
  <2>1. ASSUME NEW v \in Ut, HandleEventFound(v, e, next) PROVE FALSE
    <3>. DEFINE eof == IF event[2] THEN {"FDEOF"} ELSE {}
                woken == ClearWaitBits(DeschedBits(status[v])) \cup eof
    <3>1. "EXITED" \in woken => "EXITED" \in status[v]
      BY DEF ClearWaitBits, DeschedBits
    <3>2. "EXITED" \in InitBits(woken) => "EXITED" \in woken
      BY DEF InitBits
    <3>3. status' = [status EXCEPT ![v] = InitBits(woken)]
      BY <2>1 DEF HandleEventFound, Resume
    <3>. QED
      BY <3>1, <3>2, <3>3
  <2>. QED
    BY <1>5, <2>1 DEF handle_event, HandleEventNone, HandleEventFails, HandleEventTwice,
                      utVars
<1>6. ASSUME RunReady PROVE FALSE
  BY <1>6 DEF RunReady, Resume, InitBits
<1>7. CASE SchedStep
  BY <1>4, <1>5, <1>6, <1>7
     DEF SchedStep, While, Done, ResumeExpiredFails, ResumeExpiredTwice, QueuedAlready,
         StartRound, ReadyEmpty, _uthread_poll, _uthread_min_timeout, EpollReturns, EpollTimesOut, NextEvent,
         HandleRead, HandleWrite, utVars
<1>8. ASSUME NEW v \in Ut, _uthread_yield(v) \/ CallReturn(v) \/ ResumeReturn(v)
      PROVE  FALSE
  BY <1>3, <1>8 DEF _uthread_yield, CallReturn, JoinReturn, EventReturn, ResumeReturn,
                    ResumeExitedTwice, QueuedAlready, ResumeSleeping, ResumeYielded, utVars
<1>10. ASSUME NEW v \in Ut, CallStep(v) PROVE FALSE
  BY <1>10 DEF CallStep, JoinCheck, JoinLink, EventAdd, WaitBit, EventWait, SleepInsert,
               SleepBit, utVars
<1>9. CASE Tick \/ Stopped \/ \E fd \in Fd : KernelEvent(fd)
  BY <1>9 DEF Tick, Stopped, KernelEvent, vars, utVars
<1>. QED
  BY <1>2, <1>7, <1>8, <1>9, <1>10 DEF Next

(* The value of uthread_exit is stored into the frame of a uthread_join of  *)
(* this coroutine that has not returned.                                    *)
THEOREM ResultOwned == Spec => ResultHasOwner
<1>1. ASSUME Inv, Next, NEW t \in Ut PROVE StoresIntoJoin(t)
  <2>. SUFFICES ASSUME "EXITED" \in status'[t] \ status[t], ut_joined[t] # NULL
                PROVE  Joins(ut_joined[t]) /\ target[ut_joined[t]] = t
    BY DEF StoresIntoJoin
  <2>1. uthread_exit(t)
    BY <1>1, ExitedBitSet
  <2>2. outcome = "up" /\ control = "uthread" /\ cur_uthread = t
    BY <2>1 DEF uthread_exit, InUser
  <2>3. t \in live
    BY <1>1, <2>2, RunningFacts
  <2>. QED
    BY <1>1, <2>2, <2>3 DEF Inv, JoinLinks
<1>2. Inv /\ [Next]_vars => [\A t \in Ut : StoresIntoJoin(t)]_vars
  BY <1>1
<1>. QED
  BY <1>2, InvariantHolds, PTL DEF Spec, ResultHasOwner

-----------------------------------------------------------------------------
(* The number of coroutines *)

(* Who comes into existence and who ceases to exist: a step changes live    *)
(* and n_uthread together, or leaves both alone.                            *)
LEMMA CountStep ==
    ASSUME Inv, Next
    PROVE  \/ \E a \in Ut \ live : live' = live \cup {a} /\ n_uthread' = n_uthread + 1
                                  /\ outcome = "up" /\ outcome' = "up"
           \/ /\ "stack_fails" \in Features /\ live' = live
              /\ n_uthread' = n_uthread + 1 /\ outcome = "up" /\ outcome' = "up"
           \/ \E u \in live : live' = live \ {u} /\ n_uthread' = n_uthread - 1
                             /\ outcome = "up" /\ outcome' = "up"
           \/ /\ UNCHANGED <<live, n_uthread>>
              /\ outcome' = "exit" => outcome = "exit" \/ n_uthread = 0
<1>. DEFINE Unchanged == /\ UNCHANGED <<live, n_uthread>>
                         /\ outcome' = "exit" => outcome = "exit" \/ n_uthread = 0
<1>1. ASSUME NEW v \in Ut, NEW a \in Ut, uthread_create(v, a)
      PROVE  /\ a \in Ut \ live /\ live' = live \cup {a} /\ n_uthread' = n_uthread + 1
             /\ outcome = "up" /\ outcome' = "up"
  BY <1>1 DEF uthread_create, TakeId, InUser
<1>2. ASSUME NEW v \in Ut, NEW a \in Ut, uthread_create_fails(v, a)
      PROVE  /\ "stack_fails" \in Features /\ live' = live
             /\ n_uthread' = n_uthread + 1 /\ outcome = "up" /\ outcome' = "up"
  BY <1>2 DEF uthread_create_fails, TakeId, InUser
<1>3. ASSUME NEW v \in Ut, NEW t, NEW bits, SchedSleep(v, t, bits)
      PROVE  outcome' = "exit" => outcome = "exit"
  BY <1>3 DEF SchedSleep
<1>4. ASSUME NEW v \in Ut, UserCall(v),
             \A a \in Ut : ~ uthread_create(v, a) /\ ~ uthread_create_fails(v, a)
      PROVE  Unchanged
  <2>1. ASSUME NEW t \in Ut, uthread_join(v, t) PROVE Unchanged
    BY <1>3, <2>1 DEF uthread_join, globalVars
  <2>2. ASSUME NEW fd \in Fd, NEW e \in Event, NEW t \in IoTimeouts,
               _register_event(v, fd, e, t)
        PROVE  Unchanged
    BY <1>3, <2>2 DEF _register_event, globalVars
  <2>. QED
    BY <1>4, <2>1, <2>2
       DEF UserCall, uthread_exit, uthread_detach, uthread_join_exited,
           register_event_fails, close, utVars, globalVars
<1>5. ASSUME NEW v \in Ut, ResumeExited(v)
      PROVE  /\ v \in live /\ live' = live \ {v} /\ n_uthread' = n_uthread - 1
             /\ outcome = "up" /\ outcome' = "up"
  BY <1>5, ResumedFacts DEF ResumeExited, _uthread_free, Resumed
<1>6. ASSUME NEW v \in Ut, ResumeExpired(v) PROVE Unchanged
  BY <1>6 DEF ResumeExpired, globalVars
<1>7. ASSUME NEW e, NEW next, handle_event(e, next)
      PROVE  live' = live /\ (outcome' = "exit" => outcome = "exit")
  BY <1>7 DEF handle_event, HandleEventNone, HandleEventFound, HandleEventFails,
              HandleEventTwice, utVars
<1>8. ASSUME SchedStep PROVE Unchanged
  <2>1. ASSUME Done PROVE Unchanged
    BY <2>1 DEF Done, utVars, globalVars
  <2>. QED
    BY <1>6, <1>7, <1>8, <2>1
       DEF SchedStep, While, ResumeExpiredFails, ResumeExpiredTwice, QueuedAlready,
           StartRound, RunReady, ReadyEmpty, _uthread_poll, _uthread_min_timeout, EpollReturns, EpollTimesOut, NextEvent,
           HandleRead, HandleWrite, utVars, globalVars
<1>9. ASSUME NEW v \in Ut, _uthread_yield(v) \/ CallReturn(v) \/ ResumeSleeping(v)
                            \/ ResumeYielded(v) \/ ResumeExitedTwice(v) \/ CallStep(v)
      PROVE  Unchanged
  <2>1. ASSUME CallStep(v) PROVE Unchanged
    BY <2>1 DEF CallStep, JoinCheck, JoinLink, EventAdd, EventWait, SleepInsert, SleepBit,
                utVars, globalVars
  <2>. QED
    BY <1>9, <2>1
       DEF _uthread_yield, CallReturn, JoinReturn, EventReturn, ResumeSleeping,
           ResumeYielded, ResumeExitedTwice, QueuedAlready, utVars, globalVars
<1>10. ASSUME Tick \/ Stopped \/ \E fd \in Fd : KernelEvent(fd) PROVE Unchanged
  BY <1>10 DEF Tick, Stopped, KernelEvent, vars, utVars, globalVars
<1>11. ASSUME NEW v \in Ut, UserCall(v)
       PROVE  \/ \E a \in Ut : uthread_create(v, a) \/ uthread_create_fails(v, a)
              \/ Unchanged
  BY <1>4, <1>11
<1>. HIDE DEF Unchanged
<1>12. \/ \E v, a \in Ut : uthread_create(v, a) \/ uthread_create_fails(v, a)
       \/ \E v \in Ut : ResumeExited(v)
       \/ Unchanged
  BY <1>8, <1>9, <1>10, <1>11 DEF Next, ResumeReturn
<1>. QED
  BY <1>1, <1>2, <1>5, <1>12 DEF Unchanged

LEMMA CountInv ==
    ASSUME Inv, CountOK, [Next]_vars
    PROVE  CountOK'
<1>1. IsFiniteSet(live) /\ Cardinality(live) \in Nat /\ n_uthread \in Int
  BY ConstantsAssumption, FS_Subset, FS_CardinalityType
     DEF Inv, TypeOK, UtType, GlobalType
<1>2. ASSUME NEW a \in Ut \ live, live' = live \cup {a}
      PROVE  Cardinality(live') = Cardinality(live) + 1
  BY <1>1, <1>2, FS_AddElement
<1>3. ASSUME NEW u \in live, live' = live \ {u}
      PROVE  Cardinality(live') = Cardinality(live) - 1
  BY <1>1, <1>3, FS_RemoveElement
<1>4. ASSUME n_uthread = 0 PROVE live = {}
  <2>1. Cardinality(live) = 0
    BY <1>1, <1>4 DEF CountOK
  <2>. QED
    BY <1>1, <2>1, FS_EmptySet
<1>5. CASE Next
  BY <1>1, <1>2, <1>3, <1>4, <1>5, CountStep DEF CountOK
<1>6. CASE UNCHANGED vars
  BY <1>6 DEF CountOK, vars, utVars, globalVars
<1>. QED
  BY <1>5, <1>6

(* n_uthread counts the coroutines, plus one for every create that failed   *)
(* to get a stack.  So the process exits only when no coroutine is left,    *)
(* and not while one sleeps or was forgotten.                               *)
THEOREM CountHolds == Spec => []CountOK
<1>1. Init => CountOK
  <2>1. Cardinality({Main}) = 1
    BY FS_Singleton
  <2>. QED
    BY <2>1 DEF Init, _uthread_create_main, CountOK
<1>2. Inv /\ CountOK /\ [Next]_vars => CountOK'
  BY CountInv
<1>. QED
  BY <1>1, <1>2, InvariantHolds, PTL DEF Spec

=============================================================================
