-------------------------- MODULE UthreadJoinProofs --------------------------
(***************************************************************************)
(* No joiner is left behind, and the scheduler implements RunQueue, if     *)
(* signals stay out of uthread_join and _register_event.                   *)
(***************************************************************************)
EXTENDS UthreadEpollProofs

-----------------------------------------------------------------------------
(* No joiner is left behind, as long as creates get their stacks and no     *)
(* joiner carries the EXPIRED bit of an earlier wait.                       *)

(* uthread_join takes the EXPIRED bit, which nothing ever clears, for the   *)
(* end of its own timeout, and resets the link of whatever its target's     *)
(* block holds by then.                                                     *)
JoinersUnexpired == \A u \in Ut : frame[u] = "join" => "EXPIRED" \notin status[u]

(* A freed block that the program has a handle for says that it is over, so *)
(* that uthread_join returns at once.  (A create that fails zeroes a block  *)
(* and frees it: that is what makes this false with "stack_fails".)         *)
FreedExited == \A t \in Ut \ live : frame[t] # "none" => "EXITED" \in status[t]

(* A coroutine joins another one, and only inside uthread_join has a target. *)
TargetOK ==
    \A u \in Ut : IF frame[u] = "join" THEN target[u] \in Ut \ {u} ELSE target[u] = NULL

LinkInv == NoLostJoiner /\ FreedExited /\ TargetOK

(* Steps that change no link, no target and no freed block. *)
LEMMA LinkKept ==
    ASSUME LinkInv, outcome' = "up" => outcome = "up",
           \A v \in sleeping' : frame[v] = "join" => v \in sleeping,
           \A v \in Ut : "EXITED" \in status[v] /\ v \notin live => "EXITED" \in status'[v],
           UNCHANGED <<live, ut_joined, frame, target>>
    PROVE  LinkInv'
BY DEF LinkInv, NoLostJoiner, FreedExited, TargetOK

LEMMA CreateLinks ==
    ASSUME Whole, LinkInv, NEW u \in Ut, NEW a \in Ut, uthread_create(u, a)
    PROVE  LinkInv'
<1>1. a \notin live /\ outcome = "up" /\ a \notin sleeping /\ live' = live \cup {a}
  BY DEF uthread_create, InUser, Whole, Inv, BitInv, WholeBits
<1>2. /\ \A v \in Ut \ {a} : /\ frame'[v] = frame[v] /\ target'[v] = target[v]
                             /\ ut_joined'[v] = ut_joined[v] /\ status'[v] = status[v]
      /\ frame'[a] = "user" /\ target'[a] = NULL /\ UNCHANGED <<sleeping, outcome>>
  BY DEF uthread_create, Whole, Inv, TypeOK, UtType, StackType
<1>3. NoLostJoiner'
  <2>1. ASSUME NEW v \in sleeping, frame'[v] = "join"
        PROVE  target'[v] \in live' /\ ut_joined'[target'[v]] = v
    <3>1. v \in Ut \ {a} /\ frame[v] = "join" /\ target'[v] = target[v]
      BY <1>1, <1>2, <2>1 DEF Whole, Inv, TypeOK, PType
    <3>2. target[v] \in live /\ ut_joined[target[v]] = v
      BY <1>1, <3>1 DEF LinkInv, NoLostJoiner
    <3>3. target[v] \in Ut \ {a}
      BY <1>1, <3>2 DEF Whole, Inv, TypeOK, UtType
    <3>. QED
      BY <1>1, <1>2, <3>1, <3>2, <3>3
  <2>. QED
    BY <1>2, <2>1 DEF NoLostJoiner
<1>4. FreedExited' /\ TargetOK'
  BY <1>1, <1>2 DEF LinkInv, FreedExited, TargetOK
<1>. QED
  BY <1>3, <1>4 DEF LinkInv

(* A coroutine leaves word in a target that is not over: it is not freed,   *)
(* and nobody else has left word there.                                     *)
LEMMA JoinLinksTarget ==
    ASSUME Whole, LinkInv, NEW u \in Ut, NEW t \in Ut, uthread_join(u, t)
    PROVE  LinkInv'
<1>1. /\ outcome = "up" /\ u \in live /\ u \notin sleeping
      /\ t # u /\ frame[t] # "none" /\ ut_joined[t] = NULL /\ "EXITED" \notin status[t]
  BY RunningFacts DEF Whole, uthread_join, InUser, Joinable, Handles
<1>2. t \in live
  BY <1>1 DEF LinkInv, FreedExited
<1>3. /\ \A v \in Ut \ {u} : /\ frame'[v] = frame[v] /\ target'[v] = target[v]
      /\ frame'[u] = "join" /\ target'[u] = t
      /\ ut_joined'[t] = u /\ \A v \in Ut \ {t} : ut_joined'[v] = ut_joined[v]
      /\ live' = live
  BY DEF uthread_join, Whole, Inv, TypeOK, UtType, StackType
<1>4. /\ \A v \in Ut \ {u} : status'[v] = status[v]
      /\ sleeping' = sleeping \/ sleeping' = sleeping \cup {u}
  BY DEF uthread_join, SchedSleep, Whole, Inv, TypeOK, UtType
<1>5. \A v \in sleeping : v \in Ut /\ (frame[v] = "join" => target[v] # t /\ target[v] \in live)
  BY <1>1, ConstantsAssumption DEF LinkInv, NoLostJoiner, Whole, Inv, TypeOK, PType
<1>6. NoLostJoiner'
  BY <1>1, <1>2, <1>3, <1>4, <1>5 DEF LinkInv, NoLostJoiner, Whole, Inv, TypeOK, UtType
<1>7. FreedExited' /\ TargetOK'
  BY <1>1, <1>2, <1>3, <1>4 DEF LinkInv, FreedExited, TargetOK
<1>. QED
  BY <1>6, <1>7 DEF LinkInv

LEMMA RegisterLinks ==
    ASSUME Whole, LinkInv, NEW u \in Ut, NEW fd \in Fd, NEW e \in Event, NEW timeout,
           _register_event(u, fd, e, timeout)
    PROVE  LinkInv'
<1>1. outcome = "up" /\ u \in live /\ u \notin sleeping /\ frame[u] = "user"
  BY RunningFacts DEF Whole, _register_event, InUser
<1>2. /\ \A v \in Ut \ {u} : frame'[v] = frame[v]
      /\ frame'[u] = "io" /\ UNCHANGED <<live, target, ut_joined>>
  BY DEF _register_event, Whole, Inv, TypeOK, StackType
<1>3. /\ \A v \in Ut \ {u} : status'[v] = status[v]
      /\ sleeping' = sleeping \/ sleeping' = sleeping \cup {u}
  BY DEF _register_event, SchedSleep, Whole, Inv, TypeOK, UtType
<1>4. NoLostJoiner'
  BY <1>1, <1>2, <1>3 DEF LinkInv, NoLostJoiner, Whole, Inv, TypeOK, PType
<1>5. FreedExited' /\ TargetOK'
  BY <1>1, <1>2, <1>3 DEF LinkInv, FreedExited, TargetOK
<1>. QED
  BY <1>4, <1>5 DEF LinkInv

LEMMA UserCallLinks ==
    ASSUME Whole, LinkInv, "stack_fails" \notin Features, NEW u \in Ut, UserCall(u)
    PROVE  LinkInv'
<1>1. ASSUME uthread_exit(u) PROVE LinkInv'
  BY <1>1, LinkKept DEF uthread_exit, Whole, Inv, TypeOK, UtType, stackVars, pVars
<1>2. ASSUME NEW t \in Ut, uthread_detach(u, t) PROVE LinkInv'
  BY <1>2, LinkKept DEF uthread_detach, Whole, Inv, TypeOK, UtType, stackVars, pVars
<1>3. ASSUME \/ \E t \in Ut : uthread_join_exited(u, t)
             \/ \E fd \in Fd : register_event_fails(u, fd) \/ close(u, fd)
      PROVE  LinkInv'
  BY <1>3, LinkKept DEF uthread_join_exited, register_event_fails, close, InUser, utVars,
                        stackVars, pVars
<1>. QED
  BY <1>1, <1>2, <1>3, CreateLinks, JoinLinksTarget, RegisterLinks
     DEF UserCall, uthread_create_fails

(* The rest of a call, for a joiner that does not take itself for expired. *)
LEMMA CallReturnLinks ==
    ASSUME Whole, LinkInv, JoinersUnexpired, NEW u \in Ut, CallReturn(u)
    PROVE  LinkInv'
<1>1. outcome = "up" /\ u \in live /\ u \notin sleeping
  BY RunningFacts DEF Whole, CallReturn, JoinReturn, EventReturn
<1>2. UNCHANGED <<live, ut_joined, sleeping, outcome>>
  BY DEF CallReturn, JoinReturn, EventReturn, JoinersUnexpired, pVars
<1>3. \A v \in Ut \ {u} : /\ frame'[v] = frame[v] /\ target'[v] = target[v]
                          /\ status'[v] = status[v]
  BY DEF CallReturn, JoinReturn, EventReturn, Whole, Inv, TypeOK, UtType, StackType
<1>4. frame'[u] = "user" /\ target'[u] = NULL
  BY DEF CallReturn, JoinReturn, EventReturn, Whole, Inv, TypeOK, StackType, LinkInv, TargetOK
<1>5. NoLostJoiner'
  BY <1>1, <1>2, <1>3 DEF LinkInv, NoLostJoiner, Whole, Inv, TypeOK, PType
<1>6. FreedExited' /\ TargetOK'
  BY <1>1, <1>2, <1>3, <1>4 DEF LinkInv, FreedExited, TargetOK
<1>. QED
  BY <1>5, <1>6 DEF LinkInv

(* A coroutine that is freed has woken the one that joined it. *)
LEMMA ResumeExitedLinks ==
    ASSUME Whole, LinkInv, NEW u \in Ut, ResumeExited(u)
    PROVE  LinkInv'
<1>1. /\ outcome = "up" /\ u \in live /\ "EXITED" \in status[u] /\ live' = live \ {u}
      /\ UNCHANGED <<ut_joined, frame, target, outcome>>
  BY ResumedFacts DEF Whole, ResumeExited, Resumed, _uthread_free, stackVars
<1>2. sleeping' \subseteq sleeping /\ (ut_joined[u] # NULL => ut_joined[u] \notin sleeping')
  <2>1. ASSUME ut_joined[u] # NULL PROVE "SLEEPING" \in status[ut_joined[u]]
    BY <1>1, <2>1 DEF Whole, Inv, WholeLinks, BitInv, WholeBits, TypeOK, UtType
  <2>. QED
    BY <2>1 DEF ResumeExited, WakeJoiner, DeschedSleep
<1>3. \A v \in Ut : "EXITED" \in status[v] => "EXITED" \in status'[v]
  <2>1. \/ status' = status
        \/ status' = [status EXCEPT ![ut_joined[u]] = DeschedBits(@)]
    BY DEF ResumeExited, WakeJoiner
  <2>. QED
    BY <2>1 DEF DeschedBits, Whole, Inv, TypeOK, UtType
<1>4. NoLostJoiner'
  BY <1>1, <1>2, ConstantsAssumption DEF LinkInv, NoLostJoiner, Whole, Inv, TypeOK, PType
<1>5. FreedExited' /\ TargetOK'
  BY <1>1, <1>3 DEF LinkInv, FreedExited, TargetOK
<1>. QED
  BY <1>4, <1>5 DEF LinkInv

LEMMA SchedStepLinks ==
    ASSUME Whole, LinkInv, SchedStep
    PROVE  LinkInv'
<1>1. ASSUME NEW u \in Ut, ResumeExpired(u) PROVE LinkInv'
  <2>1. /\ sleeping' \subseteq sleeping
        /\ UNCHANGED <<live, ut_joined, frame, target, outcome>>
    BY <1>1 DEF ResumeExpired, DeschedSleep, stackVars
  <2>2. \A v \in Ut \ live : status'[v] = status[v]
    <3>1. {u} \cup FindWaiter(fd_wait[u]) \subseteq live
      BY <1>1 DEF ResumeExpired, LoopAt, Due, EarliestSleeper, FindWaiter, Whole, Inv,
                  WholeFrame, BitInv, WholeBits, TypeOK, PType
    <3>. QED
      BY <1>1, <3>1 DEF ResumeExpired, Resume, Whole, Inv, TypeOK, UtType
  <2>. QED
    BY <2>1, <2>2, LinkKept
<1>2. ASSUME NEW u \in Ut, NEW e, NEW next, outcome = "up", HandleEventFound(u, e, next)
      PROVE  LinkInv'
  <2>1. /\ sleeping' \subseteq sleeping
        /\ UNCHANGED <<live, ut_joined, frame, target, outcome>>
    BY <1>2 DEF HandleEventFound, DeschedSleep, stackVars
  <2>2. u \in live
    BY <1>2 DEF HandleEventFound, FindWaiter, Whole, Inv, WholeFrame, BitInv, WholeBits
  <2>3. \A v \in Ut \ {u} : status'[v] = status[v]
    BY <1>2 DEF HandleEventFound, Resume, Whole, Inv, TypeOK, UtType
  <2>. QED
    BY <2>1, <2>2, <2>3, LinkKept
<1>3. ASSUME NEW e, NEW next, outcome = "up", handle_event(e, next) PROVE LinkInv'
  BY <1>2, <1>3, LinkKept, NoSignal
     DEF handle_event, HandleEventNone, HandleEventFails, utVars, stackVars
<1>4. CASE RunReady
  <2>1. Head(ready) \in live
    BY <1>4, Dequeue DEF RunReady, Whole, Inv, TypeOK, PType, PlaceInv, OnePlace, WholePlace, PlacedLive
  <2>2. /\ \A v \in Ut \ {Head(ready)} : status'[v] = status[v]
        /\ UNCHANGED <<live, ut_joined, frame, target, sleeping, outcome>>
    BY <1>4 DEF RunReady, Resume, Whole, Inv, TypeOK, UtType, stackVars
  <2>. QED
    BY <2>1, <2>2, LinkKept
<1>5. CASE HandleRead \/ HandleWrite
  BY <1>3, <1>5 DEF HandleRead, HandleWrite, LoopAt
<1>6. CASE \/ While \/ Done \/ StartRound \/ ReadyEmpty \/ _uthread_poll
           \/ _uthread_min_timeout \/ EpollReturns \/ EpollTimesOut \/ NextEvent
           \/ \E u \in Ut : ResumeExpiredFails(u)
  BY <1>6, LinkKept
     DEF While, Done, ResumeExpiredFails, StartRound, ReadyEmpty, _uthread_poll,
         _uthread_min_timeout, EpollReturns, EpollTimesOut, NextEvent, LoopAt,
         utVars, stackVars, pVars
<1>. QED
  BY <1>1, <1>4, <1>5, <1>6, NoSignal DEF SchedStep

LEMMA LinkStep ==
    ASSUME "stack_fails" \notin Features, Whole, LinkInv, JoinersUnexpired, [Next]_vars
    PROVE  LinkInv'
<1>1. ASSUME NEW u \in Ut, _uthread_yield(u) \/ ResumeSleeping(u) \/ ResumeYielded(u)
      PROVE  LinkInv'
  BY <1>1, LinkKept DEF _uthread_yield, ResumeSleeping, ResumeYielded, utVars, stackVars,
                        pVars
<1>2. CASE Tick \/ Stopped \/ UNCHANGED vars \/ \E fd \in Fd : KernelEvent(fd)
  BY <1>2, LinkKept DEF Tick, Stopped, KernelEvent, vars, utVars, stackVars, pVars
<1>. QED
  BY <1>1, <1>2, UserCallLinks, CallReturnLinks, ResumeExitedLinks, SchedStepLinks,
     NoSignal DEF Next, ResumeReturn

LEMMA LinkInit == Init => LinkInv
BY DEF Init, _runtime_init, _uthread_create_main, LinkInv, NoLostJoiner, FreedExited,
       TargetOK

(* Whoever sleeps in uthread_join is the one its target will wake, even     *)
(* when blocks are recycled, fds are closed and waits time out, as long as  *)
(* the EXPIRED bit of an earlier wait does not mislead a joiner, no create  *)
(* fails, and no signal comes between the check, the link and the sleep.    *)
THEOREM JoinersNotLost ==
    /\ "stack_fails" \notin Features /\ "signals" \notin Features
    /\ Spec /\ []JoinersUnexpired
    => []NoLostJoiner
<1>. SUFFICES ASSUME "stack_fails" \notin Features, "signals" \notin Features
              PROVE  Spec /\ []JoinersUnexpired => []NoLostJoiner
  OBVIOUS
<1>1. Whole /\ LinkInv /\ JoinersUnexpired /\ [Next]_vars => LinkInv'
  BY LinkStep
<1>2. LinkInv => NoLostJoiner
  BY DEF LinkInv
<1>. QED
  BY <1>1, <1>2, LinkInit, WholeHolds, PTL DEF Spec

-----------------------------------------------------------------------------
(* Without timeouts on I/O there is no EXPIRED bit to be misled by. *)

NeverExpires ==
    /\ \A u \in Ut : "EXPIRED" \notin status[u]
    /\ outcome = "up" => \A u \in sleeping : frame[u] = "io" => wakeup_time[u] > MaxNow

LEMMA NeverExpiresStep ==
    ASSUME IoTimeouts \subseteq {0}, Whole, NeverExpires, [Next]_vars
    PROVE  NeverExpires'
<1>0. /\ status \in [Ut -> SUBSET StatusBit] /\ wakeup_time \in [Ut -> Nat]
      /\ frame \in [Ut -> {"none", "user", "join", "io"}]
      /\ sleeping \subseteq Ut /\ now \in 0..MaxNow /\ MaxNow \in Nat
      /\ Forever \in Nat /\ Forever > MaxNow
  BY ConstantsAssumption DEF Whole, Inv, TypeOK, UtType, StackType, PType, KernelType
<1>1. ASSUME NEW u \in Ut, ResumeExpired(u) PROVE FALSE
  <2>1. /\ outcome = "up" /\ u \in sleeping /\ wakeup_time[u] <= now /\ fd_wait[u] # NULL
    BY <1>1 DEF ResumeExpired, LoopAt, Due, EarliestSleeper, Registered
  <2>2. frame[u] = "io"
    BY <2>1 DEF Whole, Inv, WholeFrame, BitInv, WholeBits
  <2>. QED
    BY <1>0, <2>1, <2>2 DEF NeverExpires
<1>2. ASSUME NEW u \in Ut, NEW fd \in Fd, NEW e \in Event, NEW t \in IoTimeouts,
             _register_event(u, fd, e, t)
      PROVE  NeverExpires'
  <2>1. t = 0 /\ outcome = "up" /\ WakeupAfter(t) > MaxNow
    BY <1>0, <1>2 DEF _register_event, InUser, WakeupAfter
  <2>2. \A v \in Ut : "EXPIRED" \notin status'[v]
    BY <1>0, <1>2 DEF _register_event, SchedSleep, WaitBit, NeverExpires
  <2>3. \/ outcome' # "up"
        \/ /\ sleeping' = sleeping \cup {u}
           /\ wakeup_time' = [wakeup_time EXCEPT ![u] = WakeupAfter(t)]
    BY <1>2 DEF _register_event, SchedSleep
  <2>4. \A v \in Ut \ {u} : frame'[v] = frame[v]
    BY <1>0, <1>2 DEF _register_event
  <2>. QED
    BY <1>0, <2>1, <2>2, <2>3, <2>4 DEF NeverExpires
<1>3. ASSUME NEW u \in Ut, NEW t \in Ut, uthread_join(u, t) PROVE NeverExpires'
  <2>1. \A v \in Ut : "EXPIRED" \notin status'[v]
    BY <1>0, <1>3 DEF uthread_join, SchedSleep, NeverExpires
  <2>2. /\ \A v \in sleeping' : v = u \/ (v \in sleeping /\ wakeup_time'[v] = wakeup_time[v])
        /\ \A v \in Ut \ {u} : frame'[v] = frame[v]
        /\ frame'[u] = "join" /\ outcome = "up"
    BY <1>0, <1>3 DEF uthread_join, InUser, SchedSleep
  <2>. QED
    BY <1>0, <2>1, <2>2 DEF NeverExpires
<1>4. ASSUME NEW u \in Ut, NEW a \in Ut, uthread_create(u, a) \/ uthread_create_fails(u, a)
      PROVE  NeverExpires'
  <2>1. a \notin sleeping /\ outcome = "up"
    BY <1>4 DEF uthread_create, uthread_create_fails, InUser, Whole, Inv, BitInv, WholeBits
  <2>2. \A v \in Ut \ {a} : frame'[v] = frame[v] /\ wakeup_time'[v] = wakeup_time[v]
    BY <1>0, <1>4 DEF uthread_create, uthread_create_fails, stackVars
  <2>3. /\ UNCHANGED sleeping
        /\ \/ status' = [status EXCEPT ![a] = {"NEW"}]
           \/ status' = [status EXCEPT ![a] = {}]
    BY <1>4 DEF uthread_create, uthread_create_fails, pVars
  <2>4. \A v \in Ut : "EXPIRED" \notin status'[v]
    BY <1>0, <2>3 DEF NeverExpires
  <2>. QED
    BY <1>0, <2>1, <2>2, <2>3, <2>4 DEF NeverExpires
<1>5. ASSUME NEW u \in Ut, UserCall(u) PROVE NeverExpires'
  <2>1. ASSUME \/ uthread_exit(u) \/ \E t \in Ut : uthread_detach(u, t)
        PROVE  NeverExpires'
    BY <1>0, <2>1 DEF uthread_exit, uthread_detach, stackVars, pVars, NeverExpires
  <2>2. ASSUME \/ \E t \in Ut : uthread_join_exited(u, t)
               \/ \E fd \in Fd : register_event_fails(u, fd) \/ close(u, fd)
        PROVE  NeverExpires'
    BY <2>2 DEF uthread_join_exited, register_event_fails, close, utVars, stackVars,
                pVars, NeverExpires
  <2>. QED
    BY <1>2, <1>3, <1>4, <1>5, <2>1, <2>2 DEF UserCall
<1>6. ASSUME NEW u \in Ut, CallReturn(u) PROVE NeverExpires'
  <2>1. /\ \A v \in Ut : "EXPIRED" \notin status'[v]
        /\ \A v \in Ut : frame'[v] = "io" => frame[v] = "io"
        /\ UNCHANGED <<sleeping, wakeup_time, outcome>>
    BY <1>0, <1>6 DEF CallReturn, JoinReturn, EventReturn, pVars, NeverExpires
  <2>. QED
    BY <1>0, <2>1 DEF NeverExpires
<1>7. ASSUME NEW us, DeschedSleep(us)
      PROVE  /\ sleeping' \subseteq sleeping
             /\ \A v \in sleeping' : wakeup_time'[v] = wakeup_time[v]
  BY <1>0, <1>7 DEF DeschedSleep
<1>8. ASSUME NEW u \in Ut, ResumeReturn(u) PROVE NeverExpires'
  <2>1. /\ sleeping' \subseteq sleeping
        /\ \A v \in sleeping' : wakeup_time'[v] = wakeup_time[v]
        /\ UNCHANGED <<frame, outcome>>
    BY <1>7, <1>8, NoSignal DEF ResumeReturn, ResumeExited, WakeJoiner, ResumeSleeping,
                      ResumeYielded, utVars, stackVars, pVars
  <2>2. \A v \in Ut : "EXPIRED" \notin status'[v]
    <3>1. \/ status' = status
          \/ status' = [status EXCEPT ![ut_joined[u]] = DeschedBits(@)]
      BY <1>8, NoSignal DEF ResumeReturn, ResumeExited, WakeJoiner, ResumeSleeping,
                            ResumeYielded, utVars
    <3>. QED
      BY <1>0, <3>1 DEF DeschedBits, NeverExpires
  <2>. QED
    BY <2>1, <2>2 DEF NeverExpires
<1>9. ASSUME NEW u \in Ut, NEW e, NEW next, HandleEventFound(u, e, next)
      PROVE  NeverExpires'
  <2>1. /\ sleeping' \subseteq sleeping
        /\ \A v \in sleeping' : wakeup_time'[v] = wakeup_time[v]
        /\ UNCHANGED <<frame, outcome>>
    BY <1>7, <1>9 DEF HandleEventFound, stackVars
  <2>. DEFINE woken == ClearWaitBits(DeschedBits(status[u]))
                       \cup (IF event[2] THEN {"FDEOF"} ELSE {})
  <2>2. "EXPIRED" \notin woken
    BY DEF ClearWaitBits, DeschedBits, NeverExpires
  <2>3. "EXPIRED" \notin InitBits(woken)
    BY <2>2 DEF InitBits
  <2>4. status' = [status EXCEPT ![u] = InitBits(woken)]
    BY <1>0, <1>9 DEF HandleEventFound, Resume
  <2>. HIDE DEF woken
  <2>. QED
    BY <1>0, <2>1, <2>3, <2>4 DEF NeverExpires
<1>10. CASE SchedStep
  <2>1. ASSUME RunReady PROVE NeverExpires'
    BY <1>0, <2>1 DEF RunReady, Resume, InitBits, stackVars, NeverExpires
  <2>2. ASSUME HandleRead \/ HandleWrite PROVE NeverExpires'
    BY <1>9, <2>2, NoSignal
       DEF HandleRead, HandleWrite, LoopAt, handle_event, HandleEventNone,
           HandleEventFails, utVars, stackVars, NeverExpires
  <2>. QED
    BY <1>1, <1>10, <2>1, <2>2, NoSignal
       DEF SchedStep, While, Done, ResumeExpiredFails, StartRound, ReadyEmpty,
           _uthread_poll, _uthread_min_timeout, EpollReturns, EpollTimesOut, NextEvent,
           LoopAt, utVars, stackVars, pVars, NeverExpires
<1>11. CASE \/ Tick \/ Stopped \/ UNCHANGED vars \/ \E fd \in Fd : KernelEvent(fd)
            \/ \E u \in Ut : _uthread_yield(u)
  BY <1>11 DEF Tick, Stopped, KernelEvent, _uthread_yield, vars, utVars, stackVars, pVars,
               NeverExpires
<1>. QED
  BY <1>5, <1>6, <1>8, <1>10, <1>11, NoSignal DEF Next

(* If no wait for I/O has a timeout, no coroutine ever carries the EXPIRED  *)
(* bit, since the end of a join's own timeout ends the process (if signals  *)
(* stay out of the calls that block).                                       *)
THEOREM UntimedUnexpired ==
    IoTimeouts \subseteq {0} /\ "signals" \notin Features /\ Spec => []JoinersUnexpired
<1>. SUFFICES ASSUME IoTimeouts \subseteq {0}, "signals" \notin Features
              PROVE  Spec => []JoinersUnexpired
  OBVIOUS
<1>1. Init => NeverExpires
  BY DEF Init, _runtime_init, _uthread_create_main, NeverExpires
<1>2. Whole /\ NeverExpires /\ [Next]_vars => NeverExpires'
  BY NeverExpiresStep
<1>3. NeverExpires => JoinersUnexpired
  BY DEF NeverExpires, JoinersUnexpired
<1>. QED
  BY <1>1, <1>2, <1>3, WholeHolds, PTL DEF Spec

-----------------------------------------------------------------------------
(* The refinement of RunQueue *)

RunQueueInv == Whole /\ WaitInv /\ LinkInv

On == [u \in Ut |-> IF u \in Blocked THEN target[u] ELSE NULL]

(* Steps that move no coroutine stutter: what they change of a stack or of  *)
(* the sleeping tree is about the coroutine that has the thread.            *)
LEMMA Stutters ==
    ASSUME UNCHANGED <<ready, cur_uthread>>, Blocked' = Blocked,
           \A v \in Blocked : target'[v] = target[v]
    PROVE  UNCHANGED Q!vars
<1>1. On' = On
  BY DEF On
<1>. QED
  BY <1>1 DEF Q!vars, On

(* Outside of the thread, who waits in a join is whoever has a target. *)
LEMMA OnFacts ==
    ASSUME RunQueueInv, outcome = "up", NEW v \in Blocked
    PROVE  /\ v \in Ut /\ v \in sleeping /\ v # cur_uthread /\ On[v] = target[v]
           /\ target[v] = NULL <=> frame[v] = "io"
           /\ target[v] # NULL => frame[v] = "join" /\ ut_joined[target[v]] = v
<1>1. v \in Ut /\ v \in sleeping /\ v # cur_uthread
  BY DEF Blocked, RunQueueInv, Whole, Inv, TypeOK, PType
<1>2. frame[v] \in {"join", "io"}
  BY <1>1 DEF RunQueueInv, Whole, Inv, WholeFrame
<1>. QED
  BY <1>1, <1>2, ConstantsAssumption
     DEF On, RunQueueInv, LinkInv, TargetOK, NoLostJoiner

(* A coroutine is alive exactly when it exists for RunQueue. *)
LEMMA ExistsFacts ==
    ASSUME RunQueueInv, NEW u \in Ut
    PROVE  Q!Exists(u) <=> u \in live
<1>1. Q!Exists(u) <=> (u = cur_uthread \/ u \in sleeping \/ InReady(u))
  BY DEF Q!Exists, Q!Queued, Blocked, InReady
<1>. QED
  BY <1>1 DEF RunQueueInv, Whole, Inv, PlaceInv, PlacedLive, WaitInv, NoneLost, OnThread

LEMMA RefinesInit == Init => Q!Init
<1>. SUFFICES ASSUME Init PROVE Q!Init
  OBVIOUS
<1>1. ready = <<Main>> /\ cur_uthread = NULL /\ sleeping = {}
  BY DEF Init, _runtime_init, _uthread_create_main
<1>. QED
  BY <1>1 DEF Q!Init, Blocked

LEMMA CreateRefines ==
    ASSUME RunQueueInv, NEW u \in Ut, NEW a \in Ut, uthread_create(u, a)
    PROVE  Q!Create(a)
<1>1. /\ outcome = "up" /\ cur_uthread = u /\ u # NULL /\ a \notin live
      /\ ready' = Append(ready, a) /\ UNCHANGED <<cur_uthread, sleeping>>
      /\ \A v \in Ut \ {a} : target'[v] = target[v]
  BY ConstantsAssumption
     DEF uthread_create, InUser, schedVars, RunQueueInv, Whole, Inv, TypeOK, StackType
<1>2. ~ Q!Exists(a)
  BY <1>1, ExistsFacts
<1>3. Blocked' = Blocked /\ a \notin Blocked /\ Blocked \subseteq Ut
  BY <1>1 DEF Blocked, RunQueueInv, Whole, Inv, BitInv, WholeBits, TypeOK, PType
<1>4. On' = On
  BY <1>1, <1>3 DEF On
<1>. QED
  BY <1>1, <1>2, <1>3, <1>4 DEF Q!Create, On

LEMMA RunRefines ==
    ASSUME RunQueueInv, RunReady
    PROVE  Q!Run
<1>1. /\ control = "loop" /\ ready # <<>> /\ cur_uthread' = Head(ready)
      /\ ready' = Tail(ready) /\ UNCHANGED <<sleeping, target>>
  BY DEF RunReady, LoopAt, Resume, stackVars
<1>2. cur_uthread = NULL
  BY <1>1, LoopFacts DEF Whole, RunQueueInv
<1>3. Head(ready) \notin sleeping /\ NULL \notin sleeping
  BY <1>1, Dequeue, ConstantsAssumption
     DEF RunQueueInv, Whole, Inv, TypeOK, PType, PlaceInv, OnePlace, WholePlace
<1>4. Blocked' = Blocked
  BY <1>1, <1>2, <1>3 DEF Blocked
<1>5. On' = On
  BY <1>1, <1>4 DEF On
<1>. QED
  BY <1>1, <1>2, <1>4, <1>5 DEF Q!Run, On

LEMMA YieldRefines ==
    ASSUME RunQueueInv, NEW u \in Ut, ResumeYielded(u)
    PROVE  Q!Yield
<1>1. /\ cur_uthread = u /\ u # NULL /\ ready' = Append(ready, u) /\ cur_uthread' = NULL
      /\ UNCHANGED <<sleeping, target>> /\ "SLEEPING" \notin status[u]
  BY ConstantsAssumption DEF ResumeYielded, Resumed, BackToLoop, stackVars
<1>2. u \notin sleeping /\ NULL \notin sleeping
  BY <1>1, ConstantsAssumption DEF RunQueueInv, Whole, Inv, BitInv, WholeBits, TypeOK, PType
<1>3. Blocked' = Blocked
  BY <1>1, <1>2 DEF Blocked
<1>4. On' = On
  BY <1>1, <1>3 DEF On
<1>. QED
  BY <1>1, <1>3, <1>4 DEF Q!Yield, On

(* A coroutine that sleeps and has given up the thread blocks, on I/O or on *)
(* a coroutine that exists and that nobody else joins.                      *)
LEMMA BlockRefines ==
    ASSUME RunQueueInv, NEW u \in Ut, ResumeSleeping(u)
    PROVE  Q!Block(target[u])
<1>1. /\ outcome = "up" /\ cur_uthread = u /\ u # NULL /\ cur_uthread' = NULL
      /\ UNCHANGED <<ready, sleeping, target>> /\ u \in sleeping
  BY ResumedFacts, ConstantsAssumption
     DEF ResumeSleeping, Resumed, BackToLoop, stackVars, pVars, RunQueueInv, Whole, Inv,
         BitInv, WholeBits
<1>2. target[u] # NULL => /\ target[u] \in Ut \ {u} /\ target[u] \in live
                          /\ ut_joined[target[u]] = u
  BY <1>1 DEF RunQueueInv, LinkInv, TargetOK, NoLostJoiner
<1>3. target[u] = NULL \/ (Q!Exists(target[u]) /\ target[u] # cur_uthread)
  BY <1>1, <1>2, ExistsFacts
<1>4. \A v \in Blocked : target[u] # NULL => On[v] # target[u]
  BY <1>1, <1>2, OnFacts
<1>5. Blocked' = Blocked \cup {u} /\ u \notin Blocked
  BY <1>1, ConstantsAssumption DEF Blocked, RunQueueInv, Whole, Inv, TypeOK, PType
<1>6. On' = [On EXCEPT ![u] = target[u]]
  BY <1>1, <1>5 DEF On
<1>. QED
  BY <1>1, <1>3, <1>4, <1>5, <1>6 DEF Q!Block, On

(* The end of a coroutine queues the one that joined it, and nobody else. *)
LEMMA EndRefines ==
    ASSUME RunQueueInv, NEW u \in Ut, ResumeExited(u)
    PROVE  Q!End
<1>1. /\ outcome = "up" /\ cur_uthread = u /\ u # NULL /\ cur_uthread' = NULL
      /\ u \in live /\ u \notin sleeping /\ UNCHANGED target
  BY ResumedFacts, ConstantsAssumption
     DEF ResumeExited, Resumed, BackToLoop, stackVars, RunQueueInv, Whole, Inv, BitInv,
         ExitedBits, OnThread
<1>2. Blocked = sleeping /\ Blocked' = sleeping' /\ sleeping \subseteq Ut
  <2>1. NULL \notin sleeping'
    BY ConstantsAssumption
       DEF ResumeExited, WakeJoiner, DeschedSleep, RunQueueInv, Whole, Inv, TypeOK, PType
  <2>. QED
    BY <1>1, <2>1 DEF Blocked, RunQueueInv, Whole, Inv, TypeOK, PType
<1>3. \A v \in Blocked : On[v] = u <=> v = ut_joined[u]
  <2>1. ASSUME NEW v \in Blocked, On[v] = u PROVE v = ut_joined[u]
    BY <1>1, <2>1, OnFacts
  <2>2. ASSUME NEW v \in Blocked, v = ut_joined[u] PROVE On[v] = u
    BY <1>1, <2>2, OnFacts, ConstantsAssumption DEF RunQueueInv, Whole, Inv, WholeLinks
  <2>. QED
    BY <2>1, <2>2
<1>4. CASE ut_joined[u] = NULL
  <2>1. UNCHANGED <<sleeping, ready>>
    BY <1>4 DEF ResumeExited, WakeJoiner
  <2>2. {v \in Blocked : On[v] = u} = {}
    BY <1>2, <1>3, <1>4, ConstantsAssumption
  <2>3. Blocked' = Blocked /\ On' = On
    BY <1>1, <1>2, <2>1 DEF On
  <2>. QED
    BY <1>1, <2>1, <2>2, <2>3 DEF Q!End, Q!Joiners, On
<1>5. CASE ut_joined[u] # NULL
  <2>. DEFINE j == ut_joined[u]
  <2>1. j \in Ut /\ j \in Blocked /\ "SLEEPING" \in status[j]
    BY <1>1, <1>2, <1>5 DEF RunQueueInv, Whole, Inv, WholeLinks, BitInv, WholeBits, TypeOK, UtType
  <2>2. ready' = Append(ready, j) /\ sleeping' = sleeping \ {j}
    BY <1>5, <2>1 DEF ResumeExited, WakeJoiner, DeschedSleep
  <2>3. j \in {v \in Blocked : On[v] = u}
    BY <1>3, <2>1
  <2>4. Blocked' = Blocked \ {j}
    BY <1>2, <2>2
  <2>5. On' = [On EXCEPT ![j] = NULL]
    BY <1>1, <2>1, <2>4 DEF On
  <2>. HIDE DEF j
  <2>. QED
    BY <1>1, <2>2, <2>3, <2>4, <2>5 DEF Q!End, Q!Joiners, On
<1>. QED
  BY <1>4, <1>5

(* A waiter is woken: it comes back by itself, with the thread. *)
LEMMA UnblockRefines ==
    ASSUME RunQueueInv, outcome = "up", control = "loop", NEW u \in sleeping,
           frame[u] = "io", sleeping' = sleeping \ {u}, cur_uthread' = u,
           UNCHANGED <<ready, target>>
    PROVE  Q!Unblock(u)
<1>1. cur_uthread = NULL /\ NULL \notin sleeping /\ u # NULL
  BY LoopFacts, ConstantsAssumption DEF RunQueueInv, Whole, Inv, TypeOK, PType
<1>2. u \in Blocked /\ Blocked' = Blocked \ {u}
  BY <1>1 DEF Blocked
<1>3. On[u] = NULL /\ u \in Ut
  BY <1>2, OnFacts
<1>4. On' = On
  BY <1>2, <1>3 DEF On
<1>. QED
  BY <1>1, <1>2, <1>3, <1>4 DEF Q!Unblock, On

(* The scheduler wakes a waiter, on its event or at the end of its timeout. *)
LEMMA HandleEventRefines ==
    ASSUME RunQueueInv, outcome = "up", control = "loop", NEW u \in Ut, NEW e, NEW next,
           HandleEventFound(u, e, next)
    PROVE  Q!Unblock(u)
<1>1. u \in sleeping /\ frame[u] = "io" /\ "SLEEPING" \in status[u]
  BY DEF HandleEventFound, FindWaiter, RunQueueInv, Whole, Inv, WholeFrame, BitInv, WholeBits
<1>2. /\ sleeping' = sleeping \ {u} /\ cur_uthread' = u
      /\ UNCHANGED <<ready, target>>
  BY <1>1 DEF HandleEventFound, DeschedSleep, Resume, stackVars
<1>. QED
  BY <1>1, <1>2, UnblockRefines

LEMMA ExpiredRefines ==
    ASSUME RunQueueInv, NEW u \in Ut, ResumeExpired(u)
    PROVE  Q!Unblock(u)
<1>1. /\ outcome = "up" /\ control = "loop" /\ u \in sleeping
      /\ fd_wait[u] # NULL
  BY DEF ResumeExpired, LoopAt, Due, EarliestSleeper, Registered
<1>2. frame[u] = "io" /\ u \in waiting /\ "SLEEPING" \in status[u]
  BY <1>1 DEF RunQueueInv, Whole, Inv, WholeFrame, BitInv, WholeBits, WaitInv, SleepersWait
<1>3. {u} \cup FindWaiter(fd_wait[u]) = {u}
  BY <1>1, <1>2 DEF FindWaiter, RunQueueInv, WaitInv, EpollMatchesWaiting
<1>4. DeschedSleep({u}) /\ cur_uthread' = u /\ UNCHANGED <<ready, target>>
  BY <1>3 DEF ResumeExpired, Resume, stackVars
<1>5. sleeping' = sleeping \ {u}
  BY <1>2, <1>4 DEF DeschedSleep
<1>. QED
  BY <1>1, <1>2, <1>4, <1>5, UnblockRefines

(* A coroutine that goes to sleep still has the thread, which it gives up   *)
(* in a step of its own; one that comes back from a call is not blocked.    *)
LEMMA CallsStutter ==
    ASSUME RunQueueInv, NEW u \in Ut, cur_uthread = u,
           UNCHANGED <<ready, cur_uthread>>,
           sleeping' = sleeping \/ sleeping' = sleeping \cup {u},
           \A v \in Ut \ {u} : target'[v] = target[v]
    PROVE  UNCHANGED Q!vars
<1>1. Blocked' = Blocked /\ Blocked \subseteq Ut \ {u}
  BY DEF Blocked, RunQueueInv, Whole, Inv, TypeOK, PType
<1>. QED
  BY <1>1, Stutters

LEMMA UserCallRefines ==
    ASSUME RunQueueInv, "stack_fails" \notin Features, NEW u \in Ut, UserCall(u)
    PROVE  (\E a \in Ut : Q!Create(a)) \/ UNCHANGED Q!vars
<1>0. cur_uthread = u
  BY DEF UserCall, InUser, uthread_create, uthread_create_fails, uthread_exit,
         uthread_detach, uthread_join_exited, uthread_join, register_event_fails,
         close, _register_event
<1>1. ASSUME NEW t \in Ut, uthread_join(u, t) PROVE UNCHANGED Q!vars
  <2>1. sleeping' = sleeping \/ sleeping' = sleeping \cup {u}
    BY <1>1 DEF uthread_join, SchedSleep
  <2>2. UNCHANGED <<ready, cur_uthread>> /\ \A v \in Ut \ {u} : target'[v] = target[v]
    BY <1>1 DEF uthread_join, RunQueueInv, Whole, Inv, TypeOK, StackType
  <2>. QED
    BY <1>0, <2>1, <2>2, CallsStutter
<1>2. ASSUME NEW fd \in Fd, NEW e \in Event, NEW timeout, _register_event(u, fd, e, timeout)
      PROVE  UNCHANGED Q!vars
  <2>1. sleeping' = sleeping \/ sleeping' = sleeping \cup {u}
    BY <1>2 DEF _register_event, SchedSleep
  <2>2. UNCHANGED <<ready, cur_uthread, target>>
    BY <1>2 DEF _register_event
  <2>. QED
    BY <1>0, <2>1, <2>2, CallsStutter
<1>3. ASSUME \/ uthread_exit(u)
             \/ \E t \in Ut : uthread_detach(u, t) \/ uthread_join_exited(u, t)
             \/ \E fd \in Fd : register_event_fails(u, fd) \/ close(u, fd)
      PROVE  UNCHANGED Q!vars
  <2>1. UNCHANGED <<ready, cur_uthread, sleeping, target>>
    BY <1>3 DEF uthread_exit, uthread_detach, uthread_join_exited, register_event_fails,
                close, stackVars, pVars, schedVars
  <2>. QED
    BY <1>0, <2>1, CallsStutter
<1>. QED
  BY <1>1, <1>2, <1>3, CreateRefines DEF UserCall, uthread_create_fails

LEMMA SchedStepRefines ==
    ASSUME RunQueueInv, SchedStep
    PROVE  Q!Run \/ (\E u \in Ut : Q!Unblock(u)) \/ UNCHANGED Q!vars
<1>1. ASSUME UNCHANGED <<ready, cur_uthread, sleeping, target>> PROVE UNCHANGED Q!vars
  <2>1. Blocked' = Blocked
    BY <1>1 DEF Blocked
  <2>. QED
    BY <1>1, <2>1, Stutters
<1>2. CASE \/ While \/ Done \/ StartRound \/ ReadyEmpty \/ _uthread_poll
           \/ _uthread_min_timeout \/ EpollReturns \/ EpollTimesOut \/ NextEvent
           \/ \E u \in Ut : ResumeExpiredFails(u)
  BY <1>1, <1>2
     DEF While, Done, ResumeExpiredFails, StartRound, ReadyEmpty, _uthread_poll,
         _uthread_min_timeout, EpollReturns, EpollTimesOut, NextEvent, stackVars,
         pVars, schedVars
<1>3. ASSUME NEW e, NEW next, outcome = "up", control = "loop", handle_event(e, next)
      PROVE  (\E u \in Ut : Q!Unblock(u)) \/ UNCHANGED Q!vars
  <2>1. CASE \E u \in Ut : HandleEventFound(u, e, next)
    BY <1>3, <2>1, HandleEventRefines
  <2>2. CASE HandleEventNone(e, next) \/ \E u \in Ut : HandleEventFails(u, e)
    BY <1>1, <2>2 DEF HandleEventNone, HandleEventFails, stackVars
  <2>. QED
    BY <1>3, <2>1, <2>2, NoSignal DEF handle_event, RunQueueInv
<1>4. CASE HandleRead \/ HandleWrite
  BY <1>3, <1>4 DEF HandleRead, HandleWrite, LoopAt
<1>. QED
  BY <1>2, <1>4, RunRefines, ExpiredRefines, NoSignal DEF SchedStep, RunQueueInv

LEMMA RefinesStep ==
    ASSUME RunQueueInv, "stack_fails" \notin Features, [Next]_vars
    PROVE  [Q!Next]_(Q!vars)
<1>1. ASSUME NEW u \in Ut, UserCall(u) PROVE [Q!Next]_(Q!vars)
  BY <1>1, UserCallRefines DEF Q!Next
<1>2. ASSUME NEW u \in Ut, _uthread_yield(u) PROVE [Q!Next]_(Q!vars)
  <2>1. UNCHANGED <<ready, cur_uthread, sleeping, target>> /\ cur_uthread = u
    BY <1>2 DEF _uthread_yield, InUser, stackVars, pVars
  <2>. QED
    BY <2>1, CallsStutter
<1>3. ASSUME NEW u \in Ut, CallReturn(u) PROVE [Q!Next]_(Q!vars)
  <2>1. UNCHANGED <<ready, cur_uthread, sleeping>> /\ cur_uthread = u
    BY <1>3 DEF CallReturn, JoinReturn, EventReturn, pVars, schedVars
  <2>2. \A v \in Ut \ {u} : target'[v] = target[v]
    BY <1>3 DEF CallReturn, JoinReturn, EventReturn, RunQueueInv, Whole, Inv, TypeOK, StackType
  <2>. QED
    BY <2>1, <2>2, CallsStutter
<1>4. ASSUME NEW u \in Ut, ResumeReturn(u) PROVE [Q!Next]_(Q!vars)
  <2>1. target[u] \in Ut \cup {NULL}
    BY DEF RunQueueInv, Whole, Inv, TypeOK, StackType
  <2>2. CASE ResumeExited(u)
    BY <2>2, EndRefines DEF Q!Next
  <2>3. CASE ResumeSleeping(u)
    <3>1. \E t \in Ut \cup {NULL} : Q!Block(t)
      BY <2>1, <2>3, BlockRefines DEF Q!Block
    <3>. QED
      BY <3>1 DEF Q!Next
  <2>4. CASE ResumeYielded(u)
    BY <2>4, YieldRefines DEF Q!Next
  <2>. QED
    BY <1>4, <2>2, <2>3, <2>4, NoSignal DEF ResumeReturn, RunQueueInv
<1>5. CASE SchedStep
  BY <1>5, SchedStepRefines DEF Q!Next
<1>6. CASE Tick \/ Stopped \/ UNCHANGED vars \/ \E fd \in Fd : KernelEvent(fd)
  <2>1. UNCHANGED <<ready, cur_uthread, sleeping, target>>
    BY <1>6 DEF Tick, Stopped, KernelEvent, vars, stackVars, pVars, schedVars
  <2>2. Blocked' = Blocked
    BY <2>1 DEF Blocked
  <2>. QED
    BY <2>1, <2>2, Stutters
<1>. QED
  BY <1>1, <1>2, <1>3, <1>4, <1>5, <1>6, NoSignal DEF Next, RunQueueInv

(* The scheduler of one thread implements RunQueue: to the program, its     *)
(* loop, trees and status bits are a first-in-first-out queue from which    *)
(* one coroutine runs at a time and to which a joiner returns exactly when  *)
(* its target ends, as long as no fd that is waited for is closed, creates  *)
(* get their stacks, no signal comes inside of a call that blocks, and no   *)
(* joiner carries the EXPIRED bit of another wait.                          *)
THEOREM SchedulerImplementsRunQueue ==
    /\ {"close", "stack_fails", "signals"} \cap Features = {}
    /\ Spec /\ []JoinersUnexpired
    => ImplementsRunQueue
<1>. SUFFICES ASSUME "close" \notin Features, "stack_fails" \notin Features,
                     "signals" \notin Features
              PROVE  Spec /\ []JoinersUnexpired => ImplementsRunQueue
  OBVIOUS
<1>1. Whole /\ LinkInv /\ JoinersUnexpired /\ [Next]_vars => LinkInv'
  BY LinkStep
<1>2. Whole /\ WaitInv /\ LinkInv /\ [Next]_vars => [Q!Next]_(Q!vars)
  BY RefinesStep DEF RunQueueInv
<1>3. Spec => []WaitInv
  BY WaitInvariant
<1>. QED
  BY <1>1, <1>2, <1>3, RefinesInit, LinkInit, WholeHolds, PTL
     DEF Spec, ImplementsRunQueue, Q!Spec

(* The same without a hypothesis about behaviours: when no wait for I/O has *)
(* a timeout, the scheduler implements RunQueue, whatever the program does  *)
(* with its handles, in the same absence of faults.                         *)
THEOREM UntimedImplementsRunQueue ==
    /\ {"close", "stack_fails", "signals"} \cap Features = {}
    /\ IoTimeouts \subseteq {0} /\ Spec
    => ImplementsRunQueue
<1>. SUFFICES ASSUME {"close", "stack_fails", "signals"} \cap Features = {},
                     IoTimeouts \subseteq {0}
              PROVE  Spec => ImplementsRunQueue
  OBVIOUS
<1>1. Spec => []JoinersUnexpired
  BY UntimedUnexpired
<1>2. Spec /\ []JoinersUnexpired => ImplementsRunQueue
  BY SchedulerImplementsRunQueue
<1>. QED
  BY <1>1, <1>2

(* And no joiner is left behind then, even if fds are closed (but not if    *)
(* creates fail or signals come inside of uthread_join).                    *)
THEOREM UntimedJoinersNotLost ==
    /\ "stack_fails" \notin Features /\ "signals" \notin Features
    /\ IoTimeouts \subseteq {0} /\ Spec
    => []NoLostJoiner
BY JoinersNotLost, UntimedUnexpired, PTL

=============================================================================
