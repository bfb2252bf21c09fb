---------------------------- MODULE UthreadProofs ---------------------------
(***************************************************************************)
(* Theorems about the runtime on one thread, for every set of coroutines   *)
(* and fds, every timeout and every bound.                                 *)
(***************************************************************************)
EXTENDS UthreadSched, FiniteSetTheorems, SequenceTheorems, TLAPS

-----------------------------------------------------------------------------
(* The operators *)

(* next_ut_id stays an index of bitmap_ut. *)
LEMMA NextIdType == ASSUME NEW n \in Id PROVE NextId(n) \in Id
<1>1. \A m \in Nat : m % MAX_COUNT_UTHREAD \in 0..(MAX_COUNT_UTHREAD - 1)
  BY ConstantsAssumption
<1>. QED
  BY <1>1, ConstantsAssumption DEF NextId, Id

(* The changes of the status word only set and clear bits. *)
LEMMA BitsType ==
    ASSUME NEW bits \in SUBSET StatusBit
    PROVE  /\ DeschedBits(bits) \in SUBSET StatusBit
           /\ ClearWaitBits(bits) \in SUBSET StatusBit
           /\ InitBits(bits) \in SUBSET StatusBit
           /\ \A e \in Event : bits \cup {WaitBit(e)} \in SUBSET StatusBit
BY DEF DeschedBits, ClearWaitBits, InitBits, WaitBit, StatusBit

(* A wake-up time is a natural number. *)
LEMMA WakeupType ==
    ASSUME KernelType, NEW timeout \in Nat
    PROVE  WakeupAfter(timeout) \in Nat
BY ConstantsAssumption DEF KernelType, WakeupAfter

(* Taking coroutines out of the sleeping tree. *)
LEMMA DeschedSleepType ==
    ASSUME UtType, PType, NEW us, DeschedSleep(us)
    PROVE  /\ wakeup_time' \in [Ut -> Nat]
           /\ sleeping' \subseteq sleeping
BY DEF DeschedSleep, UtType, PType

(* Going to sleep, or failing to. *)
LEMMA SchedSleepType ==
    ASSUME TypeOK, NEW u \in Ut, NEW timeout \in Nat,
           NEW bits \in SUBSET StatusBit, SchedSleep(u, timeout, bits)
    PROVE  /\ status' \in [Ut -> SUBSET StatusBit]
           /\ wakeup_time' \in [Ut -> Nat]
           /\ sleeping' \subseteq Ut
           /\ control' \in Control
           /\ outcome' \in Outcome
<1>1. WakeupAfter(timeout) \in Nat
  BY WakeupType DEF TypeOK
<1>2. bits \cup {"SLEEPING"} \in SUBSET StatusBit
  BY DEF StatusBit
<1>. QED
  BY <1>1, <1>2 DEF SchedSleep, TypeOK, UtType, PType, SchedType, KernelType,
                    Control, Outcome

(* Handing the thread to a coroutine. *)
LEMMA ResumeType ==
    ASSUME NEW ut \in Ut, NEW st \in [Ut -> SUBSET StatusBit],
           NEW next \in LoopPoint, Resume(ut, st, next)
    PROVE  /\ status' \in [Ut -> SUBSET StatusBit]
           /\ cur_uthread' \in Ut
           /\ control' \in Control
           /\ loop' \in LoopPoint /\ loop' = next
BY BitsType DEF Resume, Control

-----------------------------------------------------------------------------
(* The calls of a coroutine keep the types. *)
LEMMA UserCallType ==
    ASSUME TypeOK, NEW u \in Ut, UserCall(u)
    PROVE  TypeOK'
<1>. USE DEF TypeOK
<1>1. ASSUME NEW a \in Ut, uthread_create(u, a)
      PROVE  TypeOK'
  <2>1. UtType'
    BY <1>1 DEF uthread_create, TakeId, UtType, GlobalType, StatusBit
  <2>2. StackType'
    BY <1>1 DEF uthread_create, StackType, Frame
  <2>3. PType'
    BY <1>1 DEF uthread_create, PType
  <2>4. GlobalType'
    BY <1>1, NextIdType DEF uthread_create, TakeId, GlobalType
  <2>5. SchedType' /\ KernelType'
    BY <1>1 DEF uthread_create, SchedType, schedVars, KernelType, kernelVars
  <2>. QED
    BY <2>1, <2>2, <2>3, <2>4, <2>5
<1>2. ASSUME NEW a \in Ut, uthread_create_fails(u, a)
      PROVE  TypeOK'
  <2>1. UtType'
    BY <1>2 DEF uthread_create_fails, TakeId, UtType, GlobalType
  <2>2. GlobalType'
    BY <1>2, NextIdType DEF uthread_create_fails, TakeId, GlobalType
  <2>3. StackType' /\ PType'
    BY <1>2 DEF uthread_create_fails, StackType, stackVars, PType, pVars
  <2>4. SchedType' /\ KernelType'
    BY <1>2 DEF uthread_create_fails, SchedType, schedVars, KernelType, kernelVars
  <2>. QED
    BY <2>1, <2>2, <2>3, <2>4
<1>3. CASE uthread_exit(u)
  <2>1. UtType'
    BY <1>3 DEF uthread_exit, UtType, StatusBit
  <2>2. SchedType'
    BY <1>3 DEF uthread_exit, SchedType, Control
  <2>3. StackType' /\ PType' /\ GlobalType' /\ KernelType'
    BY <1>3 DEF uthread_exit, StackType, stackVars, PType, pVars, GlobalType,
                globalVars, KernelType, kernelVars
  <2>. QED
    BY <2>1, <2>2, <2>3
<1>4. ASSUME NEW t \in Ut, uthread_detach(u, t)
      PROVE  TypeOK'
  <2>1. UtType'
    BY <1>4 DEF uthread_detach, UtType, StatusBit
  <2>2. StackType' /\ PType' /\ SchedType' /\ GlobalType' /\ KernelType'
    BY <1>4 DEF uthread_detach, StackType, stackVars, PType, pVars, SchedType,
                schedVars, GlobalType, globalVars, KernelType, kernelVars
  <2>. QED
    BY <2>1, <2>2
<1>5. ASSUME NEW t \in Ut, uthread_join_exited(u, t)
      PROVE  TypeOK'
  <2>1. GlobalType'
    BY <1>5 DEF uthread_join_exited, GlobalType, UtType
  <2>2. UtType' /\ StackType' /\ PType' /\ SchedType' /\ KernelType'
    BY <1>5 DEF uthread_join_exited, UtType, utVars, StackType, stackVars, PType,
                pVars, SchedType, schedVars, KernelType, kernelVars
  <2>. QED
    BY <2>1, <2>2
<1>6. ASSUME NEW t \in Ut, uthread_join(u, t)
      PROVE  TypeOK'
  <2>0. /\ status' \in [Ut -> SUBSET StatusBit] /\ wakeup_time' \in [Ut -> Nat]
        /\ sleeping' \subseteq Ut /\ control' \in Control /\ outcome' \in Outcome
    <3>1. SchedSleep(u, JoinTimeout, status[u]) /\ status[u] \in SUBSET StatusBit
      BY <1>6 DEF uthread_join, UtType
    <3>. QED
      BY <3>1, SchedSleepType, ConstantsAssumption
  <2>1. UtType'
    BY <1>6, <2>0 DEF uthread_join, UtType
  <2>2. StackType'
    BY <1>6 DEF uthread_join, StackType, Frame
  <2>3. PType' /\ SchedType'
    BY <1>6, <2>0 DEF uthread_join, InUser, PType, SchedType
  <2>4. GlobalType' /\ KernelType'
    BY <1>6, <2>0 DEF uthread_join, GlobalType, globalVars, KernelType, kernelVars
  <2>. QED
    BY <2>1, <2>2, <2>3, <2>4
<1>7. ASSUME NEW fd \in Fd, register_event_fails(u, fd)
      PROVE  TypeOK'
  <2>1. KernelType'
    BY <1>7 DEF register_event_fails, KernelType, kernelVars, Outcome
  <2>2. UtType' /\ StackType' /\ PType' /\ SchedType' /\ GlobalType'
    BY <1>7 DEF register_event_fails, UtType, utVars, StackType, stackVars, PType,
                pVars, SchedType, schedVars, GlobalType, globalVars
  <2>. QED
    BY <2>1, <2>2
<1>8. ASSUME NEW fd \in Fd, close(u, fd)
      PROVE  TypeOK'
  <2>1. KernelType'
    BY <1>8 DEF close, KernelType
  <2>2. UtType' /\ StackType' /\ PType' /\ SchedType' /\ GlobalType'
    BY <1>8 DEF close, UtType, utVars, StackType, stackVars, PType,
                pVars, SchedType, schedVars, GlobalType, globalVars
  <2>. QED
    BY <2>1, <2>2
<1>9. ASSUME NEW fd \in Fd, NEW e \in Event, NEW t \in IoTimeouts,
             _register_event(u, fd, e, t)
      PROVE  TypeOK'
  <2>0. /\ status' \in [Ut -> SUBSET StatusBit] /\ wakeup_time' \in [Ut -> Nat]
        /\ sleeping' \subseteq Ut /\ control' \in Control /\ outcome' \in Outcome
    <3>1. SchedSleep(u, t, status[u] \cup {WaitBit(e)})
      BY <1>9 DEF _register_event
    <3>2. status[u] \cup {WaitBit(e)} \in SUBSET StatusBit
      BY BitsType DEF UtType
    <3>3. t \in Nat
      BY ConstantsAssumption
    <3>. QED
      BY <3>1, <3>2, <3>3, SchedSleepType
  <2>1. UtType'
    BY <1>9, <2>0 DEF _register_event, UtType, Key
  <2>2. StackType'
    BY <1>9 DEF _register_event, StackType, Frame
  <2>3. PType' /\ SchedType'
    BY <1>9, <2>0 DEF _register_event, InUser, PType, SchedType
  <2>4. GlobalType' /\ KernelType'
    BY <1>9, <2>0 DEF _register_event, GlobalType, globalVars, KernelType
  <2>. QED
    BY <2>1, <2>2, <2>3, <2>4
<1>. QED
  BY <1>1, <1>2, <1>3, <1>4, <1>5, <1>6, <1>7, <1>8, <1>9 DEF UserCall

(* So do the steps that a signal may come between. *)
LEMMA CallStepType ==
    ASSUME TypeOK, NEW u \in Ut, CallStep(u)
    PROVE  TypeOK'
<1>. USE DEF TypeOK
<1>1. ASSUME NEW t \in Ut, JoinCheck(u, t) PROVE TypeOK'
  BY <1>1 DEF JoinCheck, UtType, utVars, StackType, Frame, Midway, PType, pVars,
              SchedType, schedVars, GlobalType, globalVars, KernelType, kernelVars
<1>2. CASE JoinLink(u)
  <2>1. UtType' /\ StackType'
    BY <1>2 DEF JoinLink, UtType, StackType, Frame, Midway
  <2>2. PType' /\ SchedType' /\ GlobalType' /\ KernelType'
    BY <1>2 DEF JoinLink, PType, pVars, SchedType, schedVars, GlobalType, globalVars,
                KernelType, kernelVars
  <2>. QED
    BY <2>1, <2>2
<1>3. ASSUME NEW fd \in Fd, NEW e \in Event, EventAdd(u, fd, e) PROVE TypeOK'
  <2>1. UtType'
    <3>1. status[u] \cup {WaitBit(e)} \in SUBSET StatusBit
      BY BitsType DEF UtType
    <3>. QED
      BY <1>3, <3>1 DEF EventAdd, UtType, Key
  <2>2. StackType' /\ KernelType'
    BY <1>3 DEF EventAdd, StackType, Frame, Midway, KernelType
  <2>3. PType' /\ SchedType' /\ GlobalType'
    BY <1>3 DEF EventAdd, PType, pVars, SchedType, schedVars, GlobalType, globalVars
  <2>. QED
    BY <2>1, <2>2, <2>3
<1>4. CASE EventWait(u)
  <2>1. StackType' /\ PType'
    BY <1>4 DEF EventWait, StackType, Frame, Midway, PType
  <2>2. UtType' /\ SchedType' /\ GlobalType' /\ KernelType'
    BY <1>4 DEF EventWait, UtType, utVars, SchedType, schedVars, GlobalType,
                globalVars, KernelType, kernelVars
  <2>. QED
    BY <2>1, <2>2
<1>5. ASSUME NEW point, NEW t \in Nat, NEW next \in Midway, SleepInsert(u, point, t, next)
      PROVE  TypeOK'
  <2>1. WakeupAfter(t) \in Nat
    BY WakeupType
  <2>2. UtType' /\ StackType'
    BY <1>5, <2>1 DEF SleepInsert, UtType, StackType, Frame
  <2>3. PType' /\ KernelType'
    BY <1>5 DEF SleepInsert, PType, KernelType, kernelVars, Outcome
  <2>4. SchedType' /\ GlobalType'
    BY <1>5 DEF SleepInsert, InCall, SchedType, schedVars, GlobalType, globalVars
  <2>. QED
    BY <2>2, <2>3, <2>4
<1>6. ASSUME NEW point, NEW next \in {"join", "io"}, SleepBit(u, point, next)
      PROVE  TypeOK'
  <2>1. UtType' /\ StackType'
    BY <1>6 DEF SleepBit, UtType, StatusBit, StackType, Frame
  <2>2. PType' /\ SchedType' /\ GlobalType' /\ KernelType'
    BY <1>6 DEF SleepBit, PType, pVars, SchedType, Control, GlobalType, globalVars,
                KernelType, kernelVars
  <2>. QED
    BY <2>1, <2>2
<1>7. /\ "join_inserted" \in Midway /\ "io_inserted" \in Midway
      /\ JoinTimeout \in Nat /\ IoTimeouts \subseteq Nat
  BY ConstantsAssumption DEF Midway, Inserted
<1>. QED
  BY <1>1, <1>2, <1>3, <1>4, <1>5, <1>6, <1>7 DEF CallStep

(* So do the tails of the calls that block, and _uthread_resume's own. *)
LEMMA ReturnType ==
    ASSUME TypeOK, NEW u \in Ut,
           _uthread_yield(u) \/ CallReturn(u) \/ ResumeReturn(u)
    PROVE  TypeOK'
<1>. USE DEF TypeOK
<1>1. CASE _uthread_yield(u)
  BY <1>1 DEF _uthread_yield, UtType, utVars, StackType, stackVars, PType, pVars,
              SchedType, Control, GlobalType, globalVars, KernelType, kernelVars
<1>2. CASE JoinReturn(u)
  <2>1. UtType'
    BY <1>2 DEF JoinReturn, UtType
  <2>2. StackType' /\ GlobalType'
    BY <1>2 DEF JoinReturn, StackType, Frame, GlobalType
  <2>3. PType' /\ SchedType' /\ KernelType'
    BY <1>2 DEF JoinReturn, PType, pVars, SchedType, schedVars, KernelType, kernelVars
  <2>. QED
    BY <2>1, <2>2, <2>3
<1>3. CASE EventReturn(u)
  <2>1. UtType' /\ StackType'
    BY <1>3 DEF EventReturn, UtType, StackType, Frame
  <2>2. PType' /\ SchedType' /\ GlobalType' /\ KernelType'
    BY <1>3 DEF EventReturn, PType, pVars, SchedType, schedVars, GlobalType,
                globalVars, KernelType, kernelVars
  <2>. QED
    BY <2>1, <2>2
<1>4. CASE ResumeExited(u)
  <2>1. /\ status' \in [Ut -> SUBSET StatusBit] /\ wakeup_time' \in [Ut -> Nat]
        /\ sleeping' \subseteq Ut /\ ready' \in Seq(Ut)
    <3>1. CASE ut_joined[u] = NULL
      BY <1>4, <3>1 DEF ResumeExited, WakeJoiner, UtType, PType
    <3>2. CASE ut_joined[u] # NULL
      <4>1. ut_joined[u] \in Ut
        BY <3>2 DEF UtType
      <4>2. wakeup_time' \in [Ut -> Nat] /\ sleeping' \subseteq sleeping
        BY <1>4, <3>2, DeschedSleepType DEF ResumeExited, WakeJoiner
      <4>3. status' \in [Ut -> SUBSET StatusBit]
        <5>1. DeschedBits(status[ut_joined[u]]) \in SUBSET StatusBit
          BY <4>1, BitsType DEF UtType
        <5>. QED
          BY <1>4, <3>2, <4>1, <5>1 DEF ResumeExited, WakeJoiner, UtType
      <4>4. ready' \in Seq(Ut)
        BY <1>4, <3>2, <4>1 DEF ResumeExited, WakeJoiner, PType
      <4>. QED
        BY <4>2, <4>3, <4>4 DEF PType
    <3>. QED
      BY <3>1, <3>2
  <2>2. UtType' /\ PType'
    BY <1>4, <2>1 DEF ResumeExited, _uthread_free, UtType, PType
  <2>3. SchedType' /\ GlobalType'
    BY <1>4 DEF ResumeExited, BackToLoop, _uthread_free, SchedType, Control, GlobalType
  <2>4. StackType' /\ KernelType'
    BY <1>4 DEF ResumeExited, StackType, stackVars, KernelType, kernelVars
  <2>. QED
    BY <2>2, <2>3, <2>4
<1>5. CASE ResumeSleeping(u)
  BY <1>5 DEF ResumeSleeping, BackToLoop, UtType, utVars, StackType, stackVars,
              PType, pVars, SchedType, Control, GlobalType, globalVars, KernelType,
              kernelVars
<1>6. CASE ResumeYielded(u)
  <2>1. PType' /\ SchedType'
    BY <1>6 DEF ResumeYielded, BackToLoop, PType, SchedType, Control
  <2>2. UtType' /\ StackType' /\ GlobalType' /\ KernelType'
    BY <1>6 DEF ResumeYielded, UtType, utVars, StackType, stackVars, GlobalType,
                globalVars, KernelType, kernelVars
  <2>. QED
    BY <2>1, <2>2
<1>7. CASE ResumeExitedTwice(u)
  BY <1>7 DEF ResumeExitedTwice, QueuedAlready, UtType, utVars, StackType, stackVars,
              PType, pVars, SchedType, schedVars, GlobalType, globalVars, KernelType,
              kernelVars, Outcome
<1>. QED
  BY <1>1, <1>2, <1>3, <1>4, <1>5, <1>6, <1>7 DEF CallReturn, ResumeReturn

(* handle_event, for either kind of event. *)
LEMMA HandleEventType ==
    ASSUME TypeOK, event # NULL, NEW e \in Event, NEW next \in LoopPoint,
           handle_event(e, next)
    PROVE  /\ UtType' /\ StackType'
           /\ ready' = ready /\ sleeping' \subseteq Ut /\ waiting' \subseteq Ut
           /\ cur_uthread' \in Ut \cup {NULL} /\ control' \in Control
           /\ loop' \in LoopPoint /\ (outcome' = "up" => loop' = next)
           /\ interest' \in [Fd -> {"none", "armed", "spent"}]
           /\ hot' \in [Fd -> {"quiet", "ready", "hup"}]
           /\ outcome' \in Outcome
<1>. USE DEF TypeOK
<1>1. event[1] \in Fd
  BY DEF SchedType
<1>2. CASE HandleEventNone(e, next)
  BY <1>2 DEF HandleEventNone, GoTo, UtType, utVars, StackType, stackVars, PType,
              SchedType, KernelType
<1>3. ASSUME NEW u \in Ut, HandleEventFound(u, e, next)
      PROVE  /\ UtType' /\ StackType'
             /\ ready' = ready /\ sleeping' \subseteq Ut /\ waiting' \subseteq Ut
             /\ cur_uthread' \in Ut \cup {NULL} /\ control' \in Control
             /\ loop' \in LoopPoint /\ (outcome' = "up" => loop' = next)
             /\ interest' \in [Fd -> {"none", "armed", "spent"}]
             /\ hot' \in [Fd -> {"quiet", "ready", "hup"}]
             /\ outcome' \in Outcome
  <2>. DEFINE st == [status EXCEPT ![u] = ClearWaitBits(DeschedBits(@))
                                \cup (IF event[2] THEN {"FDEOF"} ELSE {})]
  <2>1. st \in [Ut -> SUBSET StatusBit]
    <3>1. ClearWaitBits(DeschedBits(status[u])) \in SUBSET StatusBit
      BY BitsType DEF UtType
    <3>. QED
      BY <3>1 DEF UtType, StatusBit
  <2>2. /\ status' \in [Ut -> SUBSET StatusBit] /\ cur_uthread' \in Ut
        /\ control' \in Control /\ loop' \in LoopPoint /\ loop' = next
    <3>. HIDE DEF st
    <3>1. Resume(u, st, next)
      BY <1>3 DEF HandleEventFound, st
    <3>. QED
      BY <2>1, <3>1, ResumeType
  <2>3. wakeup_time' \in [Ut -> Nat] /\ sleeping' \subseteq sleeping
    BY <1>3, DeschedSleepType DEF HandleEventFound
  <2>4. UtType' /\ StackType'
    BY <1>3, <2>2, <2>3 DEF HandleEventFound, UtType, StackType, stackVars
  <2>5. /\ interest' \in [Fd -> {"none", "armed", "spent"}]
        /\ hot' \in [Fd -> {"quiet", "ready", "hup"}]
        /\ outcome' \in Outcome
    BY <1>3 DEF HandleEventFound, KernelType
  <2>6. ready' = ready /\ sleeping' \subseteq Ut /\ waiting' \subseteq Ut
    BY <1>3, <2>3 DEF HandleEventFound, PType
  <2>. QED
    BY <2>2, <2>4, <2>5, <2>6
<1>4. ASSUME NEW u \in Ut, HandleEventFails(u, e) \/ HandleEventTwice(u, e)
      PROVE  /\ UtType' /\ StackType'
             /\ ready' = ready /\ sleeping' \subseteq Ut /\ waiting' \subseteq Ut
             /\ cur_uthread' \in Ut \cup {NULL} /\ control' \in Control
             /\ loop' \in LoopPoint /\ (outcome' = "up" => loop' = next)
             /\ interest' \in [Fd -> {"none", "armed", "spent"}]
             /\ hot' \in [Fd -> {"quiet", "ready", "hup"}]
             /\ outcome' \in Outcome
  BY <1>4 DEF HandleEventFails, HandleEventTwice, UtType, utVars, StackType,
              stackVars, PType, SchedType, KernelType, Outcome
<1>. QED
  BY <1>2, <1>3, <1>4 DEF handle_event

(* The scheduler loop keeps the types. *)
LEMMA SchedStepType ==
    ASSUME TypeOK, SchedStep
    PROVE  TypeOK'
<1>. USE DEF TypeOK
<1>1. CASE While
  BY <1>1 DEF While, GoTo, UtType, utVars, StackType, stackVars, PType, pVars,
              SchedType, LoopPoint, GlobalType, globalVars, KernelType, kernelVars
<1>2. CASE Done
  BY <1>2 DEF Done, GoTo, UtType, utVars, StackType, stackVars, PType, pVars,
              SchedType, LoopPoint, GlobalType, globalVars, KernelType, kernelVars,
              Outcome
<1>3. ASSUME NEW u \in Ut, ResumeExpired(u)
      PROVE  TypeOK'
  <2>. DEFINE woken == {u} \cup FindWaiter(fd_wait[u])
              bits == [status EXCEPT ![u] = ClearWaitBits(@) \cup {"EXPIRED"}]
              st == [v \in Ut |-> IF v \in woken THEN DeschedBits(bits[v])
                                                 ELSE bits[v]]
  <2>1. bits \in [Ut -> SUBSET StatusBit]
    <3>1. ClearWaitBits(status[u]) \in SUBSET StatusBit
      BY BitsType DEF UtType
    <3>. QED
      BY <3>1 DEF UtType, StatusBit
  <2>2. st \in [Ut -> SUBSET StatusBit]
    <3>. HIDE DEF woken, bits
    <3>. QED
      BY <2>1, BitsType
  <2>3. /\ status' \in [Ut -> SUBSET StatusBit] /\ cur_uthread' \in Ut
        /\ control' \in Control /\ loop' \in LoopPoint /\ loop' = "expired"
    <3>1. Resume(u, st, "expired") /\ "expired" \in LoopPoint
      BY <1>3 DEF ResumeExpired, LoopPoint
    <3>. HIDE DEF st
    <3>. QED
      BY <2>2, <3>1, ResumeType
  <2>4. wakeup_time' \in [Ut -> Nat] /\ sleeping' \subseteq sleeping
    BY <1>3, DeschedSleepType DEF ResumeExpired
  <2>5. UtType'
    BY <1>3, <2>3, <2>4 DEF ResumeExpired, UtType
  <2>6. PType' /\ SchedType'
    BY <1>3, <2>3, <2>4 DEF ResumeExpired, _uthread_cancel_event, PType, SchedType
  <2>7. KernelType'
    BY <1>3 DEF ResumeExpired, _uthread_cancel_event, KernelType
  <2>8. StackType' /\ GlobalType'
    BY <1>3 DEF ResumeExpired, StackType, stackVars, GlobalType, globalVars
  <2>. QED
    BY <2>5, <2>6, <2>7, <2>8
<1>4. ASSUME NEW u \in Ut, ResumeExpiredFails(u) \/ ResumeExpiredTwice(u)
      PROVE  TypeOK'
  BY <1>4 DEF ResumeExpiredFails, ResumeExpiredTwice, QueuedAlready, UtType, utVars, StackType, stackVars, PType,
              pVars, SchedType, schedVars, GlobalType, globalVars, KernelType,
              kernelVars, Outcome
<1>5. CASE StartRound
  <2>1. LastOf(ready) \in Ut \cup {NULL}
    BY DEF LastOf, PType
  <2>2. SchedType'
    BY <1>5, <2>1 DEF StartRound, GoTo, SchedType, LoopPoint
  <2>3. UtType' /\ StackType' /\ PType' /\ GlobalType' /\ KernelType'
    BY <1>5 DEF StartRound, UtType, utVars, StackType, stackVars, PType, pVars,
                GlobalType, globalVars, KernelType, kernelVars
  <2>. QED
    BY <2>2, <2>3
<1>6. CASE RunReady
  <2>1. Head(ready) \in Ut /\ Tail(ready) \in Seq(Ut)
    BY <1>6 DEF RunReady, PType
  <2>2. PICK next \in {"poll", "ready"} : Resume(Head(ready), status, next)
    BY <1>6 DEF RunReady
  <2>3. /\ status' \in [Ut -> SUBSET StatusBit] /\ cur_uthread' \in Ut
        /\ control' \in Control /\ loop' \in LoopPoint /\ loop' # "event_wr"
    BY <2>1, <2>2, ResumeType DEF UtType, LoopPoint
  <2>4. UtType' /\ PType' /\ SchedType'
    BY <1>6, <2>1, <2>3 DEF RunReady, UtType, PType, SchedType
  <2>5. StackType' /\ GlobalType' /\ KernelType'
    BY <1>6 DEF RunReady, StackType, stackVars, GlobalType, globalVars, KernelType,
                kernelVars
  <2>. QED
    BY <2>4, <2>5
<1>7. CASE ReadyEmpty
  BY <1>7 DEF ReadyEmpty, GoTo, UtType, utVars, StackType, stackVars, PType, pVars,
              SchedType, LoopPoint, GlobalType, globalVars, KernelType, kernelVars
<1>8. CASE _uthread_poll
  BY <1>8 DEF _uthread_poll, GoTo, UtType, utVars, StackType, stackVars, PType,
              pVars, SchedType, LoopPoint, GlobalType, globalVars, KernelType,
              kernelVars
<1>9. CASE _uthread_min_timeout
  BY <1>9 DEF _uthread_min_timeout, GoTo, UtType, utVars, StackType, stackVars,
              PType, pVars, SchedType, LoopPoint, GlobalType, globalVars,
              KernelType, kernelVars
<1>10. CASE EpollReturns
  <2>1. PICK s \in Fetchable :
          /\ events' = [i \in DOMAIN s |-> <<s[i], hot[s[i]] = "hup">>]
          /\ interest' = [fd \in Fd |-> IF fd \in {s[i] : i \in DOMAIN s}
                                          THEN "spent" ELSE interest[fd]]
          /\ hot' = [fd \in Fd |-> IF fd \in {s[i] : i \in DOMAIN s}
                                     THEN "quiet" ELSE hot[fd]]
    BY <1>10 DEF EpollReturns
  <2>2. PICK n \in Nat : s \in [1..n -> HotFds]
    <3>1. IsFiniteSet(HotFds)
      BY ConstantsAssumption, FS_Subset DEF HotFds
    <3>2. Cardinality(HotFds) \in Nat
      BY <3>1, FS_CardinalityType
    <3>. QED
      BY <2>1, <3>2, ConstantsAssumption DEF Fetchable
  <2>3. events' \in [1..n -> Fd \X BOOLEAN]
    BY <2>1, <2>2 DEF HotFds
  <2>4. events' \in Seq(Fd \X BOOLEAN)
    BY <2>2, <2>3
  <2>5. KernelType'
    BY <1>10, <2>1 DEF EpollReturns, KernelType
  <2>6. PType' /\ SchedType'
    BY <1>10, <2>4 DEF EpollReturns, GoTo, PType, SchedType, LoopPoint
  <2>7. UtType' /\ StackType' /\ GlobalType'
    BY <1>10 DEF EpollReturns, UtType, utVars, StackType, stackVars, GlobalType,
                 globalVars
  <2>. QED
    BY <2>5, <2>6, <2>7
<1>11. CASE EpollTimesOut
  BY <1>11 DEF EpollTimesOut, GoTo, UtType, utVars, StackType, stackVars, PType,
               pVars, SchedType, LoopPoint, GlobalType, globalVars, KernelType,
               kernelVars
<1>12. CASE NextEvent
  <2>1. CASE events = <<>>
    BY <1>12, <2>1 DEF NextEvent, GoTo, UtType, utVars, StackType, stackVars, PType,
                SchedType, LoopPoint, GlobalType, globalVars, KernelType, kernelVars
  <2>2. CASE events # <<>>
    <3>1. event' \in Fd \X BOOLEAN
      BY <1>12, <2>2 DEF NextEvent, LastOf, PType
    <3>2. events' \in Seq(Fd \X BOOLEAN)
      <4>1. /\ events \in Seq(Fd \X BOOLEAN) /\ Len(events) \in Nat
            /\ \A i \in 1..(Len(events) - 1) : events[i] \in Fd \X BOOLEAN
        BY DEF PType
      <4>2. SubSeq(events, 1, Len(events) - 1) \in Seq(Fd \X BOOLEAN)
        BY <4>1, SubSeqProperties
      <4>. QED
        BY <1>12, <2>2, <4>2 DEF NextEvent
    <3>3. PType' /\ SchedType'
      BY <1>12, <2>2, <3>1, <3>2 DEF NextEvent, PType, SchedType
    <3>4. UtType' /\ StackType' /\ GlobalType' /\ KernelType'
      BY <1>12 DEF NextEvent, UtType, utVars, StackType, stackVars, GlobalType,
                   globalVars, KernelType, kernelVars
    <3>. QED
      BY <3>3, <3>4
  <2>. QED
    BY <2>1, <2>2
<1>13. CASE HandleRead
  <2>1. /\ handle_event("RD", "event_wr") /\ event # NULL
        /\ "RD" \in Event /\ "event_wr" \in LoopPoint
    BY <1>13 DEF HandleRead, Event, LoopPoint
  <2>. QED
    BY <1>13, <2>1, HandleEventType
       DEF HandleRead, PType, SchedType, GlobalType, globalVars, KernelType
<1>14. CASE HandleWrite
  <2>1. /\ handle_event("WR", "event") /\ event # NULL
        /\ "WR" \in Event /\ "event" \in LoopPoint
    BY <1>14 DEF HandleWrite, LoopAt, SchedType, Event, LoopPoint
  <2>. QED
    BY <1>14, <2>1, HandleEventType
       DEF HandleWrite, PType, SchedType, GlobalType, globalVars, KernelType
<1>. QED
  BY <1>1, <1>2, <1>3, <1>4, <1>5, <1>6, <1>7, <1>8, <1>9, <1>10, <1>11, <1>12,
     <1>13, <1>14 DEF SchedStep

(* TypeOK is inductive. *)
LEMMA TypeStep == TypeOK /\ [Next]_vars => TypeOK'
<1>. SUFFICES ASSUME TypeOK, [Next]_vars PROVE TypeOK'
  OBVIOUS
<1>1. CASE SchedStep
  BY <1>1, SchedStepType
<1>2. ASSUME NEW u \in Ut, UserCall(u)
      PROVE  TypeOK'
  BY <1>2, UserCallType
<1>3. ASSUME NEW u \in Ut, _uthread_yield(u) \/ CallReturn(u) \/ ResumeReturn(u)
      PROVE  TypeOK'
  BY <1>3, ReturnType
<1>4. CASE Tick
  BY <1>4, ConstantsAssumption
     DEF Tick, TypeOK, UtType, utVars, StackType, stackVars, PType, pVars, SchedType,
         schedVars, GlobalType, globalVars, KernelType
<1>5. ASSUME NEW fd \in Fd, KernelEvent(fd)
      PROVE  TypeOK'
  <2>1. KernelType'
    BY <1>5 DEF KernelEvent, TypeOK, KernelType
  <2>2. UtType' /\ StackType' /\ PType' /\ SchedType' /\ GlobalType'
    BY <1>5 DEF KernelEvent, TypeOK, UtType, utVars, StackType, stackVars, PType,
                pVars, SchedType, schedVars, GlobalType, globalVars
  <2>. QED
    BY <2>1, <2>2 DEF TypeOK
<1>6. CASE UNCHANGED vars
  BY <1>6 DEF vars, TypeOK, UtType, utVars, StackType, stackVars, PType, pVars,
              SchedType, schedVars, GlobalType, globalVars, KernelType, kernelVars
<1>7. ASSUME NEW u \in Ut, CallStep(u)
      PROVE  TypeOK'
  BY <1>7, CallStepType
<1>. QED
  BY <1>1, <1>2, <1>3, <1>4, <1>5, <1>6, <1>7 DEF Next, Stopped

LEMMA TypeInit == Init => TypeOK
<1>. SUFFICES ASSUME Init PROVE TypeOK
  OBVIOUS
<1>1. UtType /\ StackType
  BY ConstantsAssumption
     DEF Init, _runtime_init, _uthread_create_main,
         UtType, StackType, Frame, StatusBit, Id
<1>2. PType /\ SchedType
  BY ConstantsAssumption
     DEF Init, _runtime_init, _uthread_create_main,
         PType, SchedType, Control, LoopPoint
<1>3. GlobalType /\ KernelType
  BY ConstantsAssumption
     DEF Init, _runtime_init, _uthread_create_main,
         GlobalType, KernelType, Id, Outcome
<1>. QED
  BY <1>1, <1>2, <1>3 DEF TypeOK

(* Every reachable state of the runtime is of the types its structs declare: *)
(* in particular no id is outside the bitmap, and no queue or pointer holds  *)
(* anything but a coroutine's block.                                         *)
THEOREM TypeCorrect == Spec => []TypeOK
BY TypeInit, TypeStep, PTL DEF Spec

-----------------------------------------------------------------------------
(* The round of the ready queue *)

(* The ready queue changes at its two ends only: the loop takes the head,   *)
(* and everything that becomes ready is appended.                           *)
LEMMA QueueStep ==
    ASSUME TypeOK, Next
    PROVE  RunReady \/ UNCHANGED ready \/ \E x \in Ut : ready' = Append(ready, x)
<1>1. ASSUME NEW u \in Ut, ResumeExited(u)
      PROVE  UNCHANGED ready \/ \E x \in Ut : ready' = Append(ready, x)
  BY <1>1 DEF ResumeExited, WakeJoiner, TypeOK, UtType
<1>2. ASSUME NEW e, NEW next, handle_event(e, next) PROVE UNCHANGED ready
  BY <1>2 DEF handle_event, HandleEventNone, HandleEventFound, HandleEventFails,
              HandleEventTwice
<1>3. CASE SchedStep
  BY <1>2, <1>3
     DEF SchedStep, While, Done, ResumeExpired, ResumeExpiredFails,
         ResumeExpiredTwice, QueuedAlready, StartRound, ReadyEmpty, _uthread_poll, _uthread_min_timeout, EpollReturns, EpollTimesOut,
         NextEvent, HandleRead, HandleWrite, pVars
<1>4. ASSUME NEW u \in Ut, UserCall(u)
      PROVE  UNCHANGED ready \/ \E x \in Ut : ready' = Append(ready, x)
  BY <1>4 DEF UserCall, uthread_create, uthread_create_fails, uthread_exit,
              uthread_detach, uthread_join_exited, uthread_join,
              register_event_fails, close, _register_event, pVars
<1>5. ASSUME NEW u \in Ut, _uthread_yield(u) \/ CallReturn(u) \/ ResumeReturn(u)
      PROVE  UNCHANGED ready \/ \E x \in Ut : ready' = Append(ready, x)
  BY <1>1, <1>5 DEF _uthread_yield, CallReturn, JoinReturn, EventReturn,
                    ResumeReturn, ResumeExitedTwice, QueuedAlready,
                    ResumeSleeping, ResumeYielded, pVars
<1>6. CASE Tick \/ Stopped \/ \E fd \in Fd : KernelEvent(fd)
  BY <1>6 DEF Tick, Stopped, KernelEvent, vars, pVars
<1>7. ASSUME NEW u \in Ut, CallStep(u) PROVE UNCHANGED ready
  BY <1>7 DEF CallStep, JoinCheck, JoinLink, EventAdd, EventWait, SleepInsert,
              SleepBit, pVars
<1>. QED
  BY <1>3, <1>4, <1>5, <1>6, <1>7 DEF Next

(* The loop stands in a round only because it was there before, or because  *)
(* the round has just begun; and only code outside of the loop gives        *)
(* control away while it leaves the position alone.                         *)
LEMMA RoundStep ==
    ASSUME Next, loop' = "ready", outcome' = "up"
    PROVE  \/ StartRound \/ RunReady
           \/ /\ loop = "ready" /\ outcome = "up" /\ UNCHANGED last_ready
              /\ control = "loop" => UNCHANGED <<control, ready>>
<1>1. ASSUME NEW t, NEW bits, NEW u, SchedSleep(u, t, bits) PROVE outcome = "up" \/ outcome' # "up"
  BY <1>1 DEF SchedSleep
<1>2. ASSUME NEW e, NEW next, next # "ready", LoopAt("event") \/ LoopAt("event_wr"),
             handle_event(e, next)
      PROVE  FALSE
  BY <1>2 DEF handle_event, HandleEventNone, HandleEventFound, HandleEventFails,
              HandleEventTwice, Resume, GoTo, LoopAt
<1>3. CASE SchedStep
  BY <1>2, <1>3
     DEF SchedStep, While, Done, ResumeExpired, ResumeExpiredFails,
         ResumeExpiredTwice, QueuedAlready,
         ReadyEmpty, _uthread_poll, _uthread_min_timeout, EpollReturns, EpollTimesOut,
         NextEvent, HandleRead, HandleWrite, LoopAt, GoTo, Resume, schedVars
<1>4. ASSUME NEW u \in Ut, UserCall(u)
      PROVE  loop = "ready" /\ outcome = "up" /\ UNCHANGED last_ready /\ control # "loop"
  BY <1>4 DEF UserCall, uthread_create, uthread_create_fails, uthread_exit,
              uthread_detach, uthread_join_exited, uthread_join,
              register_event_fails, close, _register_event, InUser, schedVars
<1>5. ASSUME NEW u \in Ut, _uthread_yield(u) \/ CallReturn(u) \/ ResumeReturn(u)
      PROVE  loop = "ready" /\ outcome = "up" /\ UNCHANGED last_ready /\ control # "loop"
  BY <1>5 DEF _uthread_yield, CallReturn, JoinReturn, EventReturn, ResumeReturn,
              ResumeExited, ResumeExitedTwice, QueuedAlready, ResumeSleeping,
              ResumeYielded, Resumed, schedVars
<1>6. CASE Tick \/ Stopped \/ \E fd \in Fd : KernelEvent(fd)
  BY <1>6 DEF Tick, Stopped, KernelEvent, vars, schedVars, pVars
<1>7. ASSUME NEW u \in Ut, CallStep(u)
      PROVE  loop = "ready" /\ outcome = "up" /\ UNCHANGED last_ready /\ control # "loop"
  BY <1>7 DEF CallStep, JoinCheck, JoinLink, EventAdd, EventWait, SleepInsert,
              SleepBit, InUser, InCall, schedVars
<1>. QED
  BY <1>3, <1>4, <1>5, <1>6, <1>7 DEF Next

(* The strengthening of RoundBounded: it also holds while a coroutine of    *)
(* the round runs, which may append to the queue but not remove from it.    *)
RoundInv ==
    outcome = "up" /\ loop = "ready" =>
        IF last_ready = NULL THEN control = "loop" /\ ready = <<>>
                             ELSE InReady(last_ready)

LEMMA RoundInvStep ==
    ASSUME TypeOK, RoundInv, [Next]_vars
    PROVE  RoundInv'
<1>. SUFFICES ASSUME Next, outcome' = "up", loop' = "ready"
              PROVE  IF last_ready' = NULL THEN control' = "loop" /\ ready' = <<>>
                                           ELSE InReady(last_ready)'
  BY DEF RoundInv, InReady, vars, schedVars, pVars
<1>0. ready \in Seq(Ut) /\ Len(ready) \in Nat
  BY DEF TypeOK, PType
<1>1. CASE StartRound
  <2>1. last_ready' = LastOf(ready) /\ UNCHANGED <<ready, control>> /\ control = "loop"
    BY <1>1 DEF StartRound, LoopAt, pVars
  <2>2. CASE ready = <<>>
    BY <2>1, <2>2 DEF LastOf
  <2>3. CASE ready # <<>>
    <3>1. Len(ready) \in 1..Len(ready) /\ ready[Len(ready)] \in Ut
      BY <1>0, <2>3
    <3>. QED
      BY <2>1, <2>3, <3>1, ConstantsAssumption DEF LastOf, InReady
  <2>. QED
    BY <2>2, <2>3
<1>2. CASE RunReady
  <2>1. /\ outcome = "up" /\ loop = "ready" /\ ready # <<>> /\ ready' = Tail(ready)
        /\ Head(ready) # last_ready /\ last_ready' = last_ready
    BY <1>2 DEF RunReady, LoopAt, Resume, RoundEnds
  <2>2. last_ready # NULL /\ InReady(last_ready)
    BY <2>1 DEF RoundInv
  <2>3. PICK i \in 1..Len(ready) : ready[i] = last_ready
    BY <2>2 DEF InReady
  <2>4. i # 1
    BY <1>0, <2>1, <2>3
  <2>5. i - 1 \in 1..Len(ready') /\ ready'[i - 1] = last_ready'
    BY <1>0, <2>1, <2>3, <2>4
  <2>. QED
    BY <2>1, <2>2, <2>5 DEF InReady
<1>3. CASE /\ loop = "ready" /\ outcome = "up" /\ UNCHANGED last_ready
           /\ control = "loop" => UNCHANGED <<control, ready>>
           /\ ~ RunReady
  <2>1. CASE last_ready = NULL
    BY <1>3, <2>1 DEF RoundInv
  <2>2. CASE last_ready # NULL
    <3>1. PICK i \in 1..Len(ready) : ready[i] = last_ready
      BY <1>3, <2>2 DEF RoundInv, InReady
    <3>2. UNCHANGED ready \/ \E x \in Ut : ready' = Append(ready, x)
      BY <1>3, QueueStep
    <3>3. i \in 1..Len(ready') /\ ready'[i] = ready[i]
      BY <1>0, <3>1, <3>2
    <3>. QED
      BY <1>3, <2>2, <3>1, <3>3 DEF InReady
  <2>. QED
    BY <2>1, <2>2
<1>. QED
  BY <1>1, <1>2, <1>3, RoundStep

(* A pass of the loop over the ready queue ends: the coroutine that was last *)
(* when it began stays in the queue until the loop runs it, whatever the     *)
(* coroutines of the round append, and the loop stops behind it.             *)
THEOREM RoundsBounded == Spec => []RoundBounded
<1>1. Init => RoundInv
  BY DEF Init, _runtime_init, RoundInv
<1>2. TypeOK /\ RoundInv /\ [Next]_vars => RoundInv'
  BY RoundInvStep
<1>3. RoundInv => RoundBounded
  BY DEF RoundInv, RoundBounded, LoopAt
<1>. QED
  BY <1>1, <1>2, <1>3, TypeCorrect, PTL DEF Spec

=============================================================================
