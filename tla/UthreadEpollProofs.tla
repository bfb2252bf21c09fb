-------------------------- MODULE UthreadEpollProofs -------------------------
(***************************************************************************)
(* For signals that stay out of uthread_join and _register_event: as long  *)
(* as no fd that is waited for gets closed, no coroutine is lost and the   *)
(* waiting tree and epoll's interest list agree.  Whatever is closed, no   *)
(* event that epoll reported is dropped before its waiter runs.            *)
(***************************************************************************)
EXTENDS UthreadPlacementProofs

-----------------------------------------------------------------------------
(* What Inv says when no signal comes inside of uthread_join and            *)
(* _register_event, so that a coroutine is seen in front of a call or       *)
(* asleep in it, and never in between.                                      *)
WholePlace ==
    /\ \A u \in Ut : InReady(u) => u \notin sleeping /\ cur_uthread # u
    /\ control = "uthread" => OnThread(cur_uthread)

WholeBits == \A u \in Ut : u \in sleeping <=> u \in live /\ "SLEEPING" \in status[u]

WholeLinks ==
    outcome = "up" =>
        \A t \in live : ut_joined[t] # NULL =>
            LET j == ut_joined[t] IN j \in sleeping /\ frame[j] = "join" /\ target[j] = t

WholeFrame ==
    outcome = "up" =>
        /\ \A u \in sleeping : frame[u] \in {"join", "io"}
        /\ \A u \in live : fd_wait[u] # NULL => frame[u] = "io"
        /\ \A u \in waiting : frame[u] = "io" /\ u \in sleeping

Whole ==
    /\ Inv /\ WholePlace /\ WholeBits /\ WholeLinks /\ WholeFrame
    /\ \A u \in Ut : frame[u] \in {"none", "user", "join", "io"}
    /\ "signals" \notin Features

LEMMA CallsWhole ==
    ASSUME "signals" \notin Features
    PROVE  Inv => Whole
<1>. SUFFICES ASSUME Inv PROVE Whole
  OBVIOUS
<1>1. /\ \A u \in Ut : frame[u] \in {"none", "user", "join", "io"}
      /\ \A u \in Ut : frame[u] \notin Midway /\ frame[u] \notin Inserted
  BY NoneMidway
<1>2. WholePlace
  <2>1. control = "uthread" => cur_uthread \in Ut
    BY DEF Inv, TypeOK, SchedType, PlaceInv
  <2>. QED
    BY <1>1, <2>1 DEF Inv, PlaceInv, OnePlace, WholePlace
<1>3. WholeBits
  BY <1>1 DEF Inv, BitInv, SleepBits, WholeBits
<1>4. WholeLinks
  BY <1>1 DEF Inv, TypeOK, UtType, JoinLinks, Joins, WholeLinks
<1>5. WholeFrame
  BY <1>1 DEF Inv, TypeOK, UtType, PType, FrameOK, IoFrame, WholeFrame
<1>. QED
  BY <1>1, <1>2, <1>3, <1>4, <1>5 DEF Whole

(* Without a signal in uthread_join or _register_event, a coroutine that    *)
(* blocks is seen in front of the call or asleep in it: in the tree, with   *)
(* its bit and with the link of the one it joins.                           *)
THEOREM WholeHolds == "signals" \notin Features /\ Spec => []Whole
<1>. SUFFICES ASSUME "signals" \notin Features PROVE Spec => []Whole
  OBVIOUS
<1>1. Inv => Whole
  BY CallsWhole
<1>. QED
  BY <1>1, InvariantHolds, PTL

(* No step is one of those that take a signal inside of a call. *)
LEMMA NoSignal ==
    ASSUME Whole
    PROVE  \A u \in Ut : /\ ~ CallStep(u) /\ ~ ResumeExitedTwice(u)
                         /\ ~ ResumeExpiredTwice(u)
                         /\ \A e : outcome = "up" => ~ HandleEventTwice(u, e)
<1>1. ASSUME NEW u \in Ut, CallStep(u) PROVE FALSE
  BY <1>1 DEF Whole, CallStep, JoinCheck, JoinLink, EventAdd, EventWait, SleepInsert,
              SleepBit, InCall
<1>2. ASSUME NEW u \in Ut, ResumeExitedTwice(u) PROVE FALSE
  <2>1. /\ u \in live /\ outcome = "up" /\ ut_joined[u] # NULL /\ ut_joined[u] \in Ut
        /\ InReady(ut_joined[u])
    BY <1>2, ResumedFacts
       DEF ResumeExitedTwice, Resumed, JoinerQueued, Whole, Inv, TypeOK, UtType
  <2>. QED
    BY <2>1 DEF Whole, WholeLinks, WholePlace
<1>3. ASSUME NEW u \in Ut, ResumeExpiredTwice(u) PROVE FALSE
  BY <1>3 DEF ResumeExpiredTwice, Due, EarliestSleeper, Whole, WholePlace
<1>4. ASSUME NEW u \in Ut, NEW e, outcome = "up", HandleEventTwice(u, e) PROVE FALSE
  BY <1>4 DEF HandleEventTwice, FindWaiter, Whole, WholeFrame, WholePlace
<1>. QED
  BY <1>1, <1>2, <1>3, <1>4

-----------------------------------------------------------------------------
(* Coroutine u is in one of the runtime's places. *)
Placed(u) == OnThread(u) \/ InReady(u) \/ u \in sleeping

(* A coroutine keeps a place as long as it is alive, and a new one is queued. *)
LEMMA StillPlaced ==
    ASSUME Whole', NoneLost,
           \A v \in live' : v \in live \/ InReady(v)',
           \A v \in live' : Placed(v) => Placed(v)'
    PROVE  NoneLost'
BY DEF Whole, Inv, TypeOK, UtType, PlaceInv, PlacedLive, NoneLost, Placed

(* Steps that touch no registration, neither in the kernel nor in the tree. *)
LEMMA WaitKept ==
    ASSUME Whole, Whole', WaitInv, outcome' = "up" => outcome = "up",
           \A v \in live' : v \in live \/ InReady(v)',
           \A v \in live' : Placed(v) => Placed(v)',
           \A v \in sleeping' : frame'[v] = "io" => v \in sleeping /\ frame[v] = "io",
           \A v \in waiting : fd_wait'[v] = fd_wait[v],
           UNCHANGED <<waiting, interest, hot>>
    PROVE  WaitInv'
<1>1. NoneLost'
  BY StillPlaced DEF WaitInv
<1>2. SleepersWait' /\ HotIsArmed'
  BY DEF WaitInv, SleepersWait, HotIsArmed
<1>3. EpollMatchesWaiting'
  BY DEF Whole, Inv, WholeFrame, WaitInv, EpollMatchesWaiting, Registered
<1>. QED
  BY <1>1, <1>2, <1>3 DEF WaitInv

(* Steps that change what the kernel knows of registered fds, and nothing   *)
(* of the coroutines.                                                       *)
LEMMA KernelOnly ==
    ASSUME Whole, Whole', WaitInv, HotIsArmed',
           \A fd \in Fd : interest[fd] # "none" <=> interest'[fd] # "none",
           UNCHANGED <<live, fd_wait, frame, ready, sleeping, waiting, cur_uthread,
                       outcome>>
    PROVE  WaitInv'
<1>1. NoneLost'
  BY DEF WaitInv, NoneLost, OnThread, InReady
<1>2. SleepersWait'
  BY DEF WaitInv, SleepersWait
<1>3. EpollMatchesWaiting'
  <2>1. ASSUME outcome = "up", NEW v \in waiting
        PROVE  v \in sleeping /\ Registered(v)'
    <3>1. v \in sleeping /\ fd_wait[v] # NULL /\ interest[fd_wait[v][1]] # "none"
      BY <2>1 DEF WaitInv, EpollMatchesWaiting, Registered
    <3>2. fd_wait[v][1] \in Fd
      BY <3>1 DEF Whole, Inv, TypeOK, UtType, PType, Key
    <3>. QED
      BY <3>1, <3>2 DEF Registered
  <2>. QED
    BY <2>1 DEF WaitInv, EpollMatchesWaiting
<1>. QED
  BY <1>1, <1>2, <1>3 DEF WaitInv

(* A waiter is taken out of both trees, its fd is deregistered, it runs. *)
LEMMA WaiterWoken ==
    ASSUME Whole, Whole', WaitInv, outcome = "up", NEW u \in waiting, NEW fd \in Fd,
           fd_wait[u][1] = fd,
           waiting' = waiting \ {u}, sleeping' = sleeping \ {u},
           interest' = [interest EXCEPT ![fd] = "none"],
           hot' = [hot EXCEPT ![fd] = "quiet"],
           \A v \in Ut \ {u} : fd_wait'[v] = fd_wait[v],
           control = "loop", cur_uthread' = u, UNCHANGED <<live, frame, ready, outcome>>
    PROVE  WaitInv'
<1>1. u \in Ut /\ u \in sleeping /\ waiting \subseteq Ut /\ frame[u] = "io"
  BY DEF Whole, Inv, TypeOK, PType, WholeFrame
<1>2. NoneLost'
  <2>1. \A v \in Ut : Placed(v) => Placed(v)'
    BY <1>1, LoopFacts DEF Whole, Placed, OnThread, InReady
  <2>. QED
    BY <2>1, StillPlaced DEF WaitInv, Whole, Inv, TypeOK, UtType
<1>3. SleepersWait'
  BY <1>1 DEF WaitInv, SleepersWait
<1>4. /\ \A x \in Fd \ {fd} : interest'[x] = interest[x] /\ hot'[x] = hot[x]
      /\ interest'[fd] = "none" /\ hot'[fd] = "quiet"
  BY DEF Whole, Inv, TypeOK, KernelType
<1>5. HotIsArmed'
  BY <1>4 DEF WaitInv, HotIsArmed
<1>6. EpollMatchesWaiting'
  <2>1. ASSUME NEW v \in waiting'
        PROVE  v \in sleeping' /\ Registered(v)' /\ fd_wait'[v] = fd_wait[v]
    <3>1. /\ v \in Ut \ {u} /\ v \in waiting /\ v \in sleeping
          /\ fd_wait[v] # NULL /\ interest[fd_wait[v][1]] # "none"
          /\ fd_wait[v][1] # fd
      BY <1>1 DEF WaitInv, EpollMatchesWaiting, Registered
    <3>2. fd_wait[v][1] \in Fd
      BY <3>1 DEF Whole, Inv, TypeOK, UtType, Key
    <3>. QED
      BY <1>4, <3>1, <3>2 DEF Registered
  <2>2. \A x \in Fd : interest'[x] # "none" => \E v \in waiting' : fd_wait'[v][1] = x
    <3>. SUFFICES ASSUME NEW x \in Fd, interest'[x] # "none"
                  PROVE  \E v \in waiting' : fd_wait'[v][1] = x
      OBVIOUS
    <3>1. x # fd /\ interest[x] # "none"
      BY <1>4
    <3>2. PICK v \in waiting : fd_wait[v][1] = x
      BY <3>1 DEF WaitInv, EpollMatchesWaiting
    <3>3. v \in waiting'
      BY <3>1, <3>2
    <3>. QED
      BY <2>1, <3>2, <3>3
  <2>3. \A v, w \in waiting' : fd_wait'[v][1] = fd_wait'[w][1] => v = w
    BY <2>1 DEF WaitInv, EpollMatchesWaiting
  <2>. QED
    BY <2>1, <2>2, <2>3 DEF EpollMatchesWaiting
<1>. QED
  BY <1>2, <1>3, <1>5, <1>6 DEF WaitInv

-----------------------------------------------------------------------------
(* The calls of a coroutine *)

(* The one call that registers an fd: it had not been registered, so nobody *)
(* waits for it, and the coroutine goes into both trees.                    *)
LEMMA RegisterWait ==
    ASSUME Whole, Whole', WaitInv, NEW u \in Ut, NEW fd \in Fd, NEW e \in Event,
           NEW timeout, _register_event(u, fd, e, timeout)
    PROVE  WaitInv' /\ waiting' = waiting \cup {u}
<1>1. /\ u \in live /\ u \notin sleeping /\ u \notin waiting /\ outcome = "up"
      /\ interest[fd] = "none" /\ cur_uthread = u
  BY RunningFacts DEF Whole, _register_event, InUser
<1>2. /\ sleeping' \in {sleeping, sleeping \cup {u}}
      /\ outcome' = "up" => sleeping' = sleeping \cup {u}
  BY DEF _register_event, SchedSleep
<1>3. NoneLost'
  <2>1. \A v \in Ut : Placed(v) => Placed(v)'
    BY <1>1, <1>2 DEF _register_event, Placed, OnThread, InReady
  <2>. QED
    BY <2>1, StillPlaced DEF _register_event, WaitInv, Whole, Inv, TypeOK, UtType
<1>4. /\ \A v \in Ut \ {u} : frame'[v] = frame[v] /\ fd_wait'[v] = fd_wait[v]
      /\ fd_wait'[u] = <<fd, e>>
      /\ \A x \in Fd \ {fd} : interest'[x] = interest[x]
      /\ interest'[fd] = "armed" /\ hot' = hot
  BY DEF _register_event, Whole, Inv, TypeOK, UtType, StackType, KernelType
<1>5. /\ \A v \in waiting : fd_wait[v] # NULL /\ fd_wait[v] \in Key /\ fd_wait[v][1] # fd
      /\ waiting \subseteq Ut /\ sleeping \subseteq Ut /\ <<fd, e>> # NULL
  BY <1>1, ConstantsAssumption
     DEF WaitInv, EpollMatchesWaiting, Registered, Whole, Inv, TypeOK, UtType, PType, Event
<1>6. waiting' = waiting \cup {u}
  <2>1. FindWaiter(<<fd, e>>) = {}
    BY <1>5 DEF FindWaiter
  <2>. QED
    BY <2>1 DEF _register_event
<1>7. SleepersWait' /\ HotIsArmed'
  BY <1>1, <1>2, <1>4, <1>5, <1>6 DEF WaitInv, SleepersWait, HotIsArmed
<1>8. EpollMatchesWaiting'
  <2>. SUFFICES ASSUME outcome' = "up" PROVE EpollMatchesWaiting'
    BY DEF EpollMatchesWaiting
  <2>1. \A v \in waiting' : v \in sleeping' /\ Registered(v)'
    <3>1. u \in sleeping' /\ fd_wait'[u] # NULL /\ fd_wait'[u][1] = fd
      BY <1>2, <1>4, <1>5
    <3>2. ASSUME NEW v \in waiting PROVE v \in sleeping' /\ Registered(v)'
      <4>1. v \in sleeping /\ fd_wait[v] # NULL /\ interest[fd_wait[v][1]] # "none"
        BY <1>1 DEF WaitInv, EpollMatchesWaiting, Registered
      <4>2. fd_wait[v][1] \in Fd \ {fd}
        BY <1>5 DEF Key
      <4>. QED
        BY <1>1, <1>2, <1>4, <1>5, <4>1, <4>2 DEF Registered
    <3>. QED
      BY <1>4, <1>6, <3>1, <3>2 DEF Registered
  <2>2. \A x \in Fd : interest'[x] # "none" => \E v \in waiting' : fd_wait'[v][1] = x
    BY <1>1, <1>4, <1>5, <1>6 DEF WaitInv, EpollMatchesWaiting
  <2>3. \A v, w \in waiting' : fd_wait'[v][1] = fd_wait'[w][1] => v = w
    BY <1>1, <1>4, <1>5, <1>6 DEF WaitInv, EpollMatchesWaiting
  <2>. QED
    BY <2>1, <2>2, <2>3 DEF EpollMatchesWaiting
<1>. QED
  BY <1>3, <1>6, <1>7, <1>8 DEF WaitInv

LEMMA UserCallWait ==
    ASSUME Whole, Whole', WaitInv, "close" \notin Features, NEW u \in Ut, UserCall(u)
    PROVE  WaitInv'
<1>0. /\ sleeping \subseteq Ut /\ waiting \subseteq Ut /\ live \subseteq Ut
      /\ \A v \in waiting : v \in sleeping \/ outcome # "up"
      /\ \A v \in sleeping : v \in live
  BY DEF Whole, Inv, TypeOK, UtType, PType, WholeFrame, BitInv, WholeBits
<1>1. ASSUME NEW a \in Ut, uthread_create(u, a) PROVE WaitInv'
  <2>1. a \notin live /\ outcome = "up"
    BY <1>1 DEF uthread_create, InUser
  <2>2. \A v : InReady(v)' <=> (InReady(v) \/ v = a)
    BY <1>1, Enqueue DEF uthread_create, Whole, Inv, TypeOK, PType
  <2>3. \A v \in Ut : Placed(v) => Placed(v)'
    BY <1>1, <2>2 DEF uthread_create, Placed, OnThread, schedVars
  <2>4. /\ live' = live \cup {a}
        /\ \A v \in Ut \ {a} : frame'[v] = frame[v] /\ fd_wait'[v] = fd_wait[v]
        /\ UNCHANGED <<sleeping, waiting, interest, hot, outcome>>
    BY <1>1 DEF uthread_create, kernelVars, Whole, Inv, TypeOK, UtType, StackType
  <2>. QED
    BY <1>0, <2>1, <2>2, <2>3, <2>4, WaitKept
<1>2. ASSUME NEW a \in Ut, uthread_create_fails(u, a) PROVE WaitInv'
  <2>1. a \notin live /\ outcome = "up"
    BY <1>2 DEF uthread_create_fails, InUser
  <2>2. /\ \A v \in Ut : Placed(v) => Placed(v)'
        /\ \A v \in Ut \ {a} : fd_wait'[v] = fd_wait[v]
        /\ UNCHANGED <<live, frame, sleeping, waiting, interest, hot, outcome>>
    BY <1>2 DEF uthread_create_fails, Placed, OnThread, InReady, schedVars, pVars,
                stackVars, kernelVars, Whole, Inv, TypeOK, UtType
  <2>. QED
    BY <1>0, <2>1, <2>2, WaitKept
<1>3. ASSUME uthread_exit(u) \/ \E t \in Ut : uthread_detach(u, t) \/ uthread_join_exited(u, t)
      PROVE  WaitInv'
  <2>1. /\ \A v \in Ut : Placed(v) => Placed(v)'
        /\ UNCHANGED <<live, frame, fd_wait, sleeping, waiting, interest, hot, outcome>>
    BY <1>3 DEF uthread_exit, uthread_detach, uthread_join_exited, Placed, OnThread,
                InReady, utVars, schedVars, pVars, stackVars, kernelVars
  <2>. QED
    BY <1>0, <2>1, WaitKept
<1>4. ASSUME NEW t \in Ut, uthread_join(u, t) PROVE WaitInv'
  <2>1. /\ cur_uthread = u /\ outcome = "up"
        /\ sleeping' = sleeping \/ sleeping' = sleeping \cup {u}
    BY <1>4 DEF uthread_join, InUser, SchedSleep
  <2>2. /\ \A v \in Ut : Placed(v) => Placed(v)'
        /\ \A v \in Ut \ {u} : frame'[v] = frame[v]
        /\ frame'[u] = "join"
        /\ UNCHANGED <<live, fd_wait, waiting, interest, hot>>
    BY <1>4, <2>1 DEF uthread_join, Placed, OnThread, InReady, kernelVars, Whole, Inv, TypeOK,
                      StackType
  <2>. QED
    BY <1>0, <2>1, <2>2, WaitKept
<1>5. ASSUME NEW fd \in Fd, register_event_fails(u, fd) PROVE WaitInv'
  <2>1. /\ \A v \in Ut : Placed(v) => Placed(v)'
        /\ outcome = "up"
        /\ UNCHANGED <<live, frame, fd_wait, sleeping, waiting, interest, hot>>
    BY <1>5 DEF register_event_fails, InUser, Placed, OnThread, InReady, utVars,
                schedVars, pVars, stackVars, kernelVars
  <2>. QED
    BY <1>0, <2>1, WaitKept
<1>6. ASSUME NEW fd \in Fd, NEW e \in Event, NEW t \in IoTimeouts,
             _register_event(u, fd, e, t)
      PROVE  WaitInv'
  BY <1>6, RegisterWait
<1>. QED
  BY <1>1, <1>2, <1>3, <1>4, <1>5, <1>6 DEF UserCall, close

-----------------------------------------------------------------------------
(* Coming back from a coroutine *)

LEMMA ReturnWait ==
    ASSUME Whole, Whole', WaitInv, NEW u \in Ut,
           _uthread_yield(u) \/ CallReturn(u) \/ ResumeReturn(u)
    PROVE  WaitInv'
<1>0. /\ sleeping \subseteq Ut /\ waiting \subseteq Ut /\ live \subseteq Ut
      /\ ready \in Seq(Ut)
  BY DEF Whole, Inv, TypeOK, UtType, PType
<1>1. CASE _uthread_yield(u)
  <2>1. /\ \A v \in Ut : Placed(v) => Placed(v)'
        /\ UNCHANGED <<live, frame, fd_wait, sleeping, waiting, interest, hot, outcome>>
    BY <1>1 DEF _uthread_yield, Placed, OnThread, InReady, utVars, pVars, stackVars,
                kernelVars
  <2>. QED
    BY <1>0, <2>1, WaitKept
<1>2. CASE CallReturn(u)
  <2>1. u \notin waiting /\ u \notin sleeping
    BY <1>2, RunningFacts DEF Whole, CallReturn, JoinReturn, EventReturn
  <2>2. /\ \A v \in Ut : Placed(v) => Placed(v)'
        /\ \A v \in Ut \ {u} : frame'[v] = frame[v] /\ fd_wait'[v] = fd_wait[v]
        /\ UNCHANGED <<live, sleeping, waiting, interest, hot, outcome>>
    BY <1>2 DEF CallReturn, JoinReturn, EventReturn, Placed, OnThread, InReady,
                schedVars, pVars, kernelVars, Whole, Inv, TypeOK, UtType, StackType
  <2>. QED
    BY <1>0, <2>1, <2>2, WaitKept
<1>3. CASE ResumeExited(u)
  <2>1. /\ outcome = "up" /\ cur_uthread = u /\ live' = live \ {u}
        /\ UNCHANGED <<fd_wait, frame, waiting, interest, hot, outcome>>
    BY <1>3 DEF ResumeExited, Resumed, _uthread_free, stackVars, kernelVars
  <2>2. CASE ut_joined[u] = NULL
    <3>1. UNCHANGED <<ready, sleeping>>
      BY <1>3, <2>2 DEF ResumeExited, WakeJoiner
    <3>2. \A v \in live' : Placed(v) => Placed(v)'
      BY <2>1, <3>1 DEF Placed, OnThread, InReady
    <3>. QED
      BY <1>0, <2>1, <3>1, <3>2, WaitKept
  <2>3. CASE ut_joined[u] # NULL
    <3>1. ut_joined[u] \in Ut
      BY <2>3 DEF Whole, Inv, TypeOK, UtType
    <3>2. ready' = Append(ready, ut_joined[u]) /\ sleeping \ {ut_joined[u]} \subseteq sleeping'
          /\ sleeping' \subseteq sleeping
      BY <1>3, <2>3 DEF ResumeExited, WakeJoiner, DeschedSleep
    <3>3. \A v : InReady(v)' <=> (InReady(v) \/ v = ut_joined[u])
      BY <1>0, <3>1, <3>2, Enqueue
    <3>4. \A v \in live' : Placed(v) => Placed(v)'
      BY <2>1, <3>2, <3>3 DEF Placed, OnThread
    <3>. QED
      BY <1>0, <2>1, <3>2, <3>4, WaitKept
  <2>. QED
    BY <2>2, <2>3
<1>4. CASE ResumeSleeping(u)
  <2>1. u \in sleeping /\ cur_uthread = u
    BY <1>4, ResumedFacts DEF ResumeSleeping, Whole, Inv, BitInv, WholeBits
  <2>2. /\ \A v \in Ut : Placed(v) => Placed(v)'
        /\ UNCHANGED <<live, frame, fd_wait, sleeping, waiting, interest, hot, outcome>>
    BY <1>4, <2>1 DEF ResumeSleeping, Placed, OnThread, InReady, utVars, pVars,
                      stackVars, kernelVars
  <2>. QED
    BY <1>0, <2>2, WaitKept
<1>5. CASE ResumeYielded(u)
  <2>1. /\ cur_uthread = u /\ ready' = Append(ready, u)
        /\ UNCHANGED <<live, frame, fd_wait, sleeping, waiting, interest, hot, outcome>>
    BY <1>5 DEF ResumeYielded, Resumed, utVars, stackVars, kernelVars
  <2>2. \A v : InReady(v)' <=> (InReady(v) \/ v = u)
    BY <1>0, <2>1, Enqueue
  <2>3. \A v \in Ut : Placed(v) => Placed(v)'
    BY <2>1, <2>2 DEF Placed, OnThread
  <2>. QED
    BY <1>0, <2>1, <2>3, WaitKept
<1>. QED
  BY <1>1, <1>2, <1>3, <1>4, <1>5, NoSignal DEF ResumeReturn

-----------------------------------------------------------------------------
(* The loop and the kernel *)

(* Steps that leave everything but positions, clocks and the like alone. *)
LEMMA WaitUnmoved ==
    ASSUME Whole, Whole', WaitInv, outcome' = "up" => outcome = "up",
           UNCHANGED <<live, fd_wait, frame, ready, sleeping, waiting, cur_uthread,
                       interest, hot>>
    PROVE  WaitInv'
<1>1. \A v \in Ut : Placed(v) => Placed(v)'
  BY DEF Placed, OnThread, InReady
<1>. QED
  BY <1>1, WaitKept DEF Whole, Inv, TypeOK, UtType

(* The waiter that _uthread_cancel_event finds is the sleeper itself. *)
LEMMA ResumeExpiredWait ==
    ASSUME Whole, Whole', WaitInv, NEW u \in Ut, ResumeExpired(u)
    PROVE  WaitInv'
<1>1. /\ outcome = "up" /\ control = "loop" /\ u \in sleeping /\ u \in live
      /\ fd_wait[u] # NULL /\ "SLEEPING" \in status[u]
  BY DEF ResumeExpired, LoopAt, Due, EarliestSleeper, Registered, Whole, Inv, BitInv, WholeBits
<1>2. u \in waiting /\ fd_wait[u][1] \in Fd
  BY <1>1 DEF Whole, Inv, WholeFrame, WaitInv, SleepersWait, TypeOK, UtType, Key
<1>3. FindWaiter(fd_wait[u]) = {u}
  BY <1>1, <1>2 DEF FindWaiter, WaitInv, EpollMatchesWaiting
<1>4. /\ waiting' = waiting \ {u}
      /\ interest' = [interest EXCEPT ![fd_wait[u][1]] = "none"]
      /\ hot' = [hot EXCEPT ![fd_wait[u][1]] = "quiet"]
  BY <1>3 DEF ResumeExpired, _uthread_cancel_event
<1>5. sleeping' = sleeping \ {u}
  BY <1>1, <1>3 DEF ResumeExpired, DeschedSleep
<1>6. /\ cur_uthread' = u /\ UNCHANGED <<live, frame, ready, outcome>>
      /\ \A v \in Ut \ {u} : fd_wait'[v] = fd_wait[v]
  BY DEF ResumeExpired, Resume, stackVars, Whole, Inv, TypeOK, UtType
<1>. QED
  BY <1>1, <1>2, <1>4, <1>5, <1>6, WaiterWoken

LEMMA HandleEventWait ==
    ASSUME Whole, Whole', WaitInv, NEW e \in Event, NEW next, outcome = "up",
           control = "loop", event # NULL, handle_event(e, next)
    PROVE  WaitInv'
<1>1. CASE HandleEventNone(e, next)
  BY <1>1, WaitUnmoved DEF HandleEventNone, utVars, stackVars
<1>2. ASSUME NEW u \in Ut, HandleEventFound(u, e, next) PROVE WaitInv'
  <2>1. /\ u \in waiting /\ fd_wait[u] = <<event[1], e>> /\ event[1] \in Fd
        /\ fd_wait[u][1] = event[1]
    BY <1>2 DEF HandleEventFound, FindWaiter, Whole, Inv, TypeOK, SchedType
  <2>2. u \in sleeping /\ "SLEEPING" \in status[u]
    BY <2>1 DEF Whole, Inv, WholeFrame, BitInv, WholeBits, TypeOK, PType
  <2>3. sleeping' = sleeping \ {u}
    BY <1>2, <2>2 DEF HandleEventFound, DeschedSleep
  <2>4. /\ cur_uthread' = u /\ waiting' = waiting \ {u}
        /\ interest' = [interest EXCEPT ![event[1]] = "none"]
        /\ hot' = [hot EXCEPT ![event[1]] = "quiet"]
        /\ UNCHANGED <<live, fd_wait, frame, ready, outcome>>
    BY <1>2 DEF HandleEventFound, Resume, stackVars
  <2>. QED
    BY <2>1, <2>3, <2>4, WaiterWoken
<1>3. ASSUME NEW u \in Ut, HandleEventFails(u, e) PROVE WaitInv'
  BY <1>3, WaitUnmoved DEF HandleEventFails, utVars, stackVars
<1>. QED
  BY <1>1, <1>2, <1>3, NoSignal DEF handle_event

LEMMA RunReadyWait ==
    ASSUME Whole, Whole', WaitInv, RunReady
    PROVE  WaitInv'
<1>1. /\ control = "loop" /\ ready # <<>> /\ ready' = Tail(ready)
      /\ cur_uthread' = Head(ready)
      /\ UNCHANGED <<live, fd_wait, frame, sleeping, waiting, interest, hot, outcome>>
  BY DEF RunReady, LoopAt, Resume, stackVars, kernelVars
<1>2. /\ \A v : InReady(v)' <=> (InReady(v) /\ v # Head(ready))
      /\ InReady(Head(ready)) /\ Head(ready) \in Ut
  BY <1>1, Dequeue DEF Whole, Inv, TypeOK, PType, PlaceInv, OnePlace, WholePlace
<1>3. Head(ready) \notin sleeping
  BY <1>2 DEF Whole, Inv, PlaceInv, OnePlace, WholePlace
<1>4. \A v \in Ut : Placed(v) => Placed(v)'
  BY <1>1, <1>2, <1>3, LoopFacts DEF Whole, Placed, OnThread
<1>. QED
  BY <1>1, <1>4, WaitKept DEF Whole, Inv, TypeOK, UtType

LEMMA EpollReturnsWait ==
    ASSUME Whole, Whole', WaitInv, EpollReturns
    PROVE  WaitInv'
<1>1. PICK s \in Fetchable :
        LET fetched == {s[i] : i \in DOMAIN s} IN
        /\ events' = [i \in DOMAIN s |-> <<s[i], hot[s[i]] = "hup">>]
        /\ interest' = [fd \in Fd |-> IF fd \in fetched THEN "spent"
                                                        ELSE interest[fd]]
        /\ hot' = [fd \in Fd |-> IF fd \in fetched THEN "quiet" ELSE hot[fd]]
  BY DEF EpollReturns
<1>2. \A i \in DOMAIN s : s[i] \in Fd /\ hot[s[i]] # "quiet"
  BY DEF Fetchable, HotFds
<1>3. \A fd \in Fd : interest[fd] # "none" <=> interest'[fd] # "none"
  BY <1>1, <1>2 DEF WaitInv, HotIsArmed
<1>4. HotIsArmed'
  BY <1>1, <1>3 DEF WaitInv, HotIsArmed
<1>. QED
  BY <1>3, <1>4, KernelOnly DEF EpollReturns, utVars, stackVars

LEMMA KernelEventWait ==
    ASSUME Whole, Whole', WaitInv, NEW fd \in Fd, KernelEvent(fd)
    PROVE  WaitInv'
<1>1. /\ interest[fd] = "armed" /\ UNCHANGED interest
      /\ \A x \in Fd \ {fd} : hot'[x] = hot[x]
  BY DEF KernelEvent, Whole, Inv, TypeOK, KernelType
<1>2. HotIsArmed'
  BY <1>1 DEF WaitInv, HotIsArmed
<1>. QED
  BY <1>1, <1>2, KernelOnly DEF KernelEvent, utVars, stackVars, pVars, schedVars

LEMMA SchedStepWait ==
    ASSUME Whole, Whole', WaitInv, SchedStep
    PROVE  WaitInv'
<1>1. CASE While \/ StartRound \/ ReadyEmpty \/ _uthread_poll \/ _uthread_min_timeout
           \/ EpollTimesOut \/ NextEvent
  BY <1>1, WaitUnmoved
     DEF While, StartRound, ReadyEmpty, _uthread_poll, _uthread_min_timeout,
         EpollTimesOut, NextEvent, utVars, stackVars, pVars, kernelVars
<1>2. CASE Done \/ \E u \in Ut : ResumeExpiredFails(u)
  BY <1>2, WaitUnmoved DEF Done, ResumeExpiredFails, LoopAt, utVars, stackVars, pVars,
                           schedVars, kernelVars
<1>3. CASE HandleRead
  BY <1>3, HandleEventWait DEF HandleRead, LoopAt, Event
<1>4. CASE HandleWrite
  BY <1>4, HandleEventWait DEF HandleWrite, LoopAt, Event, Whole, Inv, TypeOK, SchedType
<1>. QED
  BY <1>1, <1>2, <1>3, <1>4, ResumeExpiredWait, RunReadyWait, EpollReturnsWait, NoSignal
     DEF SchedStep

-----------------------------------------------------------------------------
(* The theorems *)

LEMMA WaitInit == Init => WaitInv
<1>. SUFFICES ASSUME Init PROVE WaitInv
  OBVIOUS
<1>1. /\ ready = <<Main>> /\ Main \in Ut /\ live = {Main} /\ sleeping = {}
      /\ waiting = {} /\ cur_uthread = NULL
  BY ConstantsAssumption DEF Init, _runtime_init, _uthread_create_main
<1>2. \A u : InReady(u) <=> u = Main
  BY <1>1 DEF InReady
<1>3. NoneLost
  BY <1>1, <1>2, ConstantsAssumption DEF NoneLost, OnThread
<1>4. SleepersWait /\ HotIsArmed /\ EpollMatchesWaiting
  BY <1>1 DEF Init, _runtime_init, SleepersWait, HotIsArmed, EpollMatchesWaiting
<1>. QED
  BY <1>3, <1>4 DEF WaitInv

LEMMA WaitStep ==
    ASSUME "close" \notin Features, Whole, Whole', WaitInv, [Next]_vars
    PROVE  WaitInv'
<1>1. ASSUME NEW u \in Ut, _uthread_yield(u) \/ CallReturn(u) \/ ResumeReturn(u)
      PROVE  WaitInv'
  BY <1>1, ReturnWait
<1>2. CASE Tick \/ Stopped \/ UNCHANGED vars
  BY <1>2, WaitUnmoved DEF Tick, Stopped, vars, utVars, stackVars, pVars, schedVars,
                           kernelVars
<1>. QED
  BY <1>1, <1>2, SchedStepWait, UserCallWait, KernelEventWait, NoSignal DEF Next

(* What ties the coroutines, the two trees and the kernel together holds in *)
(* every reachable state if no fd that is waited for gets closed and no     *)
(* signal comes inside of a call that blocks.                               *)
THEOREM WaitInvariant ==
    "close" \notin Features /\ "signals" \notin Features /\ Spec => []WaitInv
<1>. SUFFICES ASSUME "close" \notin Features, "signals" \notin Features
              PROVE  Spec => []WaitInv
  OBVIOUS
<1>1. Whole /\ Whole' /\ WaitInv /\ [Next]_vars => WaitInv'
  BY WaitStep
<1>. QED
  BY <1>1, WaitInit, WholeHolds, PTL DEF Spec

(* Until it is freed, a coroutine has the thread, is in the ready queue or  *)
(* is in the sleeping tree: no path through _uthread_resume, the joins and  *)
(* the waits drops one, as long as fds stay open and signals out of them.   *)
THEOREM NoneLostHolds ==
    "close" \notin Features /\ "signals" \notin Features /\ Spec => []NoneLost
<1>1. WaitInv => NoneLost
  BY DEF WaitInv
<1>. QED
  BY <1>1, WaitInvariant, PTL

(* The waiting tree and epoll's interest list agree, so that the assertions *)
(* on EPOLL_CTL_DEL cannot fail for a waiter, as long as fds stay open and  *)
(* signals out of _register_event.                                          *)
THEOREM EpollMatches ==
    "close" \notin Features /\ "signals" \notin Features /\ Spec => []EpollMatchesWaiting
<1>1. WaitInv => EpollMatchesWaiting
  BY DEF WaitInv
<1>. QED
  BY <1>1, WaitInvariant, PTL

-----------------------------------------------------------------------------
(* The events fetched by epoll_wait *)

Handling == {"event", "event_wr"}

(* The strengthening of EventNotLost: outside of the part of the loop that  *)
(* handles them there are no fetched events left.                           *)
NoneFetched ==
    outcome = "up" /\ loop \notin Handling => events = <<>> /\ event = NULL

EventInv == EventNotLost /\ NoneFetched

(* Whoever is in the waiting tree is there under the key of its wait, even  *)
(* if the fd has been closed.                                               *)
WaitersHaveKeys == \A u \in waiting : fd_wait[u] # NULL

(* The fd_wait of a waiter is the fd and the event it waits for. *)
LEMMA WaiterKey ==
    ASSUME Whole, WaitersHaveKeys, NEW u \in waiting
    PROVE  /\ u \in Ut /\ fd_wait[u] \in Key /\ fd_wait[u][1] \in Fd
           /\ \A fd, e : fd_wait[u][1] = fd /\ fd_wait[u][2] = e => fd_wait[u] = <<fd, e>>
<1>1. u \in Ut /\ fd_wait[u] \in Key
  BY DEF WaitersHaveKeys, Whole, Inv, TypeOK, UtType, PType
<1>. QED
  BY <1>1 DEF Key

LEMMA KeysStep ==
    ASSUME Whole, WaitersHaveKeys, [Next]_vars
    PROVE  WaitersHaveKeys'
<1>1. ASSUME NEW u \in Ut, ResumeExpired(u) PROVE WaitersHaveKeys'
  <2>1. waiting' = waiting \ FindWaiter(fd_wait[u]) /\ fd_wait' = [fd_wait EXCEPT ![u] = NULL]
    BY <1>1 DEF ResumeExpired, _uthread_cancel_event
  <2>2. u \notin waiting' /\ \A v \in waiting' : v \in waiting /\ v \in Ut
    BY <2>1 DEF FindWaiter, Whole, Inv, TypeOK, PType
  <2>. QED
    BY <2>1, <2>2 DEF WaitersHaveKeys, Whole, Inv, TypeOK, UtType
<1>2. ASSUME NEW e, NEW next, handle_event(e, next) PROVE WaitersHaveKeys'
  BY <1>2 DEF handle_event, HandleEventNone, HandleEventFound, HandleEventFails,
              HandleEventTwice, WaitersHaveKeys, utVars
<1>3. CASE SchedStep
  <2>1. CASE \/ While \/ Done \/ StartRound \/ RunReady \/ ReadyEmpty \/ _uthread_poll
             \/ _uthread_min_timeout \/ EpollReturns \/ EpollTimesOut \/ NextEvent
             \/ \E u \in Ut : ResumeExpiredFails(u)
    BY <2>1 DEF While, Done, StartRound, RunReady, ReadyEmpty, _uthread_poll,
                _uthread_min_timeout, EpollReturns, EpollTimesOut, NextEvent,
                ResumeExpiredFails, WaitersHaveKeys, utVars, pVars
  <2>. QED
    BY <1>1, <1>2, <1>3, <2>1, NoSignal DEF SchedStep, HandleRead, HandleWrite
<1>4. ASSUME NEW u \in Ut, NEW fd \in Fd, NEW e \in Event, NEW t,
             _register_event(u, fd, e, t)
      PROVE  WaitersHaveKeys'
  <2>1. fd_wait' = [fd_wait EXCEPT ![u] = <<fd, e>>] /\ waiting' \subseteq waiting \cup {u}
    BY <1>4 DEF _register_event
  <2>2. <<fd, e>> # NULL
    BY ConstantsAssumption DEF Event
  <2>. QED
    BY <2>1, <2>2 DEF WaitersHaveKeys, Whole, Inv, TypeOK, UtType, PType
<1>5. ASSUME NEW u \in Ut, NEW a \in Ut, uthread_create(u, a) \/ uthread_create_fails(u, a)
      PROVE  WaitersHaveKeys'
  <2>1. /\ outcome = "up" /\ a \notin live /\ waiting' = waiting
        /\ \A v \in Ut \ {a} : fd_wait'[v] = fd_wait[v]
    BY <1>5 DEF uthread_create, uthread_create_fails, InUser, Whole, Inv, TypeOK, UtType, pVars
  <2>2. a \notin waiting /\ waiting \subseteq Ut
    BY <2>1 DEF Whole, Inv, TypeOK, PType, WholeFrame, BitInv, WholeBits
  <2>. QED
    BY <2>1, <2>2 DEF WaitersHaveKeys
<1>6. ASSUME NEW u \in Ut, UserCall(u) PROVE WaitersHaveKeys'
  <2>1. ASSUME \/ uthread_exit(u)
               \/ \E t \in Ut : \/ uthread_detach(u, t) \/ uthread_join_exited(u, t)
                                \/ uthread_join(u, t)
               \/ \E fd \in Fd : register_event_fails(u, fd) \/ close(u, fd)
        PROVE  WaitersHaveKeys'
    BY <2>1 DEF uthread_exit, uthread_detach, uthread_join_exited, uthread_join,
                register_event_fails, close, WaitersHaveKeys, utVars, pVars
  <2>. QED
    BY <1>4, <1>5, <1>6, <2>1 DEF UserCall
<1>7. ASSUME NEW u \in Ut, CallReturn(u) PROVE WaitersHaveKeys'
  <2>1. u \notin waiting
    BY <1>7, RunningFacts DEF Whole, CallReturn, JoinReturn, EventReturn
  <2>2. waiting' = waiting /\ \A v \in Ut \ {u} : fd_wait'[v] = fd_wait[v]
    BY <1>7 DEF CallReturn, JoinReturn, EventReturn, Whole, Inv, TypeOK, UtType, pVars
  <2>. QED
    BY <2>1, <2>2 DEF WaitersHaveKeys, Whole, Inv, TypeOK, PType
<1>8. ASSUME NEW u \in Ut, _uthread_yield(u) \/ ResumeReturn(u) PROVE WaitersHaveKeys'
  BY <1>8, NoSignal
     DEF _uthread_yield, ResumeReturn, ResumeExited, ResumeSleeping, ResumeYielded,
         WaitersHaveKeys, utVars, pVars
<1>9. CASE Tick \/ Stopped \/ UNCHANGED vars \/ \E fd \in Fd : KernelEvent(fd)
  BY <1>9 DEF Tick, Stopped, KernelEvent, vars, utVars, pVars, WaitersHaveKeys
<1>. QED
  BY <1>3, <1>6, <1>7, <1>8, <1>9, NoSignal DEF Next

(* Outside of that part nobody waits for an fd that has been reported. *)
LEMMA NoneSpent ==
    ASSUME EventInv, outcome = "up", loop \notin Handling, NEW u \in waiting
    PROVE  interest[fd_wait[u][1]] # "spent"
<1>1. events = <<>> /\ event = NULL
  BY DEF EventInv, NoneFetched
<1>. QED
  BY <1>1 DEF EventInv, EventNotLost

(* Steps that neither fetch nor handle events, and report no fd. *)
LEMMA EventsKept ==
    ASSUME EventInv, outcome' = "up" => outcome = "up",
           loop' = loop \/ (loop \notin Handling /\ loop' \notin Handling),
           \A v \in waiting' : interest'[fd_wait'[v][1]] = "spent" =>
                /\ v \in waiting /\ fd_wait'[v] = fd_wait[v]
                /\ interest[fd_wait[v][1]] = "spent",
           UNCHANGED <<events, event>>
    PROVE  EventInv'
<1>. SUFFICES ASSUME outcome' = "up" PROVE EventInv'
  BY DEF EventInv, EventNotLost, NoneFetched
<1>1. CASE loop' = loop
  BY <1>1 DEF EventInv, EventNotLost, NoneFetched
<1>2. CASE loop \notin Handling /\ loop' \notin Handling
  <2>1. \A v \in waiting' : interest'[fd_wait'[v][1]] # "spent"
    BY <1>2, NoneSpent
  <2>. QED
    BY <1>2, <2>1 DEF EventInv, EventNotLost, NoneFetched
<1>. QED
  BY <1>1, <1>2

(* epoll_wait returns: every fd it reports is among the events. *)
LEMMA EpollReturnsEvents ==
    ASSUME Whole, WaitersHaveKeys, EventInv, EpollReturns
    PROVE  EventInv'
<1>1. /\ outcome = "up" /\ loop \notin Handling /\ loop' = "event"
      /\ UNCHANGED <<waiting, fd_wait>>
  BY DEF EpollReturns, LoopAt, GoTo, Handling, utVars
<1>2. PICK s \in Fetchable :
        /\ events' = [i \in DOMAIN s |-> <<s[i], hot[s[i]] = "hup">>]
        /\ interest' = [fd \in Fd |-> IF fd \in {s[i] : i \in DOMAIN s}
                                        THEN "spent" ELSE interest[fd]]
  BY DEF EpollReturns
<1>3. PICK n \in Nat : DOMAIN s = 1..n
  <2>1. Cardinality(HotFds) \in Nat
    BY ConstantsAssumption, FS_Subset, FS_CardinalityType DEF HotFds
  <2>. QED
    BY <2>1, ConstantsAssumption DEF Fetchable
<1>4. Len(events') = n
  BY <1>2, <1>3
<1>5. ASSUME NEW v \in waiting, interest'[fd_wait[v][1]] = "spent",
             fd_wait[v][1] \in Fd
      PROVE  \E i \in 1..Len(events') : events'[i][1] = fd_wait[v][1]
  <2>1. fd_wait[v][1] \in {s[i] : i \in DOMAIN s}
    BY <1>1, <1>2, <1>5, NoneSpent
  <2>2. PICK i \in DOMAIN s : s[i] = fd_wait[v][1]
    BY <2>1
  <2>. QED
    BY <1>2, <1>3, <1>4, <2>2
<1>6. \A v \in waiting : fd_wait[v][1] \in Fd
  BY <1>1, WaiterKey DEF Key
<1>. QED
  BY <1>1, <1>5, <1>6 DEF EventInv, EventNotLost, NoneFetched, Handling

(* The next event comes into hand. *)
LEMMA NextEventEvents ==
    ASSUME Whole, EventInv, NextEvent
    PROVE  EventInv'
<1>1. /\ outcome = "up" /\ loop = "event" /\ event = NULL
      /\ UNCHANGED <<waiting, fd_wait, interest, outcome>>
  BY DEF NextEvent, LoopAt, utVars, kernelVars
<1>2. CASE events = <<>>
  <2>1. /\ \A v \in waiting : interest[fd_wait[v][1]] # "spent"
        /\ UNCHANGED <<events, event>>
    BY <1>1, <1>2 DEF NextEvent, EventInv, EventNotLost
  <2>. QED
    BY <1>1, <1>2, <2>1 DEF EventInv, EventNotLost, NoneFetched
<1>3. CASE events # <<>>
  <2>0. events \in Seq(Fd \X BOOLEAN) /\ Len(events) \in Nat \ {0}
    BY <1>3 DEF Whole, Inv, TypeOK, PType
  <2>1. /\ event' = events[Len(events)] /\ event' # NULL /\ loop' = "event"
        /\ events' = SubSeq(events, 1, Len(events) - 1)
    <3>1. event' = LastOf(events) /\ loop' = "event"
          /\ events' = SubSeq(events, 1, Len(events) - 1)
      BY <1>1, <1>3 DEF NextEvent
    <3>2. event' = events[Len(events)]
      BY <1>3, <3>1 DEF LastOf
    <3>3. event' # NULL
      BY <2>0, <3>2, ConstantsAssumption
    <3>. QED
      BY <3>1, <3>2, <3>3
  <2>2. Len(events') = Len(events) - 1 /\ \A i \in 1..Len(events') : events'[i] = events[i]
    <3>1. \A i \in 1..(Len(events) - 1) : events[i] \in Fd \X BOOLEAN
      BY <2>0
    <3>. DEFINE n == Len(events) - 1
                sub == SubSeq(events, 1, n)
    <3>2. n \in Nat
      BY <2>0
    <3>3. /\ Len(sub) = IF 1 <= n THEN n - 1 + 1 ELSE 0
          /\ \A i \in 1..(n - 1 + 1) : sub[i] = events[1 + i - 1]
      <4>. HIDE DEF n
      <4>. QED
        BY <3>1, <3>2, SubSeqProperties DEF n
    <3>4. Len(sub) = n /\ \A i \in 1..n : sub[i] = events[i]
      <4>. HIDE DEF n, sub
      <4>. QED
        BY <3>2, <3>3
    <3>. QED
      BY <2>1, <3>4
  <2>3. ASSUME NEW v \in waiting, interest[fd_wait[v][1]] = "spent"
        PROVE  \/ \E i \in 1..Len(events') : events'[i][1] = fd_wait[v][1]
               \/ event'[1] = fd_wait[v][1]
    <3>1. PICK i \in 1..Len(events) : events[i][1] = fd_wait[v][1]
      BY <1>1, <2>3 DEF EventInv, EventNotLost
    <3>. QED
      BY <2>0, <2>1, <2>2, <3>1
  <2>. QED
    BY <1>1, <2>1, <2>3 DEF EventInv, EventNotLost, NoneFetched, Handling
<1>. QED
  BY <1>2, <1>3

(* The event in hand is handled: whoever still waits for a reported fd      *)
(* waits for another one, unless nobody was found.                          *)
LEMMA HandledEvents ==
    ASSUME Whole, WaitersHaveKeys, outcome = "up", event # NULL, NEW e \in Event, NEW next,
           handle_event(e, next), outcome' = "up",
           NEW v \in waiting', interest'[fd_wait'[v][1]] = "spent"
    PROVE  /\ loop' = next /\ v \in waiting /\ fd_wait'[v] = fd_wait[v]
           /\ interest[fd_wait[v][1]] = "spent"
           /\ fd_wait[v][1] = event[1] => fd_wait[v][2] # e
<1>1. CASE HandleEventNone(e, next)
  <2>1. /\ FindWaiter(<<event[1], e>>) = {} /\ loop' = next
        /\ UNCHANGED <<waiting, fd_wait, interest>>
    BY <1>1 DEF HandleEventNone, GoTo, utVars
  <2>. QED
    BY <2>1, WaiterKey DEF FindWaiter
<1>2. ASSUME NEW u \in Ut, HandleEventFound(u, e, next)
      PROVE  /\ loop' = next /\ v \in waiting /\ fd_wait'[v] = fd_wait[v]
             /\ interest[fd_wait[v][1]] = "spent" /\ fd_wait[v][1] # event[1]
  <2>1. /\ u \in waiting /\ fd_wait[u] = <<event[1], e>> /\ event[1] \in Fd
        /\ waiting' = waiting \ {u} /\ fd_wait' = fd_wait /\ loop' = next
        /\ interest' = [interest EXCEPT ![event[1]] = "none"]
    BY <1>2 DEF HandleEventFound, Resume, FindWaiter, Whole, Inv, TypeOK, SchedType
  <2>2. v \in waiting /\ fd_wait[v][1] \in Fd
    BY <2>1, WaiterKey
  <2>. QED
    BY <2>1, <2>2 DEF Whole, Inv, TypeOK, KernelType
<1>3. ASSUME NEW u \in Ut, HandleEventFails(u, e) PROVE FALSE
  BY <1>3 DEF HandleEventFails
<1>. QED
  BY <1>1, <1>2, <1>3, NoSignal DEF handle_event

LEMMA HandleReadEvents ==
    ASSUME Whole, WaitersHaveKeys, EventInv, HandleRead
    PROVE  EventInv'
<1>1. /\ outcome = "up" /\ loop = "event" /\ event # NULL /\ "RD" \in Event
      /\ handle_event("RD", "event_wr") /\ UNCHANGED <<events, event>>
  BY DEF HandleRead, LoopAt, Event
<1>2. ASSUME outcome' = "up", NEW v \in waiting', interest'[fd_wait'[v][1]] = "spent"
      PROVE  /\ loop' = "event_wr" /\ fd_wait'[v] = fd_wait[v]
             /\ \/ \E i \in 1..Len(events) : events[i][1] = fd_wait[v][1]
                \/ event[1] = fd_wait[v][1] /\ fd_wait[v][2] = "WR"
  <2>1. /\ loop' = "event_wr" /\ v \in waiting /\ fd_wait'[v] = fd_wait[v]
        /\ interest[fd_wait[v][1]] = "spent"
        /\ fd_wait[v][1] = event[1] => fd_wait[v][2] # "RD"
    BY <1>1, <1>2, HandledEvents
  <2>2. fd_wait[v][2] \in {"RD", "WR"}
    BY <1>1, <2>1, WaiterKey DEF Key, Event
  <2>. QED
    BY <1>1, <2>1, <2>2 DEF EventInv, EventNotLost
<1>3. outcome' = "up" => loop' = "event_wr"
  BY <1>1, NoSignal
     DEF handle_event, HandleEventNone, HandleEventFound, HandleEventFails, Resume, GoTo
<1>4. EventNotLost'
  BY <1>1, <1>2 DEF EventNotLost
<1>. QED
  BY <1>3, <1>4 DEF EventInv, NoneFetched, Handling

LEMMA HandleWriteEvents ==
    ASSUME Whole, WaitersHaveKeys, EventInv, HandleWrite
    PROVE  EventInv'
<1>1. /\ outcome = "up" /\ loop = "event_wr" /\ event # NULL /\ "WR" \in Event
      /\ handle_event("WR", "event") /\ UNCHANGED events
  BY DEF HandleWrite, LoopAt, Event, Whole, Inv, TypeOK, SchedType
<1>2. ASSUME outcome' = "up", NEW v \in waiting', interest'[fd_wait'[v][1]] = "spent"
      PROVE  /\ fd_wait'[v] = fd_wait[v]
             /\ \E i \in 1..Len(events) : events[i][1] = fd_wait[v][1]
  <2>1. /\ v \in waiting /\ fd_wait'[v] = fd_wait[v]
        /\ interest[fd_wait[v][1]] = "spent"
        /\ fd_wait[v][1] = event[1] => fd_wait[v][2] # "WR"
    BY <1>1, <1>2, HandledEvents
  <2>. QED
    BY <1>1, <2>1 DEF EventInv, EventNotLost
<1>3. outcome' = "up" => loop' = "event"
  BY <1>1, NoSignal
     DEF handle_event, HandleEventNone, HandleEventFound, HandleEventFails, Resume, GoTo
<1>4. EventNotLost'
  BY <1>1, <1>2 DEF EventNotLost
<1>. QED
  BY <1>3, <1>4 DEF EventInv, NoneFetched, Handling

(* Every other step leaves the fetched events alone. *)
LEMMA OtherEvents ==
    ASSUME Whole, WaitersHaveKeys, EventInv, [Next]_vars, ~ EpollReturns, ~ NextEvent,
           ~ HandleRead, ~ HandleWrite
    PROVE  EventInv'
<1>1. ASSUME NEW u \in Ut, ResumeExpired(u) PROVE EventInv'
  <2>1. /\ outcome = "up" /\ loop = "expired" /\ loop' = "expired"
        /\ UNCHANGED <<events, event>> /\ waiting' \subseteq waiting
        /\ u \in sleeping /\ fd_wait[u] # NULL
    BY <1>1 DEF ResumeExpired, LoopAt, Resume, _uthread_cancel_event, Due,
                EarliestSleeper, Registered
  <2>2. u \notin waiting'
    BY <1>1 DEF ResumeExpired, _uthread_cancel_event, FindWaiter
  <2>3. \A v \in waiting' : fd_wait'[v] = fd_wait[v] /\ v \in waiting /\ fd_wait[v][1] \in Fd
    BY <1>1, <2>1, <2>2, WaiterKey DEF ResumeExpired, Whole, Inv, TypeOK, UtType, PType
  <2>4. \A fd \in Fd : interest'[fd] = "spent" => interest[fd] = "spent"
    BY <1>1 DEF ResumeExpired, _uthread_cancel_event, Whole, Inv, TypeOK, KernelType
  <2>. QED
    BY <2>1, <2>3, <2>4, EventsKept DEF Handling
<1>2. CASE \/ While \/ Done \/ StartRound \/ RunReady \/ ReadyEmpty \/ _uthread_poll
           \/ _uthread_min_timeout \/ EpollTimesOut
           \/ \E u \in Ut : ResumeExpiredFails(u)
  <2>1. /\ outcome = "up"
        /\ loop' = loop \/ (loop \notin Handling /\ loop' \notin Handling)
        /\ UNCHANGED <<events, event, waiting, fd_wait, interest>>
    BY <1>2 DEF While, Done, ResumeExpiredFails, StartRound, RunReady, ReadyEmpty,
                _uthread_poll, _uthread_min_timeout, EpollTimesOut, LoopAt, GoTo,
                Resume, Handling, utVars, pVars, schedVars, kernelVars
  <2>. QED
    BY <2>1, EventsKept
<1>3. ASSUME NEW u \in Ut, NEW fd \in Fd, NEW e \in Event, NEW t,
             _register_event(u, fd, e, t)
      PROVE  EventInv'
  <2>1. /\ outcome = "up" /\ u \notin waiting
        /\ UNCHANGED <<loop, events, event>>
        /\ interest' = [interest EXCEPT ![fd] = "armed"]
        /\ fd_wait' = [fd_wait EXCEPT ![u] = <<fd, e>>]
        /\ waiting' \subseteq waiting \cup {u}
    BY <1>3, RunningFacts DEF Whole, _register_event, InUser
  <2>2. fd_wait'[u][1] = fd /\ interest'[fd] = "armed"
    BY <2>1 DEF Whole, Inv, TypeOK, UtType, KernelType
  <2>3. ASSUME NEW v \in waiting, interest'[fd_wait'[v][1]] = "spent"
        PROVE  fd_wait'[v] = fd_wait[v] /\ interest[fd_wait[v][1]] = "spent"
    <3>1. fd_wait'[v] = fd_wait[v] /\ fd_wait[v][1] \in Fd
      BY <2>1, WaiterKey DEF Whole, Inv, TypeOK, UtType
    <3>. QED
      BY <2>1, <2>3, <3>1 DEF Whole, Inv, TypeOK, KernelType
  <2>. QED
    BY <2>1, <2>2, <2>3, EventsKept
<1>4. ASSUME NEW u \in Ut, NEW a \in Ut, uthread_create(u, a) \/ uthread_create_fails(u, a)
      PROVE  EventInv'
  <2>1. /\ outcome = "up" /\ a \notin live
        /\ UNCHANGED <<loop, events, event, waiting, interest, outcome>>
        /\ \A v \in Ut \ {a} : fd_wait'[v] = fd_wait[v]
    BY <1>4 DEF uthread_create, uthread_create_fails, InUser, Whole, Inv, TypeOK, UtType,
                schedVars, pVars, kernelVars
  <2>2. a \notin waiting /\ waiting \subseteq Ut
    BY <2>1 DEF Whole, Inv, TypeOK, PType, WholeFrame, BitInv, WholeBits
  <2>. QED
    BY <2>1, <2>2, EventsKept
<1>5. ASSUME NEW u \in Ut, NEW t \in Ut, uthread_join(u, t) PROVE EventInv'
  BY <1>5, EventsKept DEF uthread_join, InUser, kernelVars
<1>6. ASSUME NEW u \in Ut, UserCall(u) PROVE EventInv'
  <2>1. ASSUME \/ uthread_exit(u)
               \/ \E t \in Ut : uthread_detach(u, t) \/ uthread_join_exited(u, t)
               \/ \E fd \in Fd : register_event_fails(u, fd)
        PROVE  EventInv'
    BY <2>1, EventsKept
       DEF uthread_exit, uthread_detach, uthread_join_exited, register_event_fails,
           InUser, utVars, pVars, schedVars, kernelVars
  <2>2. ASSUME NEW fd \in Fd, close(u, fd) PROVE EventInv'
    <3>1. /\ outcome = "up" /\ UNCHANGED <<loop, events, event, waiting, fd_wait, outcome>>
          /\ interest' = [interest EXCEPT ![fd] = "none"]
      BY <2>2 DEF close, InUser, utVars, pVars, schedVars
    <3>2. \A v \in waiting : fd_wait[v][1] \in Fd
      BY WaiterKey
    <3>. QED
      BY <3>1, <3>2, EventsKept DEF Whole, Inv, TypeOK, KernelType
  <2>. QED
    BY <1>3, <1>4, <1>5, <1>6, <2>1, <2>2 DEF UserCall
<1>7. ASSUME NEW u \in Ut, _uthread_yield(u) \/ CallReturn(u) \/ ResumeReturn(u)
      PROVE  EventInv'
  <2>1. CASE CallReturn(u)
    <3>1. u \notin waiting
      BY <2>1, RunningFacts DEF Whole, CallReturn, JoinReturn, EventReturn
    <3>2. /\ UNCHANGED <<loop, events, event, waiting, interest, outcome>>
          /\ \A v \in Ut \ {u} : fd_wait'[v] = fd_wait[v]
      BY <2>1 DEF CallReturn, JoinReturn, EventReturn, Whole, Inv, TypeOK, UtType, pVars,
                  schedVars, kernelVars
    <3>. QED
      BY <3>1, <3>2, EventsKept DEF Whole, Inv, TypeOK, PType
  <2>2. CASE _uthread_yield(u) \/ ResumeReturn(u)
    BY <2>2, EventsKept, NoSignal
       DEF _uthread_yield, ResumeReturn, ResumeExited, ResumeSleeping, ResumeYielded,
           utVars, pVars, kernelVars
  <2>. QED
    BY <1>7, <2>1, <2>2
<1>8. CASE Tick \/ Stopped \/ UNCHANGED vars \/ \E fd \in Fd : KernelEvent(fd)
  BY <1>8, EventsKept DEF Tick, Stopped, KernelEvent, vars, utVars, pVars, schedVars,
                          kernelVars
<1>. QED
  BY <1>1, <1>2, <1>6, <1>7, <1>8, NoSignal DEF Next, SchedStep

(* EPOLLONESHOT reports an fd once, and no report is dropped: as long as    *)
(* the waiter of a reported fd has not run, the report is among the fetched *)
(* events or in hand, and not yet past the test for the waiter's own kind.  *)
(* (A signal between EPOLL_CTL_ADD and the waiting tree does lose one.)     *)
THEOREM EventsNotLost == "signals" \notin Features /\ Spec => []EventNotLost
<1>. SUFFICES ASSUME "signals" \notin Features PROVE Spec => []EventNotLost
  OBVIOUS
<1>1. Init => EventInv /\ WaitersHaveKeys
  BY DEF Init, _runtime_init, EventInv, EventNotLost, NoneFetched, WaitersHaveKeys
<1>2. Whole /\ WaitersHaveKeys /\ [Next]_vars => WaitersHaveKeys'
  BY KeysStep
<1>3. Whole /\ WaitersHaveKeys /\ EventInv /\ [Next]_vars => EventInv'
  BY EpollReturnsEvents, NextEventEvents, HandleReadEvents, HandleWriteEvents, OtherEvents
<1>4. EventInv => EventNotLost
  BY DEF EventInv
<1>. QED
  BY <1>1, <1>2, <1>3, <1>4, WholeHolds, PTL DEF Spec

-----------------------------------------------------------------------------
(* The assertions on EPOLL_CTL_DEL *)

LEMMA DelFailsStep ==
    ASSUME Whole, WaitInv, Next, outcome' \in DelFailed, outcome' # outcome
    PROVE  JoinTimedOut
<1>. USE DEF DelFailed
<1>1. ASSUME NEW u \in Ut, ResumeExpiredFails(u) PROVE JoinTimedOut
  <2>1. /\ outcome = "up" /\ u \in sleeping /\ wakeup_time[u] <= now
        /\ ~ Registered(u) /\ outcome' = "abort_epoll_del_expired"
    BY <1>1 DEF ResumeExpiredFails, LoopAt, Due, EarliestSleeper
  <2>2. frame[u] = "join"
    BY <2>1 DEF Whole, Inv, WholeFrame, WaitInv, SleepersWait, EpollMatchesWaiting
  <2>. QED
    BY <2>1, <2>2 DEF JoinTimedOut
<1>2. ASSUME NEW u \in Ut, NEW e, outcome = "up", event # NULL, HandleEventFails(u, e)
      PROVE  FALSE
  <2>1. /\ u \in waiting /\ fd_wait[u] = <<event[1], e>> /\ interest[event[1]] = "none"
    BY <1>2 DEF HandleEventFails, FindWaiter
  <2>. QED
    BY <1>2, <2>1 DEF WaitInv, EpollMatchesWaiting, Registered
<1>3. ASSUME NEW e, NEW next, outcome = "up", event # NULL, handle_event(e, next)
      PROVE  FALSE
  BY <1>2, <1>3, NoSignal DEF handle_event, HandleEventNone, HandleEventFound
<1>4. CASE SchedStep
  <2>1. ASSUME HandleRead \/ HandleWrite PROVE FALSE
    BY <1>3, <2>1 DEF HandleRead, HandleWrite, LoopAt, Whole, Inv, TypeOK, SchedType
  <2>. QED
    BY <1>1, <1>4, <2>1, NoSignal
       DEF SchedStep, While, Done, ResumeExpired, StartRound, RunReady, ReadyEmpty,
           _uthread_poll, _uthread_min_timeout, EpollReturns, EpollTimesOut, NextEvent
<1>5. ASSUME NEW u \in Ut, UserCall(u) PROVE FALSE
  <2>1. ASSUME NEW t, NEW bits, SchedSleep(u, t, bits) PROVE FALSE
    BY <2>1 DEF SchedSleep
  <2>2. ASSUME NEW t \in Ut, uthread_join(u, t) PROVE FALSE
    BY <2>1, <2>2 DEF uthread_join
  <2>3. ASSUME NEW fd \in Fd, NEW e \in Event, NEW t \in IoTimeouts,
               _register_event(u, fd, e, t)
        PROVE  FALSE
    BY <2>1, <2>3 DEF _register_event
  <2>. QED
    BY <1>5, <2>2, <2>3
       DEF UserCall, uthread_create, uthread_create_fails, uthread_exit,
           uthread_detach, uthread_join_exited, register_event_fails, close
<1>6. ASSUME NEW u \in Ut, _uthread_yield(u) \/ CallReturn(u) \/ ResumeReturn(u)
      PROVE  FALSE
  BY <1>6, NoSignal
     DEF _uthread_yield, CallReturn, JoinReturn, EventReturn, ResumeReturn,
         ResumeExited, ResumeSleeping, ResumeYielded
<1>7. ASSUME Tick \/ Stopped \/ \E fd \in Fd : KernelEvent(fd) PROVE FALSE
  BY <1>7 DEF Tick, Stopped, KernelEvent, vars
<1>. QED
  BY <1>4, <1>5, <1>6, <1>7, NoSignal DEF Next

(* The assertion on EPOLL_CTL_DEL in handle_event never fails, and the one  *)
(* in _uthread_cancel_event fails only on a coroutine that sleeps in        *)
(* uthread_join and whose 10 seconds are over: a timed wait for I/O ends    *)
(* without it, as long as fds stay open and signals out of it.              *)
THEOREM DelFails ==
    "close" \notin Features /\ "signals" \notin Features /\ Spec => DelFailsForJoinersOnly
<1>. SUFFICES ASSUME "close" \notin Features, "signals" \notin Features
              PROVE  Spec => DelFailsForJoinersOnly
  OBVIOUS
<1>1. Whole /\ WaitInv /\ [Next]_vars
        => [outcome' \in DelFailed => outcome = outcome' \/ JoinTimedOut]_vars
  BY DelFailsStep
<1>2. Spec => []WaitInv
  BY WaitInvariant
<1>. QED
  BY <1>1, <1>2, WholeHolds, PTL DEF Spec, DelFailsForJoinersOnly

=============================================================================
