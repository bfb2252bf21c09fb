---------------------------- MODULE UthreadSched ----------------------------
(***************************************************************************)
(* uthread_sched.c: the scheduler loop _sched_run of the one thread that   *)
(* owns the p, with the clock and the epoll instance it works against, and *)
(* the whole specification of the runtime on one thread.                   *)
(*                                                                         *)
(* The loop is cut where it hands the thread to a coroutine: one action    *)
(* per stretch of scheduler code between two calls of _uthread_resume.     *)
(***************************************************************************)
EXTENDS Uthread

(* The scheduler executes its loop and stands at the given point. *)
LoopAt(point) == outcome = "up" /\ control = "loop" /\ loop = point

GoTo(point) == loop' = point

LastOf(q) == IF q = <<>> THEN NULL ELSE q[Len(q)]

(* The condition of the outer while, and the exit behind it. *)
_sched_work_done == ready = <<>> /\ sleeping = {} /\ waiting = {}

While ==
    /\ LoopAt("while")
    /\ GoTo(IF _sched_work_done THEN "done" ELSE "expired")
    /\ UNCHANGED <<utVars, stackVars, pVars, cur_uthread, control, last_ready,
                   event, globalVars, kernelVars, outcome>>

Done ==
    /\ LoopAt("done")
    /\ outcome' = IF n_uthread = 0 THEN "exit" ELSE "up"
    /\ GoTo("while")
    /\ UNCHANGED <<utVars, stackVars, pVars, cur_uthread, control, last_ready,
                   event, globalVars, kernelVars>>

-----------------------------------------------------------------------------
(* _uthread_resume_expired *)

\* Fault: sleepers are looked at only when the queue is empty.
DueWhenIdle(u) == EarliestSleeper(u) /\ wakeup_time[u] <= now /\ ready = <<>>

Due(u) == EarliestSleeper(u) /\ wakeup_time[u] <= now

(* EPOLL_CTL_DEL of the fd that u waits for will succeed. *)
Registered(u) == fd_wait[u] # NULL /\ interest[fd_wait[u][1]] # "none"

\* Fault: the coroutine stays in the waiting tree.
CancelEventKeepsNode(u) ==
    /\ interest' = [interest EXCEPT ![fd_wait[u][1]] = "none"]
    /\ hot' = [hot EXCEPT ![fd_wait[u][1]] = "quiet"]
    /\ UNCHANGED waiting

(* _uthread_cancel_event, on the registration of the fd and the waiting     *)
(* tree: the coroutine found there need not be u itself.                    *)
_uthread_cancel_event(u) ==
    /\ interest' = [interest EXCEPT ![fd_wait[u][1]] = "none"]
    /\ hot' = [hot EXCEPT ![fd_wait[u][1]] = "quiet"]
    /\ waiting' = waiting \ FindWaiter(fd_wait[u])

(* A sleeper is due, and is taken for a waiter whose timeout has passed. *)
ResumeExpired(u) ==
    /\ LoopAt("expired") /\ Due(u) /\ Registered(u) /\ ~ InReady(u)
    /\ _uthread_cancel_event(u)
    /\ fd_wait' = [fd_wait EXCEPT ![u] = NULL]
    /\ LET woken == {u} \cup FindWaiter(fd_wait[u])
           bits == [status EXCEPT ![u] = ClearWaitBits(@) \cup {"EXPIRED"}]
       IN /\ DeschedSleep(woken)
          /\ Resume(u, [v \in Ut |-> IF v \in woken THEN DeschedBits(bits[v])
                                                    ELSE bits[v]], "expired")
    /\ UNCHANGED <<live, id, ut_joined, stackVars, ready, events, last_ready,
                   event, globalVars, now, outcome>>

(* The same, for a coroutine that a signal has stopped in front of setting *)
(* its SLEEPING bit: it is resumed while it is in the ready queue.         *)
ResumeExpiredTwice(u) ==
    /\ LoopAt("expired") /\ Due(u) /\ Registered(u) /\ InReady(u)
    /\ QueuedAlready

(* A sleeper is due that waits for no fd, or for one the kernel has dropped: *)
(* EPOLL_CTL_DEL fails and the assertion on it ends the process.             *)
ResumeExpiredFails(u) ==
    /\ LoopAt("expired") /\ Due(u) /\ ~ Registered(u)
    /\ outcome' = "abort_epoll_del_expired"
    /\ UNCHANGED <<utVars, stackVars, pVars, schedVars, globalVars, kernelVars>>

(* No sleeper is due: mark the end of this round of the ready queue. *)
StartRound ==
    /\ LoopAt("expired") /\ ~ \E u \in sleeping : Due(u)
    /\ last_ready' = LastOf(ready)
    /\ GoTo("ready")
    /\ UNCHANGED <<utVars, stackVars, pVars, cur_uthread, control, event,
                   globalVars, kernelVars, outcome>>

-----------------------------------------------------------------------------
(* The ready queue *)

\* Fault: the round is not ended.
RoundNeverEnds(ut) == FALSE

(* The round ends with the coroutine that was last when it began. *)
RoundEnds(ut) == ut = last_ready

RunReady ==
    /\ LoopAt("ready") /\ ready # <<>>
    /\ LET ut == Head(ready) IN
       /\ Resume(ut, status, IF RoundEnds(ut) THEN "poll" ELSE "ready")
       /\ last_ready' = IF RoundEnds(ut) THEN NULL ELSE last_ready
    /\ ready' = Tail(ready)
    /\ UNCHANGED <<live, id, ut_joined, fd_wait, wakeup_time, stackVars, sleeping,
                   waiting, events, event, globalVars, kernelVars, outcome>>

ReadyEmpty ==
    /\ LoopAt("ready") /\ ready = <<>>
    /\ GoTo("poll")
    /\ last_ready' = NULL
    /\ UNCHANGED <<utVars, stackVars, pVars, cur_uthread, control, event,
                   globalVars, kernelVars, outcome>>

-----------------------------------------------------------------------------
(* _uthread_poll *)

SleeperDue == \E u \in sleeping : wakeup_time[u] <= now

(* Only when nothing is ready and no sleeper is due is the kernel asked. *)
_uthread_poll ==
    /\ LoopAt("poll")
    /\ GoTo(IF SleeperDue \/ ready # <<>> THEN "while"
            ELSE IF sleeping = {} THEN "epoll_wait"
            ELSE "min_timeout")
    /\ UNCHANGED <<utVars, stackVars, pVars, cur_uthread, control, last_ready,
                   event, globalVars, kernelVars, outcome>>

(* _uthread_min_timeout has found the first wake-up time in the future and *)
(* reads the clock again to subtract it.  If the clock has passed that     *)
(* time, the unsigned difference wraps, and what epoll_wait gets as its    *)
(* int timeout is negative: it waits for an event only.                    *)
_uthread_min_timeout ==
    /\ LoopAt("min_timeout")
    /\ \E u \in sleeping :
        /\ EarliestSleeper(u)
        /\ GoTo(IF now < wakeup_time[u] THEN "epoll_wait"
                ELSE IF now = wakeup_time[u] THEN "while"
                ELSE "epoll_wait_forever")
    /\ UNCHANGED <<utVars, stackVars, pVars, cur_uthread, control, last_ready,
                   event, globalVars, kernelVars, outcome>>

HotFds == {fd \in Fd : hot[fd] # "quiet"}

(* What epoll_wait may return: up to MAX_EVENTS of the fds that have an    *)
(* event, in any order, each with whether it was hung up.                  *)
Fetchable ==
    LET n == IF Cardinality(HotFds) < MAX_EVENTS THEN Cardinality(HotFds)
                                                 ELSE MAX_EVENTS
    IN {s \in [1..n -> HotFds] : \A i, j \in 1..n : i # j => s[i] # s[j]}

(* epoll_wait returns events; EPOLLONESHOT disarms the fds reported. *)
EpollReturns ==
    /\ loop \in {"epoll_wait", "epoll_wait_forever"} /\ LoopAt(loop)
    /\ HotFds # {}
    /\ \E s \in Fetchable :
        LET fetched == {s[i] : i \in DOMAIN s} IN
        /\ events' = [i \in DOMAIN s |-> <<s[i], hot[s[i]] = "hup">>]
        /\ interest' = [fd \in Fd |-> IF fd \in fetched THEN "spent"
                                                        ELSE interest[fd]]
        /\ hot' = [fd \in Fd |-> IF fd \in fetched THEN "quiet" ELSE hot[fd]]
    /\ GoTo("event")
    /\ UNCHANGED <<utVars, stackVars, ready, sleeping, waiting, cur_uthread,
                   control, last_ready, event, globalVars, now, outcome>>

(* epoll_wait times out: at the first wake-up time, or after 1 s if nobody *)
(* sleeps.                                                                 *)
EpollTimesOut ==
    /\ LoopAt("epoll_wait") /\ HotFds = {}
    /\ SleeperDue \/ sleeping = {}
    /\ GoTo("while")
    /\ UNCHANGED <<utVars, stackVars, pVars, cur_uthread, control, last_ready,
                   event, globalVars, kernelVars, outcome>>

-----------------------------------------------------------------------------
(* The fetched events, last one first; each is tried as RD, then as WR. *)

NextEvent ==
    /\ LoopAt("event") /\ event = NULL
    /\ IF events = <<>>
         THEN GoTo("while") /\ UNCHANGED <<events, event>>
         ELSE /\ event' = LastOf(events)
              /\ events' = SubSeq(events, 1, Len(events) - 1)
              /\ UNCHANGED loop
    /\ UNCHANGED <<utVars, stackVars, ready, sleeping, waiting, cur_uthread,
                   control, last_ready, globalVars, kernelVars, outcome>>

(* handle_event(fd, e): nobody waits for e on fd; or u does, and runs next. *)
HandleEventNone(e, next) ==
    /\ FindWaiter(<<event[1], e>>) = {}
    /\ GoTo(next)
    /\ UNCHANGED <<utVars, stackVars, ready, sleeping, waiting, cur_uthread,
                   control, interest, hot, outcome>>

HandleEventFound(u, e, next) ==
    /\ u \in FindWaiter(<<event[1], e>>)
    /\ interest[event[1]] # "none" /\ ~ InReady(u)
    /\ interest' = [interest EXCEPT ![event[1]] = "none"]
    /\ hot' = [hot EXCEPT ![event[1]] = "quiet"]
    /\ waiting' = waiting \ {u}
    /\ DeschedSleep({u})
    /\ Resume(u, [status EXCEPT ![u] = ClearWaitBits(DeschedBits(@))
                                \cup (IF event[2] THEN {"FDEOF"} ELSE {})], next)
    /\ UNCHANGED <<live, id, ut_joined, fd_wait, stackVars, ready, outcome>>

(* u has been stopped by a signal behind the RB_INSERT of _register_event:  *)
(* it is resumed while it is in the ready queue.                            *)
HandleEventTwice(u, e) ==
    /\ u \in FindWaiter(<<event[1], e>>)
    /\ interest[event[1]] # "none" /\ InReady(u)
    /\ outcome' = "twice"
    /\ UNCHANGED <<utVars, stackVars, ready, sleeping, waiting, cur_uthread,
                   control, loop, interest, hot>>

(* EPOLL_CTL_DEL fails on an fd the kernel has dropped: the process ends. *)
HandleEventFails(u, e) ==
    /\ u \in FindWaiter(<<event[1], e>>)
    /\ interest[event[1]] = "none"
    /\ outcome' = "abort_epoll_del_event"
    /\ UNCHANGED <<utVars, stackVars, ready, sleeping, waiting, cur_uthread,
                   control, loop, interest, hot>>

handle_event(e, next) ==
    \/ HandleEventNone(e, next)
    \/ \E u \in Ut : HandleEventFound(u, e, next)
    \/ \E u \in Ut : HandleEventFails(u, e) \/ HandleEventTwice(u, e)

HandleRead ==
    /\ LoopAt("event") /\ event # NULL
    /\ handle_event("RD", "event_wr")
    /\ UNCHANGED <<events, event, last_ready, globalVars, now>>

\* Fault: an event is not tried as a write event.
HandleWriteOmitted ==
    /\ LoopAt("event_wr")
    /\ GoTo("event")
    /\ event' = NULL
    /\ UNCHANGED <<utVars, stackVars, pVars, cur_uthread, control, last_ready,
                   globalVars, kernelVars, outcome>>

HandleWrite ==
    /\ LoopAt("event_wr")
    /\ handle_event("WR", "event")
    /\ event' = NULL
    /\ UNCHANGED <<events, last_ready, globalVars, now>>

-----------------------------------------------------------------------------
(* The world around the thread *)

Tick ==
    /\ outcome = "up" /\ now < MaxNow
    /\ now' = now + 1
    /\ UNCHANGED <<utVars, stackVars, pVars, schedVars, globalVars, interest, hot,
                   outcome>>

(* A registered fd becomes ready for what is waited for, or is hung up. *)
KernelEvent(fd) ==
    /\ outcome = "up" /\ interest[fd] = "armed" /\ hot[fd] = "quiet"
    /\ \E what \in {"ready"} \cup ({"hup"} \cap Features) : hot' = [hot EXCEPT ![fd] = what]
    /\ UNCHANGED <<utVars, stackVars, pVars, schedVars, globalVars, interest, now,
                   outcome>>

(* The process has ended; or the thread is in epoll_wait, for no timeout or *)
(* for one beyond the clock's bound.                                        *)
Stopped ==
    /\ \/ outcome # "up"
       \/ LoopAt("epoll_wait_forever")
       \/ LoopAt("epoll_wait") /\ now = MaxNow
    /\ UNCHANGED vars

-----------------------------------------------------------------------------
(* _runtime_init: a p with nothing in it and a scheduler at the start of its *)
(* loop.                                                                     *)
_runtime_init ==
    /\ sleeping = {} /\ waiting = {} /\ events = <<>>
    /\ cur_uthread = NULL /\ control = "loop" /\ loop = "while"
    /\ last_ready = NULL /\ event = NULL
    /\ interest = [fd \in Fd |-> "none"] /\ hot = [fd \in Fd |-> "quiet"]

(* _uthread_create_main: the main coroutine is the only one, and is ready. *)
_uthread_create_main ==
    /\ live = {Main}
    /\ status = [u \in Ut |-> IF u = Main THEN {"READY"} ELSE {}]
    /\ id = [u \in Ut |-> 0]
    /\ ut_joined = [u \in Ut |-> NULL]
    /\ fd_wait = [u \in Ut |-> NULL]
    /\ wakeup_time = [u \in Ut |-> 0]
    /\ frame = [u \in Ut |-> IF u = Main THEN "user" ELSE "none"]
    /\ target = [u \in Ut |-> NULL]
    /\ ready = <<Main>>
    /\ n_uthread = 1 /\ next_ut_id = 1 /\ bitmap_ut = {0}

Init == _runtime_init /\ _uthread_create_main /\ now = 0 /\ outcome = "up"

SchedStep ==
    \/ While \/ Done
    \/ \E u \in Ut : \/ ResumeExpired(u) \/ ResumeExpiredTwice(u)
                     \/ ResumeExpiredFails(u)
    \/ StartRound \/ RunReady \/ ReadyEmpty
    \/ _uthread_poll \/ _uthread_min_timeout \/ EpollReturns \/ EpollTimesOut
    \/ NextEvent \/ HandleRead \/ HandleWrite

Next ==
    \/ SchedStep
    \/ \E u \in Ut : \/ UserCall(u) \/ CallStep(u) \/ _uthread_yield(u)
                     \/ CallReturn(u) \/ ResumeReturn(u)
    \/ Tick
    \/ \E fd \in Fd : KernelEvent(fd)
    \/ Stopped

Spec == Init /\ [][Next]_vars

(* The thread keeps running its code; a coroutine that does not give up the *)
(* thread is preempted, as the timer sends SIGUSR1 10 to 20 ms after every  *)
(* resume; time passes.  No coroutine has to call anything, and no fd has   *)
(* to become ready.                                                         *)
Fairness ==
    /\ WF_vars(SchedStep)
    /\ WF_vars(\E u \in Ut : _uthread_yield(u) \/ CallReturn(u) \/ ResumeReturn(u))
    /\ WF_vars(Tick)

FairSpec == Spec /\ Fairness

-----------------------------------------------------------------------------
(* Safety *)

(* The types of the fields of struct uthread, struct p, struct sched and    *)
(* struct global_data, and of what stands for stacks and kernel.            *)
UtType ==
    /\ live \subseteq Ut
    /\ status \in [Ut -> SUBSET StatusBit]
    /\ id \in [Ut -> Id]
    /\ ut_joined \in [Ut -> Ut \cup {NULL}]
    /\ fd_wait \in [Ut -> Key \cup {NULL}]
    /\ wakeup_time \in [Ut -> Nat]

StackType ==
    /\ frame \in [Ut -> Frame]
    /\ target \in [Ut -> Ut \cup {NULL}]

PType ==
    /\ ready \in Seq(Ut)
    /\ sleeping \subseteq Ut
    /\ waiting \subseteq Ut
    /\ events \in Seq(Fd \X BOOLEAN)

SchedType ==
    /\ cur_uthread \in Ut \cup {NULL}
    /\ control \in Control
    /\ loop \in LoopPoint
    /\ last_ready \in Ut \cup {NULL}
    /\ event \in (Fd \X BOOLEAN) \cup {NULL}
    /\ outcome = "up" /\ loop = "event_wr" => event # NULL

GlobalType == n_uthread \in Int /\ next_ut_id \in Id /\ bitmap_ut \subseteq Id

KernelType ==
    /\ interest \in [Fd -> {"none", "armed", "spent"}]
    /\ hot \in [Fd -> {"quiet", "ready", "hup"}]
    /\ now \in 0..MaxNow
    /\ outcome \in Outcome

(* Every variable has its type: no id lies outside bitmap_ut, no pointer    *)
(* names anything but a coroutine, and no queue holds anything else.        *)
TypeOK == UtType /\ StackType /\ PType /\ SchedType /\ GlobalType /\ KernelType

(* Coroutine u has the thread: it runs, or has just given the thread up and *)
(* _uthread_resume has not yet put it anywhere.                             *)
OnThread(u) == cur_uthread = u /\ u \notin sleeping

OnePlace ==
    /\ \A i, j \in 1..Len(ready) : ready[i] = ready[j] => i = j
    /\ \A u \in Ut : InReady(u) =>
            cur_uthread # u /\ (u \in sleeping => frame[u] \in Inserted)
    /\ control = "uthread" => OnThread(cur_uthread) \/ frame[cur_uthread] \in Inserted

TwiceBySignal ==
    /\ outcome = "twice" => \E u \in Ut : InReady(u) /\ frame[u] \in Midway
    /\ \A u \in Ut : frame[u] \in Midway => "signals" \in Features

(* No coroutine is in two places: its one ready_next link is in the ready   *)
(* queue once at most, and not while it sleeps or has the thread.  There is *)
(* one way around that.  A signal that stops a coroutine between two steps  *)
(* of uthread_join or _register_event leaves it in the queue and, behind    *)
(* RB_INSERT, in the sleeping tree too; whoever wakes it then links it      *)
(* twice.  Nobody else is ever queued or run while in the queue.            *)
NeverTwice == OnePlace /\ TwiceBySignal

(* No coroutine is dropped and no freed one is kept: the live coroutines    *)
(* are the ones with the thread, in the ready queue or in the sleeping tree.*)
NoneLost ==
    live = {u \in Ut : OnThread(u) \/ InReady(u) \/ u \in sleeping}

(* What makes the properties inductive.  Whatever happens to the fds, a     *)
(* coroutine that is in a place of the runtime has not been freed.          *)
PlacedLive ==
    \A u \in Ut : OnThread(u) \/ InReady(u) \/ u \in sleeping => u \in live

(* The SLEEPING bit tells who is in the sleeping tree, on which             *)
(* _uthread_resume and _uthread_desched_sleep rely.                         *)
SleepBits ==
    /\ \A u \in Ut : u \in sleeping <=>
            u \in live /\ ("SLEEPING" \in status[u] \/ frame[u] \in Inserted)
    /\ \A u \in live : frame[u] \in Midway => "SLEEPING" \notin status[u]

(* Only the coroutine that has just ended carries the EXITED bit. *)
ExitedBits ==
    \A u \in live : "EXITED" \in status[u] =>
        control = "resume" /\ OnThread(u) /\ frame[u] = "user"

(* u is inside of a uthread_join that has left word in its target: asleep,  *)
(* or not yet.                                                              *)
Joins(u) ==
    \/ frame[u] = "join" /\ u \in sleeping
    \/ frame[u] \in {"join_linked", "join_inserted"} /\ u \in live

(* ut_joined of a coroutine names one that is inside uthread_join for it. *)
JoinLinks ==
    outcome = "up" =>
        \A t \in live : ut_joined[t] # NULL =>
            Joins(ut_joined[t]) /\ target[ut_joined[t]] = t

IoFrame == {"io", "io_added", "io_waiting", "io_inserted"}

(* A sleeper is inside uthread_join or inside _register_event; whoever is   *)
(* in the waiting tree sleeps inside the latter, or is about to; no other   *)
(* coroutine has an fd_wait.                                                *)
FrameOK ==
    outcome = "up" =>
        /\ \A u \in sleeping : frame[u] \in {"join", "io"} \cup Inserted
        /\ \A u \in live : fd_wait[u] # NULL => frame[u] \in IoFrame
        /\ \A u \in waiting : \/ frame[u] = "io" /\ u \in sleeping
                              \/ frame[u] \in {"io_waiting", "io_inserted"} /\ u \in live

(* A sleeper that is inside _register_event is in the waiting tree as well. *)
SleepersWait ==
    outcome = "up" => \A u \in sleeping : frame[u] = "io" => u \in waiting

(* The kernel has an event only for an fd that is registered. *)
HotIsArmed == \A fd \in Fd : hot[fd] # "quiet" => interest[fd] # "none"

(* Whoever sleeps in uthread_join is the one its target will wake: the      *)
(* target has not been freed and its ut_joined names the sleeper.           *)
NoLostJoiner ==
    outcome = "up" =>
        \A u \in sleeping : frame[u] = "join" =>
            target[u] \in live /\ ut_joined[target[u]] = u

(* A round of the ready queue runs the coroutines that were in it when it   *)
(* began and no other: the one that ends the round is still to come.        *)
RoundBounded ==
    LoopAt("ready") => IF last_ready = NULL THEN ready = <<>>
                                            ELSE InReady(last_ready)

(* n_uthread, on which the scheduler decides to exit, never is less than    *)
(* the number of coroutines, and the process exits only when there is none. *)
CountOK ==
    /\ n_uthread >= Cardinality(live)
    /\ "stack_fails" \notin Features => n_uthread = Cardinality(live)
    /\ outcome = "exit" => live = {}

(* The kernel's interest list and the waiting tree agree: an fd is          *)
(* registered exactly when one coroutine waits for it, in both trees.       *)
EpollMatchesWaiting ==
    outcome = "up" =>
        /\ \A u \in waiting : u \in sleeping /\ Registered(u)
        /\ \A fd \in Fd : interest[fd] # "none" =>
                \E u \in waiting : fd_wait[u][1] = fd
        /\ \A u, v \in waiting : fd_wait[u][1] = fd_wait[v][1] => u = v

(* EPOLLONESHOT reports an fd once.  As long as its waiter sleeps on, the   *)
(* report is still to be handled: among the events fetched, or the one in   *)
(* hand, for the kind of event the waiter wants.                            *)
EventNotLost ==
    outcome = "up" =>
        \A u \in waiting : interest[fd_wait[u][1]] = "spent" =>
            \/ \E i \in 1..Len(events) : events[i][1] = fd_wait[u][1]
            \/ /\ event # NULL /\ event[1] = fd_wait[u][1]
               /\ loop = "event" \/ (loop = "event_wr" /\ fd_wait[u][2] = "WR")

(* The inductive invariant behind NeverTwice, CountOK, JoinWakesOnExit and  *)
(* ResultHasOwner, which hold whatever the program and the system do.       *)
PlaceInv == OnePlace /\ PlacedLive /\ (control = "loop" <=> cur_uthread = NULL)
BitInv == SleepBits /\ ExitedBits
Inv == TypeOK /\ PlaceInv /\ TwiceBySignal /\ BitInv /\ JoinLinks /\ FrameOK

(* What holds besides as long as no fd that is waited for gets closed, and  *)
(* is inductive together with Inv.                                          *)
WaitInv == NoneLost /\ SleepersWait /\ HotIsArmed /\ EpollMatchesWaiting

(* What a step may do to a joiner: it leaves the sleeping tree only together *)
(* with the end of its target.                                               *)
JoinerSleepsOn(u) ==
    u \in sleeping /\ frame[u] = "join" /\ u \notin sleeping' =>
        target[u] \notin live' /\ "EXITED" \in status[target[u]]

(* A coroutine asleep in uthread_join wakes only when its target is over:   *)
(* no event, no timeout and no other coroutine's end takes it out of the    *)
(* sleeping tree.                                                           *)
JoinWakesOnExit == [][\A u \in Ut : JoinerSleepsOn(u)]_vars

(* Coroutine t ends, and the joiner that its link names is inside the join  *)
(* of t.                                                                    *)
StoresIntoJoin(t) ==
    "EXITED" \in status'[t] \ status[t] /\ ut_joined[t] # NULL =>
        Joins(ut_joined[t]) /\ target[ut_joined[t]] = t

(* uthread_exit stores its value through ut->retval, a pointer into the     *)
(* frame of the uthread_join that set it together with ut_joined.  When the *)
(* store is made, that call has not returned and is a join of this          *)
(* coroutine: the value does not end up in a dead frame or a wrong one.     *)
ResultHasOwner == [][\A t \in Ut : StoresIntoJoin(t)]_vars

(* _uthread_cancel_event's assertion on EPOLL_CTL_DEL ends the process, and *)
(* that because a uthread_join has lasted for its whole timeout.            *)
JoinTimedOut ==
    /\ outcome' = "abort_epoll_del_expired"
    /\ \E u \in sleeping : frame[u] = "join" /\ wakeup_time[u] <= now

DelFailed == {"abort_epoll_del_event", "abort_epoll_del_expired"}

(* Of the two assertions on EPOLL_CTL_DEL the one in handle_event never     *)
(* fails, and the one in _uthread_cancel_event only at the end of a join's  *)
(* timeout: whoever waits for an fd is registered when it is taken off.     *)
DelFailsForJoinersOnly ==
    [][outcome' \in DelFailed => outcome = outcome' \/ JoinTimedOut]_vars

-----------------------------------------------------------------------------
(* The runtime as the program sees it.  A coroutine that is in the sleeping *)
(* tree blocks once it has given up the thread.                             *)
Blocked == sleeping \ {cur_uthread}

Q == INSTANCE RunQueue
       WITH queue <- ready, running <- cur_uthread, blocked <- Blocked,
            on <- [u \in Ut |-> IF u \in Blocked THEN target[u] ELSE NULL]

(* The scheduler's loop, its trees and its status bits add up to a queue:   *)
(* first in, first out, one coroutine at a time, a joiner queued exactly    *)
(* when its target ends, and none that comes back after its end.            *)
ImplementsRunQueue == Q!Spec

-----------------------------------------------------------------------------
(* Liveness.  An assertion of the code may end the process at any time. *)

Ended == outcome # "up"

(* Every coroutine in the ready queue gets the thread. *)
ReadyRuns == \A u \in Ut : InReady(u) ~> (cur_uthread = u \/ Ended)

(* When a coroutine that is joined ends, the joiner's uthread_join returns. *)
JoinDelivers ==
    \A u \in Ut :
        (frame[u] = "join" /\ "EXITED" \in status[target[u]])
            ~> (frame[u] = "user" \/ Ended)

(* When the last coroutine has ended, the process exits. *)
ExitsWhenDone == (live = {}) ~> (outcome = "exit")

(* A wait with a timeout ends, with the event or at the timeout, however    *)
(* busy the ready queue is; the one exception is the epoll_wait that gets a *)
(* wrapped timeout.                                                         *)
TimedWaitEnds ==
    \A u \in Ut :
        (u \in sleeping /\ wakeup_time[u] <= MaxNow)
            ~> (u \notin sleeping \/ Ended \/ loop = "epoll_wait_forever")

=============================================================================
