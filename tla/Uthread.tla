------------------------------ MODULE Uthread -------------------------------
(***************************************************************************)
(* uthread.c: the calls a coroutine makes, and _uthread_resume, which the  *)
(* scheduler uses to run one.  A coroutine calls any of them at any time,  *)
(* in any order, on any handle the program ever got: the program is the    *)
(* most general client.  _register_event (uthread_sched.c), the call that  *)
(* every blocking socket function ends in, is here as the I/O call.        *)
(***************************************************************************)
EXTENDS UthreadState

-----------------------------------------------------------------------------
(* uthread_create: the ids *)

\* Fault: the id is not taken modulo the size of the bitmap.
NextIdUnbounded(n) == IF n + 1 = 1 THEN 2 ELSE n + 1

(* The do-while that steps next_ut_id: it skips 1 and never reads bitmap_ut. *)
NextId(n) ==
    LET m == (n + 1) % MAX_COUNT_UTHREAD IN
    IF m = 1 THEN 2 % MAX_COUNT_UTHREAD ELSE m

\* Fault: the new coroutine is not counted.
TakeIdUncounted(a) ==
    /\ id' = [id EXCEPT ![a] = next_ut_id]
    /\ bitmap_ut' = bitmap_ut \cup {next_ut_id}
    /\ next_ut_id' = NextId(next_ut_id)
    /\ UNCHANGED n_uthread

(* The part under the global mutex, for the block a that calloc returned. *)
TakeId(a) ==
    /\ n_uthread' = n_uthread + 1
    /\ id' = [id EXCEPT ![a] = next_ut_id]
    /\ bitmap_ut' = bitmap_ut \cup {next_ut_id}
    /\ next_ut_id' = NextId(next_ut_id)

\* Fault: ut_joined is not reset, neither by calloc nor by the assignment
\* behind it, so a recycled block keeps its joiner.
CreateNotZeroed(u, a) ==
    /\ InUser(u) /\ a \in Ut \ live
    /\ n_uthread < MaxCount
    /\ TakeId(a)
    /\ live' = live \cup {a}
    /\ status' = [status EXCEPT ![a] = {"NEW"}]
    /\ fd_wait' = [fd_wait EXCEPT ![a] = NULL]
    /\ wakeup_time' = [wakeup_time EXCEPT ![a] = 0]
    /\ frame' = [frame EXCEPT ![a] = "user"]
    /\ target' = [target EXCEPT ![a] = NULL]
    /\ ready' = Append(ready, a)
    /\ UNCHANGED <<ut_joined, sleeping, waiting, events, schedVars, kernelVars,
                   outcome>>

(* Coroutine u creates another one, in the free block a. *)
uthread_create(u, a) ==
    /\ InUser(u) /\ a \in Ut \ live
    /\ n_uthread < MaxCount
    /\ TakeId(a)
    /\ live' = live \cup {a}
    /\ status' = [status EXCEPT ![a] = {"NEW"}]
    /\ ut_joined' = [ut_joined EXCEPT ![a] = NULL]
    /\ fd_wait' = [fd_wait EXCEPT ![a] = NULL]
    /\ wakeup_time' = [wakeup_time EXCEPT ![a] = 0]
    /\ frame' = [frame EXCEPT ![a] = "user"]
    /\ target' = [target EXCEPT ![a] = NULL]
    /\ ready' = Append(ready, a)
    /\ UNCHANGED <<sleeping, waiting, events, schedVars, kernelVars, outcome>>

(* The same call when posix_memalign fails: the zeroed block is freed; the *)
(* count and the id that were taken are not given back.                    *)
uthread_create_fails(u, a) ==
    /\ "stack_fails" \in Features
    /\ InUser(u) /\ a \in Ut \ live
    /\ n_uthread < MaxCount
    /\ TakeId(a)
    /\ status' = [status EXCEPT ![a] = {}]
    /\ ut_joined' = [ut_joined EXCEPT ![a] = NULL]
    /\ fd_wait' = [fd_wait EXCEPT ![a] = NULL]
    /\ wakeup_time' = [wakeup_time EXCEPT ![a] = 0]
    /\ UNCHANGED <<live, stackVars, pVars, schedVars, kernelVars, outcome>>

-----------------------------------------------------------------------------
(* Giving up the thread *)

(* _uthread_yield, called by the program or by the SIGUSR1 handler that    *)
(* preempts it, in its own code or in the middle of a call: the switch     *)
(* lands behind the _switch of _uthread_resume.                            *)
_uthread_yield(u) ==
    /\ outcome = "up" /\ control = "uthread" /\ cur_uthread = u
    /\ frame[u] = "user" \/ "signals" \in Features
    /\ control' = "resume"
    /\ UNCHANGED <<utVars, stackVars, pVars, cur_uthread, loop, last_ready,
                   event, globalVars, kernelVars, outcome>>

(* The end of a coroutine: uthread_exit, the return of the function that   *)
(* _uthread_exec calls, or main_end in the main coroutine.                 *)
uthread_exit(u) ==
    /\ InUser(u)
    /\ status' = [status EXCEPT ![u] = @ \cup {"EXITED"}]
    /\ control' = "resume"
    /\ UNCHANGED <<live, id, ut_joined, fd_wait, wakeup_time, stackVars, pVars,
                   cur_uthread, loop, last_ready, event, globalVars,
                   kernelVars, outcome>>

-----------------------------------------------------------------------------
(* uthread_detach and uthread_join *)

uthread_detach(u, t) ==
    /\ "detach" \in Features
    /\ InUser(u) /\ t \in Handles
    /\ status' = [status EXCEPT ![t] = @ \cup {"DETACHED"}]
    /\ UNCHANGED <<live, id, ut_joined, fd_wait, wakeup_time, stackVars, pVars,
                   schedVars, globalVars, kernelVars, outcome>>

(* The checks uthread_join makes before it does anything. *)
Joinable(u, t) ==
    t \in Handles \ {u} /\ "DETACHED" \notin status[t] /\ ut_joined[t] = NULL

(* uthread_join of a coroutine that is over: the slot of its id is set. *)
uthread_join_exited(u, t) ==
    /\ InUser(u) /\ Joinable(u, t) /\ "EXITED" \in status[t]
    /\ bitmap_ut' = bitmap_ut \cup {id[t]}
    /\ UNCHANGED <<utVars, stackVars, pVars, schedVars, n_uthread, next_ut_id,
                   kernelVars, outcome>>

(* uthread_join of a coroutine that is not: leave word in it and sleep. *)
uthread_join(u, t) ==
    /\ InUser(u) /\ Joinable(u, t) /\ "EXITED" \notin status[t]
    /\ ut_joined' = [ut_joined EXCEPT ![t] = u]
    /\ frame' = [frame EXCEPT ![u] = "join"]
    /\ target' = [target EXCEPT ![u] = t]
    /\ SchedSleep(u, JoinTimeout, status[u])
    /\ UNCHANGED <<live, id, fd_wait, ready, waiting, events, cur_uthread, loop,
                   last_ready, event, globalVars, kernelVars>>

(* The rest of uthread_join, when the coroutine runs again.  Nothing tells *)
(* it whether the block of its target still is that coroutine's.           *)
JoinReturn(u) ==
    /\ outcome = "up" /\ control = "uthread" /\ cur_uthread = u
    /\ frame[u] = "join"
    /\ IF "EXPIRED" \in status[u]
         THEN /\ ut_joined' = [ut_joined EXCEPT ![target[u]] = NULL]
              /\ UNCHANGED bitmap_ut
         ELSE /\ bitmap_ut' = bitmap_ut \ {id[target[u]]}
              /\ UNCHANGED ut_joined
    /\ status' = [status EXCEPT ![u] = @ \ {"SLEEPING"}]
    /\ frame' = [frame EXCEPT ![u] = "user"]
    /\ target' = [target EXCEPT ![u] = NULL]
    /\ UNCHANGED <<live, id, fd_wait, wakeup_time, pVars, schedVars, n_uthread,
                   next_ut_id, kernelVars, outcome>>

-----------------------------------------------------------------------------
(* _register_event: wait until fd is ready for e, or timeout has passed *)

WaitBit(e) == IF e = "RD" THEN "WAIT_RD" ELSE "WAIT_WR"

(* EPOLL_CTL_ADD takes an fd once: a second registration fails, whatever   *)
(* its event, and the assertion ends the process.                          *)
register_event_fails(u, fd) ==
    /\ InUser(u) /\ interest[fd] # "none"
    /\ outcome' = "abort_epoll_add"
    /\ UNCHANGED <<utVars, stackVars, pVars, schedVars, globalVars, kernelVars>>

_register_event(u, fd, e, timeout) ==
    /\ InUser(u) /\ interest[fd] = "none"
    /\ interest' = [interest EXCEPT ![fd] = "armed"]
    /\ fd_wait' = [fd_wait EXCEPT ![u] = <<fd, e>>]
    /\ waiting' = IF FindWaiter(<<fd, e>>) = {} THEN waiting \cup {u} ELSE waiting
    /\ frame' = [frame EXCEPT ![u] = "io"]
    /\ SchedSleep(u, timeout, status[u] \cup {WaitBit(e)})
    /\ UNCHANGED <<live, id, ut_joined, target, ready, events, cur_uthread, loop,
                   last_ready, event, globalVars, hot, now>>

(* The rest of _register_event.  The event it clears the bit of is its own *)
(* argument, which here is the bit that is still set.                      *)
EventReturn(u) ==
    /\ outcome = "up" /\ control = "uthread" /\ cur_uthread = u
    /\ frame[u] = "io"
    /\ fd_wait' = [fd_wait EXCEPT ![u] = NULL]
    /\ status' = [status EXCEPT ![u] = @ \ {"SLEEPING", "WAIT_RD", "WAIT_WR"}]
    /\ frame' = [frame EXCEPT ![u] = "user"]
    /\ UNCHANGED <<live, id, ut_joined, wakeup_time, target, pVars, schedVars,
                   globalVars, kernelVars, outcome>>

(* close(fd), which the runtime does not hook: the kernel drops the fd from *)
(* the interest list and whoever waits for it is not told.                  *)
close(u, fd) ==
    /\ "close" \in Features
    /\ InUser(u) /\ interest[fd] # "none"
    /\ interest' = [interest EXCEPT ![fd] = "none"]
    /\ hot' = [hot EXCEPT ![fd] = "quiet"]
    /\ UNCHANGED <<utVars, stackVars, pVars, schedVars, globalVars, now, outcome>>

-----------------------------------------------------------------------------
(* uthread_join and _register_event once more, cut where a signal can tell  *)
(* the steps apart.  Whatever a step relies on was true when the call began *)
(* and need not be when the coroutine comes back.                           *)

(* uthread_join: the checks. *)
JoinCheck(u, t) ==
    /\ "signals" \in Features
    /\ InUser(u) /\ Joinable(u, t) /\ "EXITED" \notin status[t]
    /\ frame' = [frame EXCEPT ![u] = "join_checked"]
    /\ target' = [target EXCEPT ![u] = t]
    /\ UNCHANGED <<utVars, pVars, schedVars, globalVars, kernelVars, outcome>>

(* uthread_join: ut_joined and retval of the target. *)
JoinLink(u) ==
    /\ InCall(u, "join_checked")
    /\ ut_joined' = [ut_joined EXCEPT ![target[u]] = u]
    /\ frame' = [frame EXCEPT ![u] = "join_linked"]
    /\ UNCHANGED <<live, status, id, fd_wait, wakeup_time, target, pVars, schedVars,
                   globalVars, kernelVars, outcome>>

(* _register_event: EPOLL_CTL_ADD, the status bit and fd_wait. *)
EventAdd(u, fd, e) ==
    /\ "signals" \in Features
    /\ InUser(u) /\ interest[fd] = "none"
    /\ interest' = [interest EXCEPT ![fd] = "armed"]
    /\ status' = [status EXCEPT ![u] = @ \cup {WaitBit(e)}]
    /\ fd_wait' = [fd_wait EXCEPT ![u] = <<fd, e>>]
    /\ frame' = [frame EXCEPT ![u] = "io_added"]
    /\ UNCHANGED <<live, id, ut_joined, wakeup_time, target, pVars, schedVars,
                   globalVars, hot, now, outcome>>

(* _register_event: the waiting tree. *)
EventWait(u) ==
    /\ InCall(u, "io_added")
    /\ waiting' = IF FindWaiter(fd_wait[u]) = {} THEN waiting \cup {u} ELSE waiting
    /\ frame' = [frame EXCEPT ![u] = "io_waiting"]
    /\ UNCHANGED <<utVars, target, ready, sleeping, events, schedVars, globalVars,
                   kernelVars, outcome>>

(* _uthread_sched_sleep: the sleeping tree, with the assertion on RB_INSERT. *)
SleepInsert(u, point, timeout, next) ==
    /\ InCall(u, point)
    /\ IF \E v \in sleeping : wakeup_time[v] = WakeupAfter(timeout)
         THEN outcome' = "abort_sleep_insert"
              /\ UNCHANGED <<sleeping, wakeup_time, frame>>
         ELSE /\ sleeping' = sleeping \cup {u}
              /\ wakeup_time' = [wakeup_time EXCEPT ![u] = WakeupAfter(timeout)]
              /\ frame' = [frame EXCEPT ![u] = next]
              /\ UNCHANGED outcome
    /\ UNCHANGED <<live, status, id, ut_joined, fd_wait, target, ready, waiting,
                   events, schedVars, globalVars, kernelVars>>

(* _uthread_sched_sleep: the SLEEPING bit, and the switch. *)
SleepBit(u, point, next) ==
    /\ InCall(u, point)
    /\ status' = [status EXCEPT ![u] = @ \cup {"SLEEPING"}]
    /\ frame' = [frame EXCEPT ![u] = next]
    /\ control' = "resume"
    /\ UNCHANGED <<live, id, ut_joined, fd_wait, wakeup_time, target, pVars,
                   cur_uthread, loop, last_ready, event, globalVars, kernelVars,
                   outcome>>

-----------------------------------------------------------------------------
(* _uthread_resume *)

(* _uthread_init assigns the status of a NEW coroutine, dropping other bits. *)
InitBits(bits) == IF "NEW" \in bits THEN {"READY"} ELSE bits

(* _uthread_resume up to its switch to ut, when st is the status of all    *)
(* coroutines; the loop goes on at next when _uthread_resume returns.      *)
Resume(ut, st, next) ==
    /\ status' = [st EXCEPT ![ut] = InitBits(@)]
    /\ cur_uthread' = ut
    /\ control' = "uthread"
    /\ loop' = next

(* What is behind the switch, for the three ways a coroutine comes back. *)
Resumed(u) == outcome = "up" /\ control = "resume" /\ cur_uthread = u

BackToLoop == cur_uthread' = NULL /\ control' = "loop"

\* Fault: the joiner is not woken.
WakeJoinerOmitted(u) == UNCHANGED <<status, sleeping, wakeup_time, ready>>

\* Fault: the joiner leaves the sleeping tree but is not made ready.
WakeJoinerNotQueued(u) ==
    IF ut_joined[u] = NULL
      THEN UNCHANGED <<status, sleeping, wakeup_time, ready>>
      ELSE /\ status' = [status EXCEPT ![ut_joined[u]] = DeschedBits(@)]
           /\ DeschedSleep({ut_joined[u]})
           /\ UNCHANGED ready

(* The joiner, if there is one, goes from the sleeping tree to the queue. *)
WakeJoiner(u) ==
    IF ut_joined[u] = NULL
      THEN UNCHANGED <<status, sleeping, wakeup_time, ready>>
      ELSE /\ status' = [status EXCEPT ![ut_joined[u]] = DeschedBits(@)]
           /\ DeschedSleep({ut_joined[u]})
           /\ ready' = Append(ready, ut_joined[u])

\* Fault: the main coroutine is not counted off.
FreeMainUncounted(u) ==
    /\ live' = live \ {u}
    /\ n_uthread' = IF u = Main THEN n_uthread ELSE n_uthread - 1

(* _uthread_free and _uthread_free_main. *)
_uthread_free(u) ==
    /\ live' = live \ {u}
    /\ n_uthread' = n_uthread - 1

(* The joiner that u names is in the ready queue, because a signal has     *)
(* stopped it in front of setting its SLEEPING bit.                        *)
JoinerQueued(u) == ut_joined[u] # NULL /\ InReady(ut_joined[u])

(* EXITED: wake the joiner, free the block (the status bits and the id are *)
(* read after the free).                                                   *)
ResumeExited(u) ==
    /\ Resumed(u) /\ "EXITED" \in status[u] /\ ~ JoinerQueued(u)
    /\ WakeJoiner(u)
    /\ _uthread_free(u)
    /\ bitmap_ut' = IF "DETACHED" \in status[u] THEN bitmap_ut \ {id[u]}
                                                ELSE bitmap_ut
    /\ BackToLoop
    /\ UNCHANGED <<id, ut_joined, fd_wait, stackVars, waiting, events, loop,
                   last_ready, event, next_ut_id, kernelVars, outcome>>

(* EXITED: _uthread_desched_sleep does nothing without the SLEEPING bit,   *)
(* and TAILQ_INSERT_TAIL links the joiner a second time.                   *)
ResumeExitedTwice(u) ==
    /\ Resumed(u) /\ "EXITED" \in status[u] /\ JoinerQueued(u)
    /\ QueuedAlready

(* SLEEPING: nothing to do, a tree holds the coroutine. *)
ResumeSleeping(u) ==
    /\ Resumed(u) /\ "EXITED" \notin status[u] /\ "SLEEPING" \in status[u]
    /\ BackToLoop
    /\ UNCHANGED <<utVars, stackVars, pVars, loop, last_ready, event, globalVars,
                   kernelVars, outcome>>

\* Fault: a coroutine that sleeps is put back into the queue as well.
ResumeYieldedAnyway(u) ==
    /\ Resumed(u) /\ "EXITED" \notin status[u]
    /\ ready' = Append(ready, u)
    /\ BackToLoop
    /\ UNCHANGED <<utVars, stackVars, sleeping, waiting, events, loop, last_ready,
                   event, globalVars, kernelVars, outcome>>

\* Fault: the joiner is woken whenever its target comes back.
ResumeYieldedWakes(u) ==
    /\ Resumed(u) /\ status[u] \cap {"EXITED", "SLEEPING"} = {}
    /\ WakeJoiner(u)
    /\ BackToLoop
    /\ UNCHANGED <<live, id, ut_joined, fd_wait, stackVars, waiting, events, loop,
                   last_ready, event, globalVars, kernelVars, outcome>>

\* Fault: back to the head of the queue.
ResumeYieldedAtHead(u) ==
    /\ Resumed(u) /\ status[u] \cap {"EXITED", "SLEEPING"} = {}
    /\ ready' = <<u>> \o ready
    /\ BackToLoop
    /\ UNCHANGED <<utVars, stackVars, sleeping, waiting, events, loop, last_ready,
                   event, globalVars, kernelVars, outcome>>

(* Neither: the coroutine yielded, back to the tail of the ready queue. *)
ResumeYielded(u) ==
    /\ Resumed(u) /\ status[u] \cap {"EXITED", "SLEEPING"} = {}
    /\ ready' = Append(ready, u)
    /\ BackToLoop
    /\ UNCHANGED <<utVars, stackVars, sleeping, waiting, events, loop, last_ready,
                   event, globalVars, kernelVars, outcome>>

-----------------------------------------------------------------------------
(* The steps of a running coroutine, and what follows it. *)
UserCall(u) ==
    \/ \E a \in Ut : uthread_create(u, a) \/ uthread_create_fails(u, a)
    \/ uthread_exit(u)
    \/ \E t \in Ut : \/ uthread_detach(u, t)
                     \/ uthread_join_exited(u, t)
                     \/ uthread_join(u, t)
    \/ \E fd \in Fd : \/ register_event_fails(u, fd)
                      \/ close(u, fd)
                      \/ \E e \in Event, t \in IoTimeouts :
                            _register_event(u, fd, e, t)

CallReturn(u) == JoinReturn(u) \/ EventReturn(u)

(* The steps of a call that a signal may come between. *)
CallStep(u) ==
    \/ \E t \in Ut : JoinCheck(u, t)
    \/ JoinLink(u)
    \/ \E fd \in Fd, e \in Event : EventAdd(u, fd, e)
    \/ EventWait(u)
    \/ SleepInsert(u, "join_linked", JoinTimeout, "join_inserted")
    \/ \E t \in IoTimeouts : SleepInsert(u, "io_waiting", t, "io_inserted")
    \/ SleepBit(u, "join_inserted", "join")
    \/ SleepBit(u, "io_inserted", "io")

ResumeReturn(u) ==
    \/ ResumeExited(u) \/ ResumeExitedTwice(u)
    \/ ResumeSleeping(u) \/ ResumeYielded(u)

=============================================================================
