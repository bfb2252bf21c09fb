---------------------------- MODULE UthreadState ----------------------------
(***************************************************************************)
(* The state shared by uthread.c and uthread_sched.c while one kernel      *)
(* thread runs the scheduler of the one p in use: the coroutine structs    *)
(* (struct uthread), the p (ready queue, sleeping tree, waiting tree,      *)
(* fetched epoll events), the sched (running coroutine, position in its    *)
(* loop), the global data (ids, bitmap, count) and the part of the kernel  *)
(* the code relies on (the epoll interest list, the clock).                *)
(*                                                                         *)
(* A coroutine is named by the address of its struct, as everywhere in the *)
(* code.  Addresses are recycled: calloc may return a block that free got  *)
(* back, so a handle the program still holds may come to name another      *)
(* coroutine.  A freed block keeps its contents until it is recycled; what *)
(* else the allocator may do with it is not modelled.                      *)
(*                                                                         *)
(* Not here: the timer wheel and is_wating_yield_signal, which decide when *)
(* a preemption signal is sent (modules TimerWheel and Preempt); this      *)
(* state machine lets the signal land at any time in the program's code    *)
(* and, with the feature "signals", inside the calls that block.           *)
(***************************************************************************)
EXTENDS Integers, Sequences, FiniteSets

CONSTANTS
    Ut,                 \* addresses of struct uthread blocks
    Main,               \* the block of the main coroutine
    Fd,                 \* file descriptors the coroutines wait on
    NULL,               \* the null pointer, and the fd_wait of -1
    MAX_COUNT_UTHREAD,  \* ids are taken modulo this (10000000 in the code)
    MAX_EVENTS,         \* size of p->eventlist (1024 in the code)
    JoinTimeout,        \* uthread_join's timeout (10 s)
    IoTimeouts,         \* timeouts passed to _register_event; 0 means none
    Forever,            \* what a timeout of 0 is replaced by (34 years)
    Features,           \* the optional behaviours that happen, of AllFeatures
    MaxNow,             \* bound: the clock stops here
    MaxCount            \* bound: no create once n_uthread is this

(* Behaviours of the program and of the system below it that an instance   *)
(* may leave out: uthread_detach, close of an fd that is waited for, a      *)
(* failure of posix_memalign, a hang-up of a connection, SIGUSR1 inside of  *)
(* uthread_join and _register_event.                                        *)
AllFeatures == {"detach", "close", "stack_fails", "hup", "signals"}

ASSUME ConstantsAssumption ==
    /\ IsFiniteSet(Ut) /\ Main \in Ut /\ NULL \notin Ut
    /\ IsFiniteSet(Fd)
    /\ NULL \notin (Fd \X {"RD", "WR"}) /\ NULL \notin (Fd \X BOOLEAN)
    /\ MAX_COUNT_UTHREAD \in Nat /\ MAX_COUNT_UTHREAD > 1
    /\ MAX_EVENTS \in Nat \ {0}
    /\ JoinTimeout \in Nat \ {0}
    /\ IoTimeouts \subseteq Nat
    /\ MaxNow \in Nat /\ Forever \in Nat /\ Forever > MaxNow
    /\ Features \subseteq AllFeatures
    /\ MaxCount \in Nat

VARIABLES
    \* struct uthread, per block
    live,           \* the blocks that are allocated
    status,         \* ut->status: the set of status bits that are set
    id,             \* ut->id
    ut_joined,      \* ut->ut_joined
    fd_wait,        \* ut->fd_wait: <<fd, event>>, or NULL for -1
    wakeup_time,    \* ut->wakeup_time_usec (0 when not in the sleeping tree)
    \* the coroutine's own stack: the call it is inside of, and its argument
    frame,
    target,
    \* struct p
    ready, sleeping, waiting, events,
    \* struct sched and the locals of _sched_run
    cur_uthread, control, loop, last_ready, event,
    \* struct global_data
    n_uthread, next_ut_id, bitmap_ut,
    \* kernel and process
    interest, hot, now, outcome

utVars == <<live, status, id, ut_joined, fd_wait, wakeup_time>>
stackVars == <<frame, target>>
pVars == <<ready, sleeping, waiting, events>>
schedVars == <<cur_uthread, control, loop, last_ready, event>>
globalVars == <<n_uthread, next_ut_id, bitmap_ut>>
kernelVars == <<interest, hot, now>>
vars == <<utVars, stackVars, pVars, schedVars, globalVars, kernelVars, outcome>>

-----------------------------------------------------------------------------
(* enum uthread_st, enum uthread_event *)
StatusBit == {"NEW", "READY", "EXITED", "SLEEPING", "DETACHED", "EXPIRED",
              "FDEOF", "WAIT_RD", "WAIT_WR"}
Event == {"RD", "WR"}
Id == 0..(MAX_COUNT_UTHREAD - 1)
Key == Fd \X Event

(* Where the scheduler's code stands in _sched_run; while a coroutine runs, *)
(* where the loop goes on once _uthread_resume returns.                     *)
LoopPoint == {"while", "expired", "ready", "poll", "min_timeout", "epoll_wait",
              "epoll_wait_forever", "event", "event_wr", "done"}

(* Whose code the thread executes: the loop's, a coroutine's, or the part  *)
(* of _uthread_resume behind its _switch.                                  *)
Control == {"loop", "uthread", "resume"}

(* How the process stands: running, ended by exit(0), aborted by the       *)
(* assertion of the named call, or about to queue or to run a coroutine    *)
(* that is in the ready queue already: behind that point the links of the  *)
(* queue no longer mean anything.                                          *)
Outcome == {"up", "exit", "abort_epoll_add", "abort_epoll_del_expired",
            "abort_epoll_del_event", "abort_sleep_insert", "twice"}

(* Where in the calls that block SIGUSR1 may find a coroutine.  In          *)
(* uthread_join: the checks are made; ut_joined of the target is set.  In   *)
(* _register_event: the fd is registered; the coroutine is in the waiting   *)
(* tree.  In _uthread_sched_sleep, which both end in: the coroutine is in   *)
(* the sleeping tree, and its SLEEPING bit is not set yet.                  *)
Inserted == {"join_inserted", "io_inserted"}
Midway == {"join_checked", "join_linked", "io_added", "io_waiting"} \cup Inserted
Frame == {"none", "user", "join", "io"} \cup Midway

InReady(u) == \E i \in 1..Len(ready) : ready[i] = u

(* The program holds a handle for every block a create ever returned. *)
Handles == {u \in Ut : frame[u] # "none"}

(* Coroutine u executes its own code, outside of the runtime. *)
InUser(u) ==
    outcome = "up" /\ control = "uthread" /\ cur_uthread = u /\ frame[u] = "user"

(* It executes the code of a call, at the given point. *)
InCall(u, point) ==
    outcome = "up" /\ control = "uthread" /\ cur_uthread = u /\ frame[u] = point

(* How the process is left when the ready queue is about to be corrupted. *)
QueuedAlready ==
    /\ outcome' = "twice"
    /\ UNCHANGED <<utVars, stackVars, pVars, schedVars, globalVars, kernelVars>>

-----------------------------------------------------------------------------
(* RB_MIN of the sleeping tree, ordered by _uthread_sleep_cmp: no sleeper *)
(* is due before the one returned.                                        *)
EarliestSleeper(u) ==
    u \in sleeping /\ \A v \in sleeping : wakeup_time[u] <= wakeup_time[v]

(* RB_FIND in the waiting tree, ordered by _uthread_wait_cmp. *)
FindWaiter(key) == {u \in waiting : fd_wait[u] = key}

(* _uthread_desched_sleep, on the status bits and on the sleeping tree.  The *)
(* wake-up time of a coroutine that is not in the tree is never read; the    *)
(* model resets it.                                                          *)
DeschedBits(bits) ==
    IF "SLEEPING" \in bits THEN (bits \ {"SLEEPING"}) \cup {"READY"} ELSE bits

\* Fault: the tree node is left behind.
DeschedSleepOmitted(us) == UNCHANGED <<sleeping, wakeup_time>>

DeschedSleep(us) ==
    LET out == {u \in us : "SLEEPING" \in status[u]} IN
    /\ sleeping' = sleeping \ out
    /\ wakeup_time' = [u \in Ut |-> IF u \in out THEN 0 ELSE wakeup_time[u]]

(* What handle_event and _uthread_cancel_event do to the status bits.  The *)
(* second test is written BIT(UT_EVENT_WR), which is the bit of UT_ST_READY*)
(* (both enum values are 1), so WAIT_WR itself is left set.                *)
ClearWaitBits(bits) ==
    IF "WAIT_RD" \in bits THEN bits \ {"WAIT_RD"} ELSE bits \ {"READY"}

WakeupAfter(timeout) == now + (IF timeout = 0 THEN Forever ELSE timeout)

\* Fault: only a wait with a timeout goes into the sleeping tree.
SchedSleepTimedOnly(u, timeout, bits) ==
    /\ sleeping' = IF timeout = 0 THEN sleeping ELSE sleeping \cup {u}
    /\ wakeup_time' = [wakeup_time EXCEPT ![u] = WakeupAfter(timeout)]
    /\ status' = [status EXCEPT ![u] = bits \cup {"SLEEPING"}]
    /\ control' = "resume"
    /\ UNCHANGED outcome

(* _uthread_sched_sleep up to its yield, for a coroutine u whose status is *)
(* bits when it is called.  The tree takes one node per wake-up time: the  *)
(* assertion on RB_INSERT aborts the process on a second one.              *)
SchedSleep(u, timeout, bits) ==
    LET due == WakeupAfter(timeout) IN
    \/ /\ \A v \in sleeping : wakeup_time[v] # due
       /\ sleeping' = sleeping \cup {u}
       /\ wakeup_time' = [wakeup_time EXCEPT ![u] = due]
       /\ status' = [status EXCEPT ![u] = bits \cup {"SLEEPING"}]
       /\ control' = "resume"
       /\ UNCHANGED outcome
    \/ /\ \E v \in sleeping : wakeup_time[v] = due
       /\ outcome' = "abort_sleep_insert"
       /\ status' = [status EXCEPT ![u] = bits]
       /\ UNCHANGED <<sleeping, wakeup_time, control>>

=============================================================================
