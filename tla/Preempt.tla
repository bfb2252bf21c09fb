------------------------------ MODULE Preempt -------------------------------
(***************************************************************************)
(* Preemption: the timer's thread sends SIGUSR1 to the worker thread, and  *)
(* the handler yields for whatever coroutine cur_uthread names.  One       *)
(* worker and one p.  The worker's steps are as small as the signal can    *)
(* tell apart in _uthread_resume, _uthread_free, uthread_create and        *)
(* _uthread_sched_sleep; what a signal in uthread_join and _register_event *)
(* does to links and trees is in Uthread.  tick tests                      *)
(* is_wating_yield_signal and sends the signal in two steps of its own     *)
(* thread.                                                                 *)
(*                                                                         *)
(* The wheel is its abstraction Countdown, which TimerWheel implements.    *)
(* add_timer is not atomic here: ticks may come between its read of        *)
(* timer.current and its write of the slot, and the write may come while   *)
(* tick takes nodes out of that slot.                                      *)
(*                                                                         *)
(* When a sleeper is due, by its timeout or by an event, is left open:     *)
(* UthreadSched has the clock and epoll.                                   *)
(***************************************************************************)
EXTENDS Integers, Sequences, FiniteSets

CONSTANTS
    Ut, Main,           \* blocks of coroutines; the main coroutine
    NULL,
    Timers,             \* bound: blocks of timer nodes
    MaxLost,            \* bound: nodes that are leaked
    TIME_WHEEL_SIZE

ASSUME PreemptAssumption ==
    /\ Main \in Ut /\ NULL \notin Ut
    /\ Timers \in Nat \ {0} /\ MaxLost \in Nat /\ TIME_WHEEL_SIZE \in Nat \ {0, 1}

Node == 1..Timers
Off == -1

VARIABLES
    pc,         \* where the worker is: see below
    cur,        \* sched->cur_uthread
    ready, sleeping,    \* the queue and the tree of p
    live,       \* blocks that hold a coroutine
    place,      \* per coroutine: where in its code it is
    flag,       \* is_wating_yield_signal
    mutex,      \* who holds ptr_global->mutex
    left, owner,        \* the timers, and the ut of each node
    scanning,   \* whether a tick is under way: it moves the hand at its end
    todo,       \* nodes that the tick under way has to look at
    killing,    \* whether it is about to send SIGUSR1
    lost,       \* nodes that are in no slot any more, and not freed
    pending,    \* whether SIGUSR1 is pending for the worker
    ticks,      \* slots that were looked at since the hand was where the
                \* add_timer under way has read it, modulo the wheel's size
    untimed,    \* coroutines that will not be preempted in this run: they
                \* have read from the disk, or add_timer has lost their node
    outcome     \* "up", "exit", or how the process came to its end

coVars == <<live, place, flag>>
timerVars == <<left, owner, scanning, todo, killing, lost, untimed>>
vars == <<pc, cur, ready, sleeping, mutex, pending, ticks, outcome, coVars, timerVars>>

Wheel == INSTANCE Countdown
            WITH Node <- Node, Lens <- 0..TIME_WHEEL_SIZE, Off <- Off,
                 left <- left, fired <- todo

(* The worker is in the "loop" of the scheduler, in _uthread_resume before  *)
(* the switch ("resume") or behind it ("back"), in _uthread_free, or runs   *)
(* the code of cur ("user"): its own ("code"), that of uthread_create       *)
(* ("wants" or "holds" the mutex, "linking" into the queue), or that of     *)
(* _uthread_sched_sleep ("inserted" in the tree, "yielding").               *)
(* The main coroutine starts in front of its sigaction.                     *)
Init ==
    /\ pc = "loop" /\ cur = NULL
    /\ ready = <<Main>> /\ sleeping = {} /\ live = {Main}
    /\ place = [u \in Ut |-> IF u = Main THEN "starting" ELSE "code"]
    /\ flag = [u \in Ut |-> IF u = Main THEN 1 ELSE 0] /\ mutex = NULL
    /\ Wheel!Init /\ owner = [n \in Node |-> NULL]
    /\ scanning = FALSE /\ killing = FALSE /\ pending = FALSE /\ ticks = 0
    /\ lost = {} /\ untimed = {}
    /\ outcome = "up"

Up == outcome = "up"
At(where) == Up /\ pc = where
In(u, spot) == At("user") /\ cur = u /\ place[u] = spot

(* status has UT_ST_SLEEPING. *)
SleepingBit(u) == u \in sleeping /\ place[u] # "inserted"

-----------------------------------------------------------------------------
(* The scheduler *)

\* Fault: the flag of a coroutine that is resumed is not set again.
SetFlagNever(u) == UNCHANGED flag

SetFlag(u) == flag' = [flag EXCEPT ![u] = 1]

(* _uthread_resume, up to add_timer's read of timer.current. *)
resume(u) ==
    /\ cur' = u /\ pc' = "resume" /\ ticks' = IF scanning THEN 1 ELSE 0
    /\ SetFlag(u)
    /\ untimed' = untimed \ {u}
    /\ UNCHANGED <<live, place, mutex, left, owner, scanning, todo, killing, lost, pending>>

ResumeReady ==
    /\ At("loop") /\ ready # <<>>
    /\ resume(Head(ready))
    /\ ready' = Tail(ready)
    /\ UNCHANGED <<sleeping, outcome>>

(* _uthread_desched_sleep goes by the bit: a coroutine that was preempted   *)
(* in front of setting it runs, and stays in the tree and in the queue.     *)
ResumeDue(u) ==
    /\ At("loop") /\ u \in sleeping
    /\ IF SleepingBit(u)
         THEN sleeping' = sleeping \ {u} /\ UNCHANGED outcome
         ELSE outcome' = "twice" /\ UNCHANGED sleeping
    /\ resume(u)
    /\ UNCHANGED ready

(* tick is at the slot that add_timer has chosen, the one behind the hand   *)
(* it has read.                                                             *)
SlotScanned == scanning /\ ticks = 2 % TIME_WHEEL_SIZE

(* Where the new node n gets to.  add_timer chose the slot before any       *)
(* ticks: after one it is the next to be looked at, after two it has been   *)
(* passed.  If tick is at the slot, it finds the new node there as well,    *)
(* unless it has seen its end; and if it is at a node of the slot, it       *)
(* unlinks the new one together with that (tick's *cur = curr->next), or    *)
(* has freed that when the new node is linked to it.                        *)
Linked(n) ==
    \/ /\ ~ SlotScanned \/ (todo = {} /\ ~ killing)
       /\ Wheel!Add(n, (1 - ticks) % TIME_WHEEL_SIZE)
       /\ UNCHANGED <<lost, untimed, outcome>>
    \/ /\ SlotScanned /\ ~ killing
       /\ todo' = todo \cup {n}
       /\ UNCHANGED <<left, lost, untimed, outcome>>
    \/ /\ SlotScanned /\ (todo # {} \/ killing)
       /\ Cardinality(lost) < MaxLost
       /\ lost' = lost \cup {n} /\ untimed' = untimed \cup {cur}
       /\ UNCHANGED <<left, todo, outcome>>
    \/ /\ SlotScanned /\ (todo # {} \/ killing)
       /\ outcome' = "corrupt"
       /\ UNCHANGED <<left, todo, lost, untimed>>

(* add_timer's malloc and its write of the slot; then the switch to the     *)
(* coroutine.                                                               *)
add_timer ==
    /\ At("resume")
    /\ \E n \in Node :
        /\ owner[n] = NULL /\ \A k \in 1..(n - 1) : owner[k] # NULL
        /\ owner' = [owner EXCEPT ![n] = cur]
        /\ Linked(n)
    /\ pc' = "user" /\ ticks' = 0
    /\ UNCHANGED <<cur, ready, sleeping, coVars, mutex, scanning, killing, pending>>

(* _uthread_resume behind the switch. *)
Back ==
    /\ At("back")
    /\ cur' = NULL
    /\ pc' = IF place[cur] = "exited" THEN "free" ELSE "loop"
    /\ ready' = IF place[cur] = "exited" \/ SleepingBit(cur)
                  THEN ready ELSE Append(ready, cur)
    /\ UNCHANGED <<sleeping, coVars, mutex, timerVars, pending, ticks, outcome>>

(* _uthread_free takes the mutex, on the scheduler's stack. *)
uthread_free ==
    /\ At("free") /\ mutex = NULL
    /\ live' = {u \in live : place[u] # "exited"}
    /\ place' = [u \in Ut |-> IF place[u] = "exited" THEN "code" ELSE place[u]]
    /\ pc' = "loop"
    /\ UNCHANGED <<cur, ready, sleeping, flag, mutex, timerVars, pending, ticks, outcome>>

exit ==
    /\ At("loop") /\ live = {}
    /\ outcome' = "exit"
    /\ UNCHANGED <<pc, cur, ready, sleeping, coVars, mutex, timerVars, pending, ticks>>

-----------------------------------------------------------------------------
(* The coroutines *)

Moves(u, from, to) ==
    /\ In(u, from)
    /\ place' = [place EXCEPT ![u] = to]
    /\ UNCHANGED <<cur, timerVars, pending, ticks, outcome>>

(* _uthread_yield *)
yield(u) == flag' = [flag EXCEPT ![u] = 0] /\ pc' = "back"

(* The end of _uthread_create_main: the handler is in place. *)
sigaction(u) ==
    Moves(u, "starting", "code") /\ UNCHANGED <<pc, ready, sleeping, live, flag, mutex>>

(* uthread_create up to the mutex. *)
create(u) ==
    /\ Moves(u, "code", "wants")
    /\ UNCHANGED <<pc, ready, sleeping, live, flag, mutex>>

lock(u) ==
    /\ mutex = NULL /\ Moves(u, "wants", "holds")
    /\ mutex' = u
    /\ UNCHANGED <<pc, ready, sleeping, live, flag>>

unlock(u) ==
    /\ Moves(u, "holds", "linking")
    /\ mutex' = NULL
    /\ UNCHANGED <<pc, ready, sleeping, live, flag>>

(* If all blocks are in use, there is no stack for the new coroutine. *)
link(u) ==
    /\ Moves(u, "linking", "code")
    /\ \/ \E v \in Ut \ live :
            /\ live' = live \cup {v} /\ flag' = [flag EXCEPT ![v] = 1]
            /\ ready' = Append(ready, v)
       \/ live = Ut /\ UNCHANGED <<live, flag, ready>>
    /\ UNCHANGED <<pc, sleeping, mutex>>

(* _uthread_sched_sleep: into the tree; the bit and the flag; the switch. *)
sched_sleep(u) ==
    /\ UNCHANGED <<ready, live, mutex>>
    /\ \/ /\ Moves(u, "code", "inserted")
          /\ sleeping' = sleeping \cup {u}
          /\ UNCHANGED <<pc, flag>>
       \/ /\ Moves(u, "inserted", "yielding")
          /\ flag' = [flag EXCEPT ![u] = 0]
          /\ UNCHANGED <<pc, sleeping>>
       \/ Moves(u, "yielding", "code") /\ yield(u) /\ UNCHANGED sleeping

(* pthread_disk_read while no other coroutine is ready: the p stays.  The   *)
(* flag is not set again behind the read.                                   *)
disk_read(u) ==
    /\ In(u, "code") /\ ready = <<>>
    /\ flag' = [flag EXCEPT ![u] = 0]
    /\ untimed' = untimed \cup {u}
    /\ UNCHANGED <<pc, cur, ready, sleeping, live, place, mutex, left, owner, scanning,
                   todo, killing, lost, pending, ticks, outcome>>

(* uthread_exit and the end of _uthread_exec. *)
uthread_exit(u) ==
    /\ Moves(u, "code", "exited") /\ yield(u)
    /\ UNCHANGED <<ready, sleeping, live, mutex>>

-----------------------------------------------------------------------------
(* SIGUSR1 and the timer's thread *)

(* What the signal does to a worker that is not in the code of a coroutine, *)
(* or is changing the queue in it: cur_uthread is NULL, the context of the  *)
(* coroutine is replaced by the scheduler's, or the handler is not there.   *)
Harm ==
    CASE pc \in {"loop", "free"}                      -> "segv"
      [] pc \in {"resume", "back"}                    -> "corrupt"
      [] pc = "user" /\ place[cur] = "linking"        -> "corrupt"
      [] pc = "user" /\ place[cur] = "starting"       -> "killed"
      [] OTHER                                        -> "none"

handler ==
    /\ Up /\ pending
    /\ pending' = FALSE
    /\ \/ Harm # "none" /\ outcome' = Harm /\ UNCHANGED <<pc, flag>>
       \/ Harm = "none" /\ yield(cur) /\ UNCHANGED outcome
    /\ UNCHANGED <<cur, ready, sleeping, live, place, mutex, timerVars, ticks>>

tick ==
    /\ Up /\ ~ scanning
    /\ Wheel!Tick /\ scanning' = TRUE
    /\ ticks' = IF pc = "resume" THEN (ticks + 1) % TIME_WHEEL_SIZE ELSE ticks
    /\ UNCHANGED <<pc, cur, ready, sleeping, coVars, mutex, owner, killing, lost, pending,
                   untimed, outcome>>

\* Fault: the signal is for coroutines that have yielded.
WaitsForSignalNot(u) == flag[u] = 0

WaitsForSignal(u) == flag[u] = 1

(* tick at an expired node, which may belong to a coroutine that is over,   *)
(* or to the next one in its block.                                         *)
TickNode(n) ==
    /\ Up /\ n \in todo /\ ~ killing
    /\ todo' = todo \ {n}
    /\ killing' = WaitsForSignal(owner[n])
    /\ owner' = [owner EXCEPT ![n] = NULL]
    /\ UNCHANGED <<pc, cur, ready, sleeping, coVars, mutex, left, scanning, lost, pending,
                   ticks, untimed, outcome>>

kill ==
    /\ Up /\ killing
    /\ killing' = FALSE /\ pending' = TRUE
    /\ UNCHANGED <<pc, cur, ready, sleeping, coVars, mutex, left, owner, scanning, todo,
                   lost, ticks, untimed, outcome>>

(* The list has come to its end, and the hand moves on. *)
TickEnd ==
    /\ Up /\ scanning /\ todo = {} /\ ~ killing
    /\ scanning' = FALSE
    /\ UNCHANGED <<pc, cur, ready, sleeping, coVars, mutex, left, owner, todo, killing,
                   lost, pending, ticks, untimed, outcome>>

Over == ~ Up /\ UNCHANGED vars

-----------------------------------------------------------------------------
Scheduler == add_timer \/ Back \/ uthread_free \/ exit

Timer == tick \/ kill \/ TickEnd \/ \E n \in Node : TickNode(n)

(* Steps that a coroutine takes without the program's leave. *)
InLibrary(u) ==
    \/ sigaction(u) \/ lock(u) \/ unlock(u) \/ link(u)
    \/ place[u] # "code" /\ sched_sleep(u)

Next ==
    \/ ResumeReady \/ Scheduler
    \/ \E u \in Ut :
        \/ ResumeDue(u) \/ InLibrary(u)
        \/ create(u) \/ sched_sleep(u) \/ disk_read(u) \/ uthread_exit(u)
    \/ handler \/ Timer \/ Over

(* Both threads run, signals are delivered, and the queue gets its turn     *)
(* however many sleepers are due: _sched_run looks at it in every round.  A *)
(* coroutine in the library has 10 ms for its few instructions whenever it  *)
(* is resumed, so it is not preempted in front of the same one for ever.    *)
Spec ==
    /\ Init /\ [][Next]_vars
    /\ WF_vars(Scheduler) /\ SF_vars(ResumeReady)
    /\ \A u \in Ut : SF_vars(InLibrary(u))
    /\ WF_vars(handler) /\ WF_vars(Timer)

-----------------------------------------------------------------------------
Running(u) == At("user") /\ cur = u

(* A coroutine whose run is to end after 10 ms, unless it yields before. *)
Preemptable(u) == Running(u) /\ place[u] # "yielding" /\ u \notin untimed

(* No coroutine runs on unnoticed: one of the nodes of the coroutine that   *)
(* runs is in the wheel or in the hands of tick, or a signal is on its way, *)
(* whatever old nodes, late ticks and signals meant for others have done    *)
(* before.  Only a disk read, and a node that tick unlinks in the moment    *)
(* add_timer links it, leave a coroutine without.                           *)
TimedWhileRunning ==
    \A u \in Ut :
        Preemptable(u) => killing \/ pending \/ \E n \in Node \ lost : owner[n] = u

(* A coroutine that computes without end is made to yield: the thread comes *)
(* back to the scheduler.                                                   *)
PreemptionHappens ==
    (\E u \in Ut : Preemptable(u)) ~> (\A u \in Ut : ~ Preemptable(u))

(* A coroutine that waits for the mutex blocks the thread that its holder   *)
(* needs.  The signal comes to the rescue, so that the mutex is released,   *)
(* unless it is the scheduler that waits for it, or a coroutine that cannot *)
(* be preempted runs.                                                       *)
MutexReleased ==
    (mutex # NULL)
        ~> (mutex = NULL \/ pc = "free" \/ ~ Up \/ \E u \in untimed : Running(u))

(* The manual: tick picks the coroutines to send the signal to by           *)
(* is_wating_yield_signal, and that is enough for the signal to reach a     *)
(* coroutine that is running, and not the scheduler.                        *)
SignalMeetsCoroutine == outcome \notin {"segv", "corrupt"}

=============================================================================
