------------------------------ MODULE Handoff -------------------------------
(***************************************************************************)
(* pthread_disk_read and pthread_disk_write: before a coroutine blocks its *)
(* thread in a system call, its p moves to a spare scheduler on a thread   *)
(* of its own.  The coroutine and its old scheduler go on without a p.     *)
(*                                                                         *)
(* Every scheduler is a thread in the loop of _sched_run.  Its steps are   *)
(* the places where it looks at sched->p or at what other threads change.  *)
(* When a wait is over, by its timeout or its event, is left open, and so  *)
(* are the timeout of a join and the ids: UthreadSched has those.  A step  *)
(* of one thread on a queue or a tree is atomic, but where two threads     *)
(* change one with no lock, it may also break.                             *)
(***************************************************************************)
EXTENDS Integers, Sequences, FiniteSets

CONSTANTS
    Ut, Main,           \* blocks of coroutines; the main coroutine
    NULL,
    MAX_PROCS           \* schedulers that _runtime_init makes

ASSUME HandoffAssumption ==
    Main \in Ut /\ NULL \notin Ut /\ NULL \notin Nat /\ MAX_PROCS \in Nat \ {0}

Sched == 1..MAX_PROCS

VARIABLES
    owner,      \* p->sched: the one scheduler whose p is not NULL
    idle,       \* ptr_global->sched_idle
    pc,         \* per scheduler: where its thread is
    cur,        \* per scheduler: cur_uthread
    back,       \* per scheduler: where cur_uthread was resumed from
    last,       \* per scheduler: last_ready
    ready, sleeping, waiting, new_events,    \* of the p
    live, n_uthread,
    stage,      \* per coroutine: in its "code", in a "disk" operation, in the
                \* tree but still "switching" away, or "over"
    joined,     \* ut->ut_joined
    flag,       \* is_wating_yield_signal
    mutex, frees,       \* ptr_global->mutex at the end; calls of free_source
    outcome     \* "up", "exit", or how the process came to its end

pVars == <<ready, sleeping, waiting, new_events>>
utVars == <<live, n_uthread, stage, joined>>
endVars == <<mutex, frees>>
vars == <<owner, idle, pc, cur, back, last, pVars, utVars, flag, endVars, outcome>>

(* The first scheduler has the p, and the main coroutine is ready. *)
Init ==
    /\ owner = 1 /\ idle = [i \in 1..(MAX_PROCS - 1) |-> i + 1]
    /\ pc = [s \in Sched |-> IF s = 1 THEN "head" ELSE "none"]
    /\ cur = [s \in Sched |-> NULL] /\ back = [s \in Sched |-> "head"]
    /\ last = [s \in Sched |-> NULL]
    /\ ready = <<Main>> /\ sleeping = {} /\ waiting = {} /\ new_events = {}
    /\ live = {Main} /\ n_uthread = 1
    /\ stage = [u \in Ut |-> "code"] /\ joined = [u \in Ut |-> NULL]
    /\ flag = [u \in Ut |-> 1]
    /\ mutex = NULL /\ frees = 0 /\ outcome = "up"

(* How often a coroutine is in the queue. *)
Times(u) == Cardinality({i \in 1..Len(ready) : ready[i] = u})

Up == outcome = "up"
At(s, place) == Up /\ pc[s] = place
GoTo(s, place) == pc' = [pc EXCEPT ![s] = place]
Breaks(how) == outcome' = how

-----------------------------------------------------------------------------
(* _sched_run *)

WorkDone == ready = <<>> /\ sleeping = {}

(* A coroutine that is still on its way out of another thread would run on  *)
(* two threads, with one stack.                                             *)
Resume(s, u, from) ==
    /\ GoTo(s, "run")
    /\ cur' = [cur EXCEPT ![s] = u] /\ back' = [back EXCEPT ![s] = from]
    /\ flag' = [flag EXCEPT ![u] = 1]
    /\ outcome' = IF \E t \in Sched : cur[t] = u THEN "two_threads" ELSE outcome

(* _sched_create_another *)
Start(s) ==
    /\ At(s, "start") /\ GoTo(s, "head")
    /\ UNCHANGED <<owner, idle, cur, back, last, pVars, utVars, flag, endVars, outcome>>

LoopHead(s) ==
    /\ At(s, "head") /\ s = owner /\ ~ WorkDone
    /\ GoTo(s, "expired")
    /\ UNCHANGED <<owner, idle, cur, back, last, pVars, utVars, flag, endVars, outcome>>

(* _uthread_resume_expired: a timed wait is over. *)
ResumeExpired(s, u) ==
    /\ At(s, "expired") /\ s = owner /\ u \in waiting
    /\ sleeping' = sleeping \ {u} /\ waiting' = waiting \ {u}
    /\ Resume(s, u, "expired")
    /\ UNCHANGED <<owner, idle, last, ready, new_events, utVars, endVars>>

(* Behind it the code reads sched->p->ready, whether there is a p or not. *)
NoneExpired(s) ==
    /\ At(s, "expired")
    /\ \/ /\ s = owner /\ GoTo(s, "round")
          /\ last' = [last EXCEPT ![s] = IF ready = <<>> THEN NULL
                                                         ELSE ready[Len(ready)]]
          /\ UNCHANGED outcome
       \/ s # owner /\ Breaks("segv") /\ UNCHANGED <<pc, last>>
    /\ UNCHANGED <<owner, idle, cur, back, pVars, utVars, flag, endVars>>

RunReady(s) ==
    /\ At(s, "round")
    /\ \/ /\ ready # <<>> /\ ready' = Tail(ready)
          /\ Resume(s, Head(ready), "round")
       \/ ready = <<>> /\ GoTo(s, "poll") /\ UNCHANGED <<ready, cur, back, flag, outcome>>
    /\ UNCHANGED <<owner, idle, last, sleeping, waiting, new_events, utVars, endVars>>

(* Events that an earlier call fetched are dropped. *)
Poll(s) ==
    /\ At(s, "poll") /\ GoTo(s, "events")
    /\ last' = [last EXCEPT ![s] = NULL]
    /\ new_events' \in IF ready = <<>> THEN SUBSET waiting ELSE {{}}
    /\ UNCHANGED <<owner, idle, cur, back, ready, sleeping, waiting, utVars, flag,
                   endVars, outcome>>

(* handle_event for RD, then for WR: one of them finds the coroutine, if it *)
(* still waits.                                                             *)
HandleEvents(s) ==
    /\ At(s, "events")
    /\ \/ /\ s = owner
          /\ \E u \in new_events :
               /\ new_events' = new_events \ {u}
               /\ \/ /\ u \in waiting
                     /\ sleeping' = sleeping \ {u} /\ waiting' = waiting \ {u}
                     /\ \E from \in {"second", "events"} : Resume(s, u, from)
                  \/ u \notin waiting
                     /\ UNCHANGED <<pc, cur, back, sleeping, waiting, flag, outcome>>
       \/ /\ s # owner \/ new_events = {}
          /\ GoTo(s, "head")
          /\ UNCHANGED <<cur, back, sleeping, waiting, new_events, flag, outcome>>
    /\ UNCHANGED <<owner, idle, last, ready, utVars, endVars>>

(* The second handle_event reads sched->p->waiting. *)
SecondEvent(s) ==
    /\ At(s, "second")
    /\ \/ s = owner /\ GoTo(s, "events") /\ UNCHANGED outcome
       \/ s # owner /\ Breaks("segv") /\ UNCHANGED pc
    /\ UNCHANGED <<owner, idle, cur, back, last, pVars, utVars, flag, endVars>>

\* Fault: a scheduler takes its own p for the whole process.
AllDoneHere(s) == s # owner \/ WorkDone

AllDone(s) == n_uthread = 0

LockForExit(s) == mutex = NULL /\ mutex' = s

(* The test behind the loop.  The mutex is never unlocked again. *)
LoopTail(s) ==
    /\ At(s, "head") /\ (s # owner \/ WorkDone)
    /\ AllDone(s) /\ LockForExit(s)
    /\ GoTo(s, "free_source")
    /\ UNCHANGED <<owner, idle, cur, back, last, pVars, utVars, flag, frees, outcome>>

(* goto start: a scheduler with nothing to do spins. *)
Spin(s) ==
    /\ At(s, "head") /\ (s # owner \/ WorkDone) /\ ~ AllDone(s)
    /\ UNCHANGED vars

End(s) ==
    /\ \/ /\ At(s, "free_source") /\ GoTo(s, "exit")
          /\ frees' = frees + 1 /\ UNCHANGED outcome
       \/ At(s, "exit") /\ Breaks("exit") /\ UNCHANGED <<pc, frees>>
    /\ UNCHANGED <<owner, idle, cur, back, last, pVars, utVars, flag, mutex>>

-----------------------------------------------------------------------------
(* The coroutines, and _uthread_resume behind the switch *)

Runs(s, u) == At(s, "run") /\ cur[s] = u /\ stage[u] = "code"

(* Where the scheduler goes on: a round ends with its last coroutine or     *)
(* with the p.                                                              *)
Onward(s) ==
    IF back[s] # "round" THEN back[s]
    ELSE IF s # owner THEN "head"
    ELSE IF cur[s] = last[s] THEN "poll" ELSE "round"

Leave(s) ==
    /\ cur' = [cur EXCEPT ![s] = NULL] /\ back' = [back EXCEPT ![s] = "head"]
    /\ GoTo(s, Onward(s))

(* A thread without a p changes the queue and the trees while the owner's   *)
(* thread does too: in its loop, or in a library call of its coroutine.     *)
Races(s) ==
    s # owner /\ (pc[owner] = "run" => stage[cur[owner]] # "disk")

(* _uthread_yield, and uthread_sched_sleep as well. *)
ClearFlag(u) == flag' = [flag EXCEPT ![u] = 0]

(* SIGUSR1, which tick may have decided on before the flag was cleared.  It *)
(* goes to the thread in p->tid, which is the old one until the new one has *)
(* started.  Without a p there is no queue.                                 *)
Preempted(s, u) ==
    /\ At(s, "run") /\ cur[s] = u
    /\ \/ /\ s = owner /\ stage[u] \in {"code", "disk"}
          /\ ready' = Append(ready, u) /\ ClearFlag(u)
          /\ Leave(s) /\ UNCHANGED outcome
       \/ /\ s # owner /\ pc[owner] = "start"
          /\ Breaks("segv") /\ UNCHANGED <<ready, flag, pc, cur, back>>
    /\ UNCHANGED <<owner, idle, last, sleeping, waiting, new_events, utVars, endVars>>

(* uthread_create finds no queue on a scheduler without a p.  A block is    *)
(* used once: UthreadSched has them used again.                             *)
Fresh == {v \in Ut \ live : stage[v] # "over"}
uthread_create(s, u) ==
    /\ Runs(s, u)
    /\ \/ /\ s = owner
          /\ Fresh # {}
          /\ LET v == CHOOSE v \in Fresh : TRUE IN
             live' = live \cup {v} /\ ready' = Append(ready, v)
          /\ n_uthread' = n_uthread + 1 /\ UNCHANGED outcome
       \/ s # owner /\ Breaks("segv") /\ UNCHANGED <<live, ready, n_uthread>>
    /\ UNCHANGED <<owner, idle, pc, cur, back, last, sleeping, waiting, new_events,
                   stage, joined, flag, endVars>>

(* _register_event needs sched->p->poller_fd. *)
register_event(s, u) ==
    /\ Runs(s, u)
    /\ \/ /\ s = owner
          /\ sleeping' = sleeping \cup {u} /\ waiting' = waiting \cup {u}
          /\ stage' = [stage EXCEPT ![u] = "switching"] /\ ClearFlag(u)
          /\ UNCHANGED outcome
       \/ s # owner /\ Breaks("segv") /\ UNCHANGED <<sleeping, waiting, stage, flag>>
    /\ UNCHANGED <<owner, idle, pc, cur, back, last, ready, new_events, live,
                   n_uthread, joined, endVars>>

(* uthread_join goes by ut->p, so it works without a sched->p. *)
uthread_join(s, u, v) ==
    /\ Runs(s, u) /\ v \in live \ {u} /\ joined[v] = NULL
    /\ joined' = [joined EXCEPT ![v] = u]
    /\ sleeping' = sleeping \cup {u}
    /\ stage' = [stage EXCEPT ![u] = "switching"] /\ ClearFlag(u)
    /\ outcome' \in {outcome} \cup (IF Races(s) THEN {"corrupt"} ELSE {})
    /\ UNCHANGED <<owner, idle, pc, cur, back, last, ready, waiting, new_events, live,
                   n_uthread, endVars>>

\* Fault: a coroutine that sleeps is queued as well.
StaysInTree(s, u) == FALSE

SleepingBit(s, u) == u \in sleeping

(* The switch of a coroutine that sleeps.  One that another thread has      *)
(* woken, and queued, meanwhile is queued once more: the queue breaks, or   *)
(* there is no sched->p to do it with.                                      *)
Switch(s, u) ==
    /\ At(s, "run") /\ cur[s] = u /\ stage[u] = "switching"
    /\ stage' = [stage EXCEPT ![u] = "code"]
    /\ \/ SleepingBit(s, u) /\ Leave(s) /\ UNCHANGED <<ready, outcome>>
       \/ /\ ~ SleepingBit(s, u) /\ s = owner
          /\ ready' = Append(ready, u)
          /\ Leave(s)
          /\ outcome' = IF Times(u) > 0 THEN "corrupt" ELSE outcome
       \/ /\ ~ SleepingBit(s, u) /\ s # owner
          /\ Breaks("segv") /\ UNCHANGED <<ready, pc, cur, back>>
    /\ UNCHANGED <<owner, idle, last, sleeping, waiting, new_events, live, n_uthread,
                   joined, flag, endVars>>

(* uthread_exit and what _uthread_resume does then: the joiner is woken,    *)
(* the block freed, and at last the coroutine counted off.                  *)
uthread_exit(s, u) ==
    LET j == joined[u] IN
    /\ Runs(s, u)
    /\ live' = live \ {u} /\ joined' = [joined EXCEPT ![u] = NULL]
    /\ sleeping' = sleeping \ {j}
    /\ ready' = IF j = NULL THEN ready ELSE Append(ready, j)
    /\ outcome' \in {outcome} \cup
                        (IF j # NULL /\ Races(s) THEN {"corrupt"} ELSE {})
    /\ cur' = [cur EXCEPT ![s] = NULL] /\ back' = [back EXCEPT ![s] = Onward(s)]
    /\ GoTo(s, "free")
    /\ stage' = [stage EXCEPT ![u] = "over"] /\ ClearFlag(u)
    /\ UNCHANGED <<owner, idle, last, waiting, new_events, n_uthread, endVars>>

uthread_free(s) ==
    /\ At(s, "free") /\ mutex = NULL
    /\ n_uthread' = n_uthread - 1
    /\ GoTo(s, back[s]) /\ back' = [back EXCEPT ![s] = "head"]
    /\ UNCHANGED <<owner, idle, cur, last, pVars, live, stage, joined, flag, endVars,
                   outcome>>

\* Fault: no thread is made for the new scheduler.
NewThreadOmitted(s) == UNCHANGED pc

NewThread(s) == GoTo(s, "start")

(* pthread_disk_read and pthread_disk_write up to the system call: the p    *)
(* moves if another coroutine is ready.  Schedulers never become spare      *)
(* again, and the code does not expect to find none.  The flag is not set   *)
(* again behind the operation.                                              *)
disk_io(s, u) ==
    /\ Runs(s, u)
    /\ stage' = [stage EXCEPT ![u] = "disk"] /\ ClearFlag(u)
    /\ \/ /\ s = owner /\ ready # <<>> /\ idle # <<>>
          /\ owner' = Head(idle) /\ idle' = Tail(idle)
          /\ NewThread(Head(idle)) /\ UNCHANGED outcome
       \/ /\ s = owner /\ ready # <<>> /\ idle = <<>>
          /\ Breaks("segv") /\ UNCHANGED <<owner, idle, pc>>
       \/ (s # owner \/ ready = <<>>) /\ UNCHANGED <<owner, idle, pc, outcome>>
    /\ UNCHANGED <<cur, back, last, pVars, live, n_uthread, joined, endVars>>

disk_return(s, u) ==
    /\ At(s, "run") /\ cur[s] = u /\ stage[u] = "disk"
    /\ stage' = [stage EXCEPT ![u] = "code"]
    /\ UNCHANGED <<owner, idle, pc, cur, back, last, pVars, live, n_uthread, joined,
                   flag, endVars, outcome>>

Over == ~ Up /\ UNCHANGED vars

-----------------------------------------------------------------------------
Scheduler(s) ==
    \/ Start(s) \/ LoopHead(s) \/ RunReady(s) \/ Poll(s) \/ HandleEvents(s)
    \/ SecondEvent(s) \/ LoopTail(s) \/ End(s) \/ uthread_free(s)

Coroutine(s, u) ==
    \/ uthread_create(s, u) \/ register_event(s, u) \/ uthread_exit(s, u)
    \/ disk_io(s, u) \/ \E v \in Ut : uthread_join(s, u, v)

Next ==
    \/ \E s \in Sched :
        \/ Scheduler(s) \/ NoneExpired(s) \/ Spin(s)
        \/ \E u \in Ut : \/ ResumeExpired(s, u) \/ Preempted(s, u) \/ Switch(s, u)
                         \/ Coroutine(s, u) \/ disk_return(s, u)
    \/ Over

(* What a thread does by itself: it goes round the loop, ends a switch, and *)
(* the timer preempts a coroutine of the owner's whose flag is set          *)
(* (Preempt).                                                               *)
Thread(s) ==
    \/ Scheduler(s)
    \/ \E u \in Ut : Switch(s, u) \/ (s = owner /\ flag[u] = 1 /\ Preempted(s, u))

(* Every thread goes on, and every disk operation ends.  A wait takes its   *)
(* time, so that the loop over the expired ones ends.                       *)
Spec ==
    /\ Init /\ [][Next]_vars
    /\ \A s \in Sched : /\ SF_vars(NoneExpired(s))
                         /\ WF_vars(Thread(s) \/ \E u \in Ut : disk_return(s, u))

(* A disk operation takes any time, as test_disk_io.c reads a terminal by   *)
(* one; every wait would end.                                               *)
SlowSpec ==
    /\ Init /\ [][Next]_vars
    /\ \A s \in Sched : /\ SF_vars(NoneExpired(s)) /\ WF_vars(Thread(s))
                         /\ \A u \in Ut : SF_vars(ResumeExpired(s, u))

-----------------------------------------------------------------------------
(* However the p moves in the middle of a round, of the expired waits or of *)
(* the events, each coroutine stays in one place: it runs on one thread, or *)
(* is in the queue once, or in the trees, unless two threads have met over  *)
(* one that is switching away.                                              *)
PlacedOnce ==
    Up => \A u \in live :
        LET threads == {s \in Sched : cur[s] = u} IN
        IF threads # {} /\ stage[u] = "switching"
          THEN Cardinality(threads) = 1
          ELSE Cardinality(threads) + Times(u) + (IF u \in sleeping THEN 1 ELSE 0) = 1

(* The process does not end under a coroutine that another thread still     *)
(* runs or has still to run, and the comment on free_source: one thread     *)
(* alone frees the global data.                                             *)
EndsOnce == (frees > 0 => live = {}) /\ frees <= 1

(* All that goes wrong here is the hand-off's doing: as long as the p has   *)
(* not moved, sched->p is not missed, the queue is not broken, and nobody   *)
(* runs on two threads.  (With one scheduler the first move is one too      *)
(* many.)                                                                   *)
HarmNeedsHandoff ==
    outcome \in {"segv", "corrupt", "two_threads"}
        => MAX_PROCS = 1 \/ \E s \in Sched \ {owner} : pc[s] # "none"

(* A coroutine computes on the owner's thread and is not to be preempted. *)
Unpreempted == cur[owner] # NULL /\ stage[cur[owner]] = "code" /\ flag[cur[owner]] = 0

(* A coroutine that is ready runs, whichever threads block in disk          *)
(* operations, and however often the p moves; unless one that is behind a   *)
(* disk operation, and so is not preempted, keeps the thread for ever.      *)
ReadyRuns ==
    \A u \in Ut : (Times(u) > 0) ~> (Times(u) = 0 \/ ~ Up \/ []Unpreempted)

(* README.md: moving the tasks to a new thread keeps a blocking system call *)
(* from interfering with the other coroutines.  Here for one that waits for *)
(* I/O while another one is in a disk operation of unknown length, and not  *)
(* one that computes behind it without end.                                 *)
BlockingIsNoObstacle ==
    \A u \in Ut : (u \in waiting) ~> (u \notin waiting \/ ~ Up \/ []Unpreempted)

=============================================================================
