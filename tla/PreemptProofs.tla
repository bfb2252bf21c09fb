--------------------------- MODULE PreemptProofs ----------------------------
(***************************************************************************)
(* No coroutine runs on unnoticed by the timer, and where the nodes are.   *)
(***************************************************************************)
EXTENDS Preempt, TLAPS

Place == {"starting", "code", "wants", "holds", "linking", "inserted", "yielding", "exited"}

(* The worker has a coroutine exactly where it resumes or runs one. *)
PreemptTypeOK ==
    /\ pc \in {"loop", "resume", "user", "back", "free"}
    /\ cur \in Ut \cup {NULL} /\ (pc \in {"resume", "user", "back"} => cur \in Ut)
    /\ ready \in Seq(Ut) /\ sleeping \subseteq Ut
    /\ flag \in [Ut -> {0, 1}] /\ place \in [Ut -> Place]
    /\ owner \in [Node -> Ut \cup {NULL}] /\ left \in [Node -> Int]
    /\ todo \subseteq Node /\ lost \subseteq Node /\ ticks \in Nat

(* A node that is allocated is in the wheel, in the hands of tick, or       *)
(* leaked, and in one of them only; one that is free is in none, so that    *)
(* tick never looks at the ut of a free node.                               *)
NodesOK ==
    Up => \A n \in Node :
        /\ left[n] >= Off
        /\ owner[n] = NULL <=> left[n] = Off /\ n \notin todo \cup lost
        /\ n \in todo \cup lost => left[n] = Off
        /\ n \in todo => n \notin lost

(* Between two ticks, no node is in the hands of tick. *)
ScanOK == scanning \/ todo = {}

(* A coroutine waits for the signal from _uthread_resume on, until it       *)
(* yields, sleeps or reads from the disk: tick does not skip its node.      *)
FlagOK ==
    Up =>
        /\ pc = "resume" => flag[cur] = 1 /\ cur \notin untimed
        /\ pc = "user" /\ place[cur] # "yielding" /\ cur \notin untimed => flag[cur] = 1

PreemptInv == PreemptTypeOK /\ NodesOK /\ ScanOK /\ FlagOK /\ TimedWhileRunning

LEMMA PreemptInit == Init => PreemptInv
<1>. SUFFICES ASSUME Init PROVE PreemptInv
  OBVIOUS
<1>1. PreemptTypeOK
  BY PreemptAssumption DEF Init, PreemptTypeOK, Place, Wheel!Init, Off
<1>2. NodesOK /\ ScanOK /\ FlagOK /\ TimedWhileRunning
  BY DEF Init, NodesOK, ScanOK, FlagOK, TimedWhileRunning, Preemptable, Running, At, Wheel!Init,
         Off
<1>. QED
  BY <1>1, <1>2 DEF PreemptInv

(* Steps that leave the timers alone and after which no coroutine has the   *)
(* thread that did not have it before.                                      *)
LEMMA TimersKept ==
    ASSUME PreemptInv, PreemptTypeOK', UNCHANGED <<left, owner, scanning, todo, killing, lost, pending>>,
           outcome' = "up" => outcome = "up",
           untimed \subseteq untimed',
           pc' \notin {"resume", "user"} \/
             /\ pc = "user" /\ pc' = "user" /\ UNCHANGED cur
             /\ \/ place'[cur] = "yielding" \/ cur \in untimed'
                \/ place[cur] # "yielding" /\ flag'[cur] \in {flag[cur], 1}
    PROVE  PreemptInv'
<1>1. NodesOK' /\ ScanOK'
  BY DEF PreemptInv, NodesOK, ScanOK, Up
<1>2. FlagOK'
  BY DEF PreemptInv, FlagOK, Up
<1>3. TimedWhileRunning'
  BY DEF PreemptInv, TimedWhileRunning, Preemptable, Running, At, Up
<1>. QED
  BY <1>1, <1>2, <1>3 DEF PreemptInv

(* _uthread_resume sets the flag before add_timer. *)
LEMMA ResumeKeeps ==
    ASSUME PreemptInv, NEW u \in Ut, resume(u), ready' \in Seq(Ut), sleeping' \subseteq Ut,
           outcome' = "up" => outcome = "up"
    PROVE  PreemptInv'
<1>1. PreemptTypeOK'
  BY DEF PreemptInv, PreemptTypeOK, resume, SetFlag
<1>2. NodesOK' /\ ScanOK'
  BY DEF PreemptInv, NodesOK, ScanOK, Up, resume
<1>3. FlagOK' /\ TimedWhileRunning'
  BY DEF PreemptInv, PreemptTypeOK, resume, SetFlag, FlagOK, TimedWhileRunning,
         Preemptable, Running, At
<1>. QED
  BY <1>1, <1>2, <1>3 DEF PreemptInv

(* Wherever the node ends up, add_timer leaves the coroutine with one, or   *)
(* has lost it.                                                             *)
LEMMA AddTimerKeeps ==
    ASSUME PreemptInv, add_timer
    PROVE  PreemptInv'
<1>1. /\ Up /\ pc = "resume" /\ pc' = "user" /\ cur \in Ut
      /\ UNCHANGED <<cur, ready, sleeping, live, place, flag, scanning, killing, pending>>
      /\ ticks' = 0
  BY DEF add_timer, At, coVars, PreemptInv, PreemptTypeOK
<1>2. PICK n \in Node : owner[n] = NULL /\ owner' = [owner EXCEPT ![n] = cur] /\ Linked(n)
  BY DEF add_timer
<1>3. /\ owner' \in [Node -> Ut \cup {NULL}] /\ owner'[n] = cur
      /\ \A m \in Node \ {n} : owner'[m] = owner[m]
  BY <1>1, <1>2 DEF PreemptInv, PreemptTypeOK
<1>4. left[n] = Off /\ n \notin todo /\ n \notin lost /\ cur # NULL
  BY <1>1, <1>2, PreemptAssumption DEF PreemptInv, NodesOK
<1>5. CASE /\ Wheel!Add(n, (1 - ticks) % TIME_WHEEL_SIZE)
           /\ UNCHANGED <<lost, untimed, outcome>>
  <2>. DEFINE len == (1 - ticks) % TIME_WHEEL_SIZE
  <2>1. len \in Nat
    BY PreemptAssumption DEF PreemptInv, PreemptTypeOK
  <2>. HIDE DEF len
  <2>2. left' = [left EXCEPT ![n] = len] /\ UNCHANGED todo
    BY <1>5 DEF Wheel!Add, len
  <2>3. PreemptTypeOK'
    BY <1>1, <1>3, <1>5, <2>1, <2>2 DEF PreemptInv, PreemptTypeOK
  <2>4. NodesOK' /\ ScanOK'
    BY <1>1, <1>3, <1>4, <1>5, <2>1, <2>2 DEF PreemptInv, PreemptTypeOK, NodesOK, ScanOK, Off, Up
  <2>5. FlagOK' /\ TimedWhileRunning'
    BY <1>1, <1>3, <1>4, <1>5
       DEF PreemptInv, FlagOK, TimedWhileRunning, Preemptable, Running, At, Up
  <2>. QED
    BY <2>3, <2>4, <2>5 DEF PreemptInv
<1>6. CASE /\ scanning /\ todo' = todo \cup {n}
           /\ UNCHANGED <<left, lost, untimed, outcome>>
  <2>1. PreemptTypeOK'
    BY <1>1, <1>3, <1>6 DEF PreemptInv, PreemptTypeOK
  <2>2. NodesOK' /\ ScanOK'
    BY <1>1, <1>3, <1>4, <1>6 DEF PreemptInv, PreemptTypeOK, NodesOK, ScanOK, Up
  <2>3. FlagOK' /\ TimedWhileRunning'
    BY <1>1, <1>3, <1>4, <1>6
       DEF PreemptInv, FlagOK, TimedWhileRunning, Preemptable, Running, At, Up
  <2>. QED
    BY <2>1, <2>2, <2>3 DEF PreemptInv
<1>7. CASE /\ lost' = lost \cup {n} /\ untimed' = untimed \cup {cur}
           /\ UNCHANGED <<left, todo, outcome>>
  <2>1. PreemptTypeOK'
    BY <1>1, <1>3, <1>7 DEF PreemptInv, PreemptTypeOK
  <2>2. NodesOK' /\ ScanOK'
    BY <1>1, <1>3, <1>4, <1>7 DEF PreemptInv, PreemptTypeOK, NodesOK, ScanOK, Up
  <2>3. FlagOK' /\ TimedWhileRunning'
    BY <1>1, <1>7 DEF FlagOK, TimedWhileRunning, Preemptable, Running, At, Up
  <2>. QED
    BY <2>1, <2>2, <2>3 DEF PreemptInv
<1>8. CASE outcome' = "corrupt" /\ UNCHANGED <<left, todo, lost, untimed>>
  <2>1. PreemptTypeOK'
    BY <1>1, <1>3, <1>8 DEF PreemptInv, PreemptTypeOK
  <2>2. NodesOK' /\ ScanOK' /\ FlagOK' /\ TimedWhileRunning'
    BY <1>1, <1>8
       DEF PreemptInv, NodesOK, ScanOK, FlagOK, TimedWhileRunning, Preemptable, Running, At, Up
  <2>. QED
    BY <2>1, <2>2 DEF PreemptInv
<1>. QED
  BY <1>2, <1>5, <1>6, <1>7, <1>8 DEF Linked, SlotScanned

LEMMA SchedulerKeeps ==
    ASSUME PreemptInv, Back \/ uthread_free \/ exit
    PROVE  PreemptInv'
<1>1. /\ UNCHANGED <<left, owner, scanning, todo, killing, lost, untimed, pending>>
      /\ outcome' = "up" => outcome = "up"
      /\ pc' \in {"loop", "free"}
  BY DEF Back, uthread_free, exit, timerVars, At, Up
<1>2. PreemptTypeOK'
  <2>1. CASE Back
    BY <2>1 DEF Back, At, PreemptInv, PreemptTypeOK, coVars, timerVars
  <2>2. CASE uthread_free
    BY <2>2 DEF uthread_free, At, PreemptInv, PreemptTypeOK, Place, timerVars
  <2>3. CASE exit
    BY <2>3 DEF exit, At, PreemptInv, PreemptTypeOK, coVars, timerVars
  <2>. QED
    BY <2>1, <2>2, <2>3
<1>. QED
  BY <1>1, <1>2, TimersKept

LEMMA CoroutineKeeps ==
    ASSUME PreemptInv, NEW u \in Ut,
           \/ InLibrary(u) \/ create(u) \/ sched_sleep(u) \/ disk_read(u)
           \/ uthread_exit(u)
    PROVE  PreemptInv'
<1>. USE PreemptAssumption DEF Place
<1>1. CASE sigaction(u) \/ create(u) \/ lock(u) \/ unlock(u)
  <2>1. /\ UNCHANGED <<left, owner, scanning, todo, killing, lost, untimed, pending, outcome, pc, cur>>
        /\ pc = "user" /\ cur = u /\ place[u] # "yielding" /\ UNCHANGED flag
    BY <1>1 DEF sigaction, create, lock, unlock, Moves, In, At, timerVars
  <2>2. PreemptTypeOK'
    BY <1>1 DEF sigaction, create, lock, unlock, Moves, In, At, timerVars, PreemptInv,
                PreemptTypeOK
  <2>. QED
    BY <2>1, <2>2, TimersKept
<1>2. CASE link(u)
  <2>1. /\ UNCHANGED <<left, owner, scanning, todo, killing, lost, untimed, pending, outcome, pc, cur>>
        /\ pc = "user" /\ cur = u /\ place[u] # "yielding" /\ place'[u] = "code"
    BY <1>2 DEF link, Moves, In, At, timerVars, PreemptInv, PreemptTypeOK
  <2>2. ready' \in Seq(Ut) /\ flag' \in [Ut -> {0, 1}] /\ flag'[u] \in {flag[u], 1}
    <3>1. CASE UNCHANGED <<live, flag, ready>>
      BY <3>1 DEF PreemptInv, PreemptTypeOK
    <3>2. ASSUME NEW v \in Ut, flag' = [flag EXCEPT ![v] = 1], ready' = Append(ready, v)
          PROVE  ready' \in Seq(Ut) /\ flag' \in [Ut -> {0, 1}] /\ flag'[u] \in {flag[u], 1}
      BY <3>2 DEF PreemptInv, PreemptTypeOK
    <3>. QED
      BY <1>2, <3>1, <3>2 DEF link
  <2>3. PreemptTypeOK'
    BY <1>2, <2>1, <2>2 DEF link, Moves, PreemptInv, PreemptTypeOK
  <2>. QED
    BY <2>1, <2>2, <2>3, TimersKept
<1>3. CASE sched_sleep(u)
  <2>1. PreemptTypeOK'
    BY <1>3 DEF sched_sleep, Moves, In, At, yield, timerVars, PreemptInv, PreemptTypeOK
  <2>2. /\ UNCHANGED <<left, owner, scanning, todo, killing, lost, untimed, pending, outcome, cur>>
        /\ pc = "user" /\ cur = u
        /\ \/ pc' = "user" /\ place[u] # "yielding" /\ flag'[u] = flag[u]
           \/ pc' = "user" /\ place'[u] = "yielding"
           \/ pc' = "back"
    BY <1>3 DEF sched_sleep, Moves, In, At, yield, timerVars, PreemptInv, PreemptTypeOK
  <2>. QED
    BY <2>1, <2>2, TimersKept
<1>4. CASE disk_read(u)
  <2>1. PreemptTypeOK'
    BY <1>4 DEF disk_read, In, At, PreemptInv, PreemptTypeOK
  <2>2. /\ UNCHANGED <<left, owner, scanning, todo, killing, lost, pending, outcome, cur, pc>>
        /\ pc = "user" /\ cur = u /\ untimed' = untimed \cup {u}
    BY <1>4 DEF disk_read, In, At
  <2>. QED
    BY <2>1, <2>2, TimersKept
<1>5. CASE uthread_exit(u)
  <2>1. PreemptTypeOK'
    BY <1>5 DEF uthread_exit, Moves, In, At, yield, timerVars, PreemptInv, PreemptTypeOK
  <2>2. /\ UNCHANGED <<left, owner, scanning, todo, killing, lost, untimed, pending, outcome>>
        /\ pc' = "back"
    BY <1>5 DEF uthread_exit, Moves, yield, timerVars
  <2>. QED
    BY <2>1, <2>2, TimersKept
<1>. QED
  BY <1>1, <1>2, <1>3, <1>4, <1>5 DEF InLibrary

(* The signal, whomever it was meant for, takes the thread from the         *)
(* coroutine that runs.                                                     *)
LEMMA HandlerKeeps ==
    ASSUME PreemptInv, handler
    PROVE  PreemptInv'
<1>1. UNCHANGED <<left, owner, scanning, todo, killing, lost, untimed, cur, place, ready, sleeping, ticks>>
  BY DEF handler, timerVars
<1>2. \/ outcome' # "up" /\ UNCHANGED <<pc, flag>>
      \/ yield(cur) /\ pc = "user" /\ pc' = "back" /\ UNCHANGED outcome
  <2>1. Harm \in {"none", "segv", "corrupt", "killed"}
        /\ (Harm = "none" => pc = "user")
    BY DEF Harm, PreemptInv, PreemptTypeOK
  <2>. QED
    BY <2>1 DEF handler, yield
<1>3. PreemptTypeOK'
  BY <1>1, <1>2 DEF PreemptInv, PreemptTypeOK, yield
<1>4. NodesOK' /\ ScanOK' /\ FlagOK' /\ TimedWhileRunning'
  BY <1>1, <1>2 DEF PreemptInv, NodesOK, ScanOK, FlagOK, Up, TimedWhileRunning, Preemptable,
                    Running, At
<1>. QED
  BY <1>3, <1>4 DEF PreemptInv

LEMMA TickKeeps ==
    ASSUME PreemptInv, tick
    PROVE  PreemptInv'
<1>1. /\ todo = {} /\ todo' = {n \in Node : left[n] = 0}
      /\ left' = [n \in Node |-> IF left[n] \in {0, Off} THEN Off ELSE left[n] - 1]
      /\ UNCHANGED <<pc, cur, ready, sleeping, place, flag, owner, killing, lost, pending,
                     untimed, outcome>>
      /\ scanning'
  BY DEF tick, Wheel!Tick, coVars, PreemptInv, ScanOK
<1>. ticks' \in Nat
  BY PreemptAssumption DEF tick, PreemptInv, PreemptTypeOK
<1>2. PreemptTypeOK'
  BY <1>1 DEF PreemptInv, PreemptTypeOK, Off
<1>3. NodesOK' /\ ScanOK'
  BY <1>1 DEF PreemptInv, PreemptTypeOK, NodesOK, ScanOK, Off, Up
<1>4. FlagOK' /\ TimedWhileRunning'
  BY <1>1 DEF PreemptInv, FlagOK, Up, TimedWhileRunning, Preemptable, Running, At
<1>. QED
  BY <1>2, <1>3, <1>4 DEF PreemptInv

(* The node of the coroutine that runs is freed only with a signal sent. *)
LEMMA TickNodeKeeps ==
    ASSUME PreemptInv, NEW n \in Node, TickNode(n)
    PROVE  PreemptInv'
<1>1. /\ n \in todo /\ todo' = todo \ {n} /\ killing' = (flag[owner[n]] = 1)
      /\ owner' = [owner EXCEPT ![n] = NULL] /\ Up
      /\ UNCHANGED <<pc, cur, ready, sleeping, place, flag, left, scanning, lost, pending,
                     ticks, untimed, outcome>>
  BY DEF TickNode, WaitsForSignal, coVars
<1>2. PreemptTypeOK'
  BY <1>1 DEF PreemptInv, PreemptTypeOK
<1>3. NodesOK' /\ ScanOK'
  BY <1>1 DEF PreemptInv, PreemptTypeOK, NodesOK, ScanOK, Up
<1>4. FlagOK'
  BY <1>1 DEF PreemptInv, FlagOK, Up
<1>5. TimedWhileRunning'
  <2>. SUFFICES ASSUME NEW u \in Ut, Preemptable(u)'
                PROVE  killing' \/ pending' \/ \E m \in Node \ lost' : owner'[m] = u
    BY DEF TimedWhileRunning
  <2>1. Preemptable(u) /\ flag[u] = 1
    BY <1>1 DEF Preemptable, Running, At, Up, PreemptInv, FlagOK
  <2>2. ~ killing
    BY DEF TickNode
  <2>3. CASE pending
    BY <1>1, <2>3
  <2>4. CASE \E m \in Node \ lost : owner[m] = u
    BY <1>1, <2>1, <2>4 DEF PreemptInv, PreemptTypeOK
  <2>. QED
    BY <2>1, <2>2, <2>3, <2>4 DEF PreemptInv, TimedWhileRunning
<1>. QED
  BY <1>2, <1>3, <1>4, <1>5 DEF PreemptInv

LEMMA KillKeeps ==
    ASSUME PreemptInv, kill \/ TickEnd
    PROVE  PreemptInv'
<1>1. /\ killing => killing' \/ pending'
      /\ pending => pending'
      /\ scanning' \/ todo = {}
      /\ UNCHANGED <<pc, cur, ready, sleeping, place, flag, left, owner, todo, lost, ticks,
                     untimed, outcome>>
  BY DEF kill, TickEnd, coVars, PreemptInv, ScanOK
<1>. QED
  BY <1>1 DEF PreemptInv, PreemptTypeOK, NodesOK, ScanOK, FlagOK, Up, TimedWhileRunning,
              Preemptable, Running, At

LEMMA PreemptStep == PreemptInv /\ [Next]_vars => PreemptInv'
<1>. SUFFICES ASSUME PreemptInv, [Next]_vars PROVE PreemptInv'
  OBVIOUS
<1>1. CASE ResumeReady
  <2>1. Head(ready) \in Ut /\ Tail(ready) \in Seq(Ut)
    BY <1>1 DEF ResumeReady, PreemptInv, PreemptTypeOK
  <2>. QED
    BY <1>1, <2>1, ResumeKeeps DEF ResumeReady, PreemptInv, PreemptTypeOK
<1>2. ASSUME NEW u \in Ut, ResumeDue(u) PROVE PreemptInv'
  <2>1. /\ sleeping' \subseteq Ut /\ ready' \in Seq(Ut) /\ resume(u)
        /\ outcome' = "up" => outcome = "up"
    BY <1>2 DEF ResumeDue, PreemptInv, PreemptTypeOK
  <2>. QED
    BY <2>1, ResumeKeeps
<1>3. CASE Over \/ UNCHANGED vars
  BY <1>3 DEF Over, vars, coVars, timerVars, PreemptInv, PreemptTypeOK, NodesOK, ScanOK, FlagOK, Up,
              TimedWhileRunning, Preemptable, Running, At
<1>. QED
  BY <1>1, <1>2, <1>3, AddTimerKeeps, SchedulerKeeps, CoroutineKeeps, HandlerKeeps,
     TickKeeps, TickNodeKeeps, KillKeeps
     DEF Next, Scheduler, Timer

(* The coroutine that runs is on the way to be preempted: it has a node, or *)
(* a signal is on its way.  For any number of coroutines, nodes and slots,  *)
(* and wherever ticks fall into add_timer.                                  *)
THEOREM TimedHolds == Spec => []TimedWhileRunning
<1>1. PreemptInv => TimedWhileRunning
  BY DEF PreemptInv
<1>. QED
  BY <1>1, PreemptInit, PreemptStep, PTL DEF Spec

(* While the process is up, every node that add_timer has allocated is in   *)
(* the wheel, in the hands of tick, or leaked by tick's unlinking of its    *)
(* neighbour, in one of these only; and neither the wheel nor tick has a    *)
(* node that was freed.                                                     *)
THEOREM NodesHeld == Spec => []NodesOK
<1>1. PreemptInv => NodesOK
  BY DEF PreemptInv
<1>. QED
  BY <1>1, PreemptInit, PreemptStep, PTL DEF Spec

=============================================================================
