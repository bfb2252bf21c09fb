--------------------------- MODULE HandoffProofs ----------------------------
(***************************************************************************)
(* However often the p moves from thread to thread, every coroutine stays  *)
(* in one place, and the process ends once, when no coroutine is left.     *)
(* What two threads do to each other needs a disk operation in between.    *)
(***************************************************************************)
EXTENDS Handoff, FiniteSetTheorems, TLAPS

Pc == {"none", "start", "head", "expired", "round", "poll", "events", "second", "run",
       "free", "free_source", "exit"}

(* Where _sched_run goes on behind _uthread_resume. *)
BackPoint == {"head", "expired", "round", "poll", "events", "second"}

HandoffTypeOK ==
    /\ owner \in Sched /\ idle \in Seq(Sched)
    /\ pc \in [Sched -> Pc] /\ back \in [Sched -> BackPoint]
    /\ cur \in [Sched -> Ut \cup {NULL}]
    /\ ready \in Seq(Ut) /\ sleeping \subseteq Ut /\ waiting \subseteq Ut
    /\ live \subseteq Ut /\ IsFiniteSet(live) /\ n_uthread \in Int
    /\ stage \in [Ut -> {"code", "disk", "switching", "over"}]
    /\ joined \in [Ut -> Ut \cup {NULL}]
    /\ mutex \in Sched \cup {NULL} /\ frees \in Nat

Once(q) == \A i, j \in 1..Len(q) : q[i] = q[j] => i = j
Queued(u) == \E i \in 1..Len(ready) : ready[i] = u
OnThread(u) == \E s \in Sched : cur[s] = u

(* A spare scheduler is spare once, and has no thread. *)
IdleOK == Once(idle) /\ \A i \in 1..Len(idle) : pc[idle[i]] = "none"

(* A thread is inside a coroutine or in its loop, and no coroutine is run by *)
(* two threads.                                                              *)
ThreadsOK ==
    /\ \A s \in Sched : pc[s] = "run" <=> cur[s] # NULL
    /\ \A s, t \in Sched : cur[s] # NULL /\ cur[s] = cur[t] => s = t

(* The coroutines are where a thread, the queue or the tree has them; only  *)
(* one that is switching away may be on its thread and in one of the others.*)
PlacesOK ==
    /\ Once(ready)
    /\ \A u \in Ut :
        /\ u \in live <=> OnThread(u) \/ Queued(u) \/ u \in sleeping
        /\ ~ (Queued(u) /\ u \in sleeping)
        /\ OnThread(u) /\ (Queued(u) \/ u \in sleeping) => stage[u] = "switching"

(* A joiner is in the tree, waits for no fd, and joins one coroutine. *)
JoinsOK ==
    /\ waiting \subseteq sleeping
    /\ \A v \in Ut : joined[v] # NULL => joined[v] \in sleeping \ waiting
    /\ \A v, w \in Ut : joined[v] # NULL /\ joined[v] = joined[w] => v = w

MoveInv == IdleOK /\ ThreadsOK /\ PlacesOK /\ JoinsOK

(* A coroutine is counted until its thread is out of _uthread_free. *)
Freeing == {s \in Sched : pc[s] = "free"}
CountInv == n_uthread = Cardinality(live) + Cardinality(Freeing)

(* The mutex, once taken for the exit, stays with the thread that ends the  *)
(* process, and it is taken when no coroutine is left.                      *)
EndInv ==
    /\ \A s \in Sched : pc[s] \in {"free_source", "exit"} => mutex = s
    /\ mutex # NULL => live = {} /\ pc[mutex] \in {"free_source", "exit"}
    /\ frees = 0 \/ (frees = 1 /\ mutex # NULL /\ pc[mutex] = "exit")

HandoffInv == HandoffTypeOK /\ EndInv /\ (Up => MoveInv /\ CountInv)

-----------------------------------------------------------------------------
(* The queue, the threads and the spare schedulers *)

LEMMA Enqueue ==
    ASSUME ready \in Seq(Ut), NEW x \in Ut, ready' = Append(ready, x), Once(ready),
           ~ Queued(x)
    PROVE  /\ \A u : Queued(u)' <=> (Queued(u) \/ u = x)
           /\ Once(ready)' /\ ready' \in Seq(Ut)
<1>1. /\ Len(ready') = Len(ready) + 1 /\ Len(ready) \in Nat
      /\ ready'[Len(ready) + 1] = x
      /\ \A i \in 1..Len(ready) : ready'[i] = ready[i]
      /\ ready' \in Seq(Ut)
  OBVIOUS
<1>2. \A u : Queued(u)' <=> (Queued(u) \/ u = x)
  BY <1>1 DEF Queued
<1>3. Once(ready)'
  BY <1>1 DEF Once, Queued
<1>. QED
  BY <1>1, <1>2, <1>3

LEMMA TailOnce ==
    ASSUME NEW S, NEW q \in Seq(S), q # <<>>, Once(q)
    PROVE  /\ Head(q) \in S /\ Tail(q) \in Seq(S) /\ Once(Tail(q))
           /\ \A i \in 1..Len(Tail(q)) : /\ Tail(q)[i] # Head(q)
                                         /\ \E j \in 1..Len(q) : Tail(q)[i] = q[j]
           /\ \E i \in 1..Len(q) : q[i] = Head(q)
           /\ \A j \in 1..Len(q) :
                q[j] = Head(q) \/ \E i \in 1..Len(Tail(q)) : Tail(q)[i] = q[j]
<1>1. /\ Len(q) \in Nat \ {0} /\ Len(Tail(q)) = Len(q) - 1
      /\ Head(q) = q[1] /\ Head(q) \in S /\ Tail(q) \in Seq(S)
      /\ \A i \in 1..(Len(q) - 1) : Tail(q)[i] = q[i + 1]
  OBVIOUS
<1>2. \A i \in 1..(Len(q) - 1) : i + 1 \in 1..Len(q) /\ i + 1 # 1
  BY <1>1
<1>3. Once(Tail(q))
  BY <1>1, <1>2 DEF Once
<1>4. ASSUME NEW i \in 1..Len(Tail(q))
      PROVE  Tail(q)[i] # Head(q) /\ \E j \in 1..Len(q) : Tail(q)[i] = q[j]
  BY <1>1, <1>2 DEF Once
<1>5. ASSUME NEW j \in 1..Len(q), q[j] # Head(q)
      PROVE  \E i \in 1..Len(Tail(q)) : Tail(q)[i] = q[j]
  <2>1. j - 1 \in 1..Len(Tail(q)) /\ Tail(q)[j - 1] = q[j]
    BY <1>1, <1>5
  <2>. QED
    BY <2>1
<1>. QED
  BY <1>1, <1>3, <1>4, <1>5

LEMMA Dequeue ==
    ASSUME ready \in Seq(Ut), ready # <<>>, ready' = Tail(ready), Once(ready)
    PROVE  /\ \A u : Queued(u)' <=> (Queued(u) /\ u # Head(ready))
           /\ Queued(Head(ready)) /\ Head(ready) \in Ut
           /\ Once(ready)' /\ ready' \in Seq(Ut)
<1>1. /\ Head(ready) \in Ut /\ ready' \in Seq(Ut) /\ Once(ready')
      /\ \A i \in 1..Len(ready') : /\ ready'[i] # Head(ready)
                                   /\ \E j \in 1..Len(ready) : ready'[i] = ready[j]
      /\ \E i \in 1..Len(ready) : ready[i] = Head(ready)
      /\ \A j \in 1..Len(ready) :
            ready[j] = Head(ready) \/ \E i \in 1..Len(ready') : ready'[i] = ready[j]
  BY TailOnce
<1>2. \A u : Queued(u)' <=> (Queued(u) /\ u # Head(ready))
  BY <1>1 DEF Queued
<1>. QED
  BY <1>1, <1>2 DEF Queued, Once

(* The step of a thread concerns no spare scheduler. *)
LEMMA IdleKept ==
    ASSUME HandoffTypeOK, IdleOK, NEW s \in Sched, pc[s] # "none", NEW x,
           pc' = [pc EXCEPT ![s] = x], UNCHANGED idle
    PROVE  IdleOK'
<1>1. \A i \in 1..Len(idle) : idle[i] \in Sched
  BY DEF HandoffTypeOK
<1>. QED
  BY <1>1 DEF IdleOK, Once, HandoffTypeOK

LEMMA ThreadTakes ==
    ASSUME HandoffTypeOK, ThreadsOK, NEW s \in Sched, NEW u \in Ut, pc[s] # "run",
           ~ OnThread(u), cur' = [cur EXCEPT ![s] = u], pc' = [pc EXCEPT ![s] = "run"]
    PROVE  ThreadsOK' /\ \A v \in Ut : OnThread(v)' <=> (OnThread(v) \/ v = u)
<1>1. cur[s] = NULL /\ u # NULL
  BY HandoffAssumption DEF ThreadsOK
<1>2. cur'[s] = u /\ \A t \in Sched \ {s} : cur'[t] = cur[t] /\ cur[t] # u
  BY DEF HandoffTypeOK, OnThread
<1>3. pc'[s] = "run" /\ \A t \in Sched \ {s} : pc'[t] = pc[t]
  BY DEF HandoffTypeOK
<1>4. ThreadsOK'
  BY <1>1, <1>2, <1>3 DEF ThreadsOK
<1>5. ASSUME NEW v \in Ut PROVE OnThread(v)' <=> (OnThread(v) \/ v = u)
  BY <1>1, <1>2, HandoffAssumption DEF OnThread
<1>. QED
  BY <1>4, <1>5

LEMMA ThreadLeaves ==
    ASSUME HandoffTypeOK, ThreadsOK, NEW s \in Sched, NEW u \in Ut, cur[s] = u,
           cur' = [cur EXCEPT ![s] = NULL], NEW x, x # "run",
           pc' = [pc EXCEPT ![s] = x]
    PROVE  ThreadsOK' /\ \A v \in Ut : OnThread(v)' <=> (OnThread(v) /\ v # u)
<1>1. u # NULL
  BY HandoffAssumption
<1>2. cur'[s] = NULL /\ \A t \in Sched \ {s} : cur'[t] = cur[t] /\ cur[t] # u
  BY <1>1 DEF HandoffTypeOK, ThreadsOK
<1>3. pc'[s] = x /\ \A t \in Sched \ {s} : pc'[t] = pc[t]
  BY DEF HandoffTypeOK
<1>4. ThreadsOK'
  BY <1>1, <1>2, <1>3 DEF ThreadsOK
<1>5. ASSUME NEW v \in Ut PROVE OnThread(v)' <=> (OnThread(v) /\ v # u)
  BY <1>1, <1>2, HandoffAssumption DEF OnThread
<1>. QED
  BY <1>4, <1>5

(* Nothing but the place of a thread in its loop changes. *)
LEMMA LoopMoves ==
    ASSUME HandoffTypeOK, MoveInv, NEW s \in Sched, pc[s] \notin {"run", "none"},
           NEW x, x # "run", pc' = [pc EXCEPT ![s] = x],
           UNCHANGED <<idle, cur, ready, sleeping, waiting, live, stage, joined>>
    PROVE  MoveInv'
<1>1. IdleOK'
  BY IdleKept DEF MoveInv
<1>2. ThreadsOK'
  BY DEF MoveInv, ThreadsOK, HandoffTypeOK
<1>3. PlacesOK' /\ JoinsOK'
  BY DEF MoveInv, PlacesOK, JoinsOK, OnThread, Queued, Once
<1>. QED
  BY <1>1, <1>2, <1>3 DEF MoveInv

(* A thread takes the coroutine that it was woken for out of the queue or   *)
(* out of the trees, unless another thread still has it.                    *)
LEMMA ResumeMoves ==
    ASSUME HandoffTypeOK, MoveInv, Up, NEW s \in Sched, NEW u \in Ut, NEW from,
           pc[s] \notin {"run", "none"}, Resume(s, u, from), Up',
           UNCHANGED <<idle, live, stage, joined>>,
           \/ /\ ready # <<>> /\ u = Head(ready) /\ ready' = Tail(ready)
              /\ UNCHANGED <<sleeping, waiting>>
           \/ /\ u \in waiting /\ sleeping' = sleeping \ {u} /\ waiting' = waiting \ {u}
              /\ UNCHANGED ready
    PROVE  MoveInv'
<1>1. ~ OnThread(u) /\ cur' = [cur EXCEPT ![s] = u] /\ pc' = [pc EXCEPT ![s] = "run"]
  BY DEF Resume, GoTo, Up, OnThread
<1>2. ThreadsOK' /\ \A v \in Ut : OnThread(v)' <=> (OnThread(v) \/ v = u)
  BY <1>1, ThreadTakes DEF MoveInv
<1>3. IdleOK'
  BY <1>1, IdleKept DEF MoveInv
<1>4. CASE ready # <<>> /\ u = Head(ready) /\ ready' = Tail(ready)
           /\ UNCHANGED <<sleeping, waiting>>
  <2>1. /\ \A v : Queued(v)' <=> (Queued(v) /\ v # u)
        /\ Queued(u) /\ Once(ready)'
    BY <1>4, Dequeue DEF HandoffTypeOK, MoveInv, PlacesOK
  <2>2. PlacesOK'
    BY <1>2, <1>4, <2>1 DEF MoveInv, PlacesOK
  <2>3. JoinsOK'
    BY <1>4 DEF MoveInv, JoinsOK
  <2>. QED
    BY <1>2, <1>3, <2>2, <2>3 DEF MoveInv
<1>5. CASE u \in waiting /\ sleeping' = sleeping \ {u} /\ waiting' = waiting \ {u}
           /\ UNCHANGED ready
  <2>1. Once(ready)' /\ \A v : Queued(v)' <=> Queued(v)
    BY <1>5 DEF MoveInv, PlacesOK, Queued, Once
  <2>2. PlacesOK'
    BY <1>2, <1>5, <2>1 DEF MoveInv, PlacesOK, JoinsOK
  <2>3. JoinsOK'
    BY <1>5 DEF MoveInv, JoinsOK
  <2>. QED
    BY <1>2, <1>3, <2>2, <2>3 DEF MoveInv
<1>. QED
  BY <1>4, <1>5

(* A coroutine gives its thread back, and stays in the tree or is queued. *)
LEMMA LeaveMoves ==
    ASSUME HandoffTypeOK, MoveInv, NEW s \in Sched, NEW u \in Ut, cur[s] = u, Leave(s),
           \/ u \in sleeping /\ UNCHANGED ready
           \/ ~ Queued(u) /\ u \notin sleeping /\ ready' = Append(ready, u),
           \A v \in Ut \ {u} : stage'[v] = stage[v],
           UNCHANGED <<idle, sleeping, waiting, live, joined>>
    PROVE  MoveInv'
<1>1. /\ cur' = [cur EXCEPT ![s] = NULL] /\ pc' = [pc EXCEPT ![s] = Onward(s)]
      /\ Onward(s) # "run" /\ pc[s] # "none"
  BY HandoffAssumption
     DEF Leave, GoTo, Onward, HandoffTypeOK, BackPoint, MoveInv, ThreadsOK
<1>2. ThreadsOK' /\ \A v \in Ut : OnThread(v)' <=> (OnThread(v) /\ v # u)
  BY <1>1, ThreadLeaves DEF MoveInv
<1>3. IdleOK'
  BY <1>1, IdleKept DEF MoveInv
<1>4. JoinsOK'
  BY DEF MoveInv, JoinsOK
<1>5. OnThread(u)
  BY DEF OnThread
<1>6. CASE u \in sleeping /\ UNCHANGED ready
  <2>1. Once(ready)' /\ \A v : Queued(v)' <=> Queued(v)
    BY <1>6 DEF MoveInv, PlacesOK, Queued, Once
  <2>2. PlacesOK'
    BY <1>2, <1>5, <1>6, <2>1 DEF MoveInv, PlacesOK
  <2>. QED
    BY <1>2, <1>3, <1>4, <2>2 DEF MoveInv
<1>7. CASE ~ Queued(u) /\ u \notin sleeping /\ ready' = Append(ready, u)
  <2>1. Once(ready)' /\ \A v : Queued(v)' <=> (Queued(v) \/ v = u)
    BY <1>7, Enqueue DEF MoveInv, PlacesOK, HandoffTypeOK
  <2>2. PlacesOK'
    BY <1>2, <1>5, <1>7, <2>1 DEF MoveInv, PlacesOK
  <2>. QED
    BY <1>2, <1>3, <1>4, <2>2 DEF MoveInv
<1>. QED
  BY <1>6, <1>7

(* A coroutine in its own code has a thread and is nowhere else. *)
LEMMA RunsFacts ==
    ASSUME HandoffTypeOK, MoveInv, NEW s \in Sched, NEW u \in Ut, Runs(s, u)
    PROVE  /\ Up /\ cur[s] = u /\ pc[s] = "run" /\ stage[u] = "code"
           /\ OnThread(u) /\ ~ Queued(u) /\ u \notin sleeping /\ u \in live
           /\ \A v \in Ut : joined[v] # u
<1>1. Up /\ cur[s] = u /\ pc[s] = "run" /\ stage[u] = "code" /\ OnThread(u)
  BY DEF Runs, At, OnThread
<1>2. ~ Queued(u) /\ u \notin sleeping /\ u \in live
  BY <1>1 DEF MoveInv, PlacesOK
<1>3. \A v \in Ut : joined[v] # u
  BY <1>2, HandoffAssumption DEF MoveInv, JoinsOK
<1>. QED
  BY <1>1, <1>2, <1>3

LEMMA PreemptedMoves ==
    ASSUME HandoffTypeOK, MoveInv, NEW s \in Sched, NEW u \in Ut, Preempted(s, u), Up'
    PROVE  MoveInv'
<1>1. /\ cur[s] = u /\ stage[u] # "switching" /\ ready' = Append(ready, u) /\ Leave(s)
      /\ UNCHANGED <<idle, sleeping, waiting, live, stage, joined>>
  BY DEF Preempted, Breaks, Up, utVars
<1>2. ~ Queued(u) /\ u \notin sleeping
  BY <1>1 DEF MoveInv, PlacesOK, OnThread
<1>. QED
  BY <1>1, <1>2, LeaveMoves

LEMMA SwitchMoves ==
    ASSUME HandoffTypeOK, MoveInv, NEW s \in Sched, NEW u \in Ut, Switch(s, u), Up'
    PROVE  MoveInv'
<1>1. /\ cur[s] = u /\ \A v \in Ut \ {u} : stage'[v] = stage[v]
      /\ UNCHANGED <<idle, sleeping, waiting, live, joined>>
  BY DEF Switch, HandoffTypeOK
<1>2. Leave(s) /\ \/ u \in sleeping /\ UNCHANGED ready
                  \/ ~ (Times(u) > 0) /\ u \notin sleeping /\ ready' = Append(ready, u)
  BY DEF Switch, SleepingBit, Breaks, Up
<1>3. ASSUME Queued(u) PROVE Times(u) > 0
  <2>1. PICK i \in 1..Len(ready) : ready[i] = u
    BY <1>3 DEF Queued
  <2>2. IsFiniteSet(1..Len(ready))
    BY FS_Interval DEF HandoffTypeOK
  <2>3. IsFiniteSet({k \in 1..Len(ready) : ready[k] = u})
    BY <2>2, FS_Subset
  <2>4. Times(u) # 0 /\ Times(u) \in Nat
    BY <2>1, <2>3, FS_EmptySet, FS_CardinalityType DEF Times
  <2>. QED
    BY <2>4
<1>. QED
  BY <1>1, <1>2, <1>3, LeaveMoves

LEMMA CreateMoves ==
    ASSUME HandoffTypeOK, MoveInv, NEW s \in Sched, NEW u \in Ut, uthread_create(s, u), Up'
    PROVE  MoveInv'
<1>1. PICK v \in Fresh : live' = live \cup {v} /\ ready' = Append(ready, v)
  BY DEF uthread_create, Breaks, Up
<1>2. UNCHANGED <<idle, pc, cur, sleeping, waiting, stage, joined>>
  BY DEF uthread_create
<1>3. v \in Ut /\ ~ OnThread(v) /\ ~ Queued(v) /\ v \notin sleeping
  BY <1>1 DEF Fresh, MoveInv, PlacesOK
<1>4. Once(ready)' /\ \A w : Queued(w)' <=> (Queued(w) \/ w = v)
  BY <1>1, <1>3, Enqueue DEF MoveInv, PlacesOK, HandoffTypeOK
<1>5. \A w : OnThread(w)' <=> OnThread(w)
  BY <1>2 DEF OnThread
<1>6. PlacesOK'
  BY <1>1, <1>2, <1>3, <1>4, <1>5 DEF MoveInv, PlacesOK
<1>. QED
  BY <1>2, <1>6 DEF MoveInv, IdleOK, Once, ThreadsOK, JoinsOK

(* A coroutine goes into the tree, where nobody else has it. *)
LEMMA SleepMoves ==
    ASSUME HandoffTypeOK, MoveInv, NEW s \in Sched, NEW u \in Ut, Runs(s, u),
           sleeping' = sleeping \cup {u}, stage' = [stage EXCEPT ![u] = "switching"],
           UNCHANGED <<idle, pc, cur, ready, live>>,
           \/ waiting' = waiting \cup {u} /\ UNCHANGED joined
           \/ \E v \in Ut : joined[v] = NULL /\ joined' = [joined EXCEPT ![v] = u]
                            /\ UNCHANGED waiting
    PROVE  MoveInv'
<1>1. /\ OnThread(u) /\ ~ Queued(u) /\ u \notin sleeping /\ u \in live
      /\ \A v \in Ut : joined[v] # u
  BY RunsFacts
<1>2. /\ \A w : OnThread(w)' <=> OnThread(w)
      /\ \A w : Queued(w)' <=> Queued(w)
      /\ Once(ready)'
  BY DEF OnThread, Queued, Once, MoveInv, PlacesOK
<1>3. stage'[u] = "switching" /\ \A v \in Ut \ {u} : stage'[v] = stage[v]
  BY DEF HandoffTypeOK
<1>4. PlacesOK'
  BY <1>1, <1>2, <1>3 DEF MoveInv, PlacesOK
<1>5. JoinsOK'
  <2>1. u \notin waiting
    BY <1>1 DEF MoveInv, JoinsOK
  <2>2. CASE waiting' = waiting \cup {u} /\ UNCHANGED joined
    BY <1>1, <2>1, <2>2 DEF MoveInv, JoinsOK
  <2>3. ASSUME NEW v \in Ut, joined[v] = NULL, joined' = [joined EXCEPT ![v] = u],
               UNCHANGED waiting
        PROVE  JoinsOK'
    <3>1. joined'[v] = u /\ \A w \in Ut \ {v} : joined'[w] = joined[w]
      BY <2>3 DEF HandoffTypeOK
    <3>. QED
      BY <1>1, <2>1, <2>3, <3>1 DEF MoveInv, JoinsOK
  <2>. QED
    BY <2>2, <2>3
<1>. QED
  BY <1>4, <1>5 DEF MoveInv, IdleOK, Once, ThreadsOK

(* The end of a coroutine takes its joiner from the tree into the queue. *)
LEMMA ExitMoves ==
    ASSUME HandoffTypeOK, MoveInv, NEW s \in Sched, NEW u \in Ut, uthread_exit(s, u)
    PROVE  MoveInv'
<1>. DEFINE j == joined[u]
<1>1. /\ Runs(s, u) /\ live' = live \ {u} /\ joined' = [joined EXCEPT ![u] = NULL]
      /\ sleeping' = sleeping \ {j} /\ ready' = IF j = NULL THEN ready ELSE Append(ready, j)
      /\ cur' = [cur EXCEPT ![s] = NULL] /\ pc' = [pc EXCEPT ![s] = "free"]
      /\ stage' = [stage EXCEPT ![u] = "over"] /\ UNCHANGED <<idle, waiting>>
  BY DEF uthread_exit, GoTo
<1>2. /\ OnThread(u) /\ ~ Queued(u) /\ u \notin sleeping /\ u \in live
      /\ cur[s] = u /\ pc[s] = "run"
  BY <1>1, RunsFacts
<1>3. ThreadsOK' /\ \A v \in Ut : OnThread(v)' <=> (OnThread(v) /\ v # u)
  BY <1>1, <1>2, ThreadLeaves DEF MoveInv
<1>4. IdleOK'
  BY <1>1, <1>2, IdleKept DEF MoveInv
<1>5. \A v \in Ut \ {u} : stage'[v] = stage[v] /\ joined'[v] = joined[v]
  BY <1>1 DEF HandoffTypeOK
<1>6. joined'[u] = NULL
  BY <1>1 DEF HandoffTypeOK
<1>7. j # NULL => j \in Ut /\ j \in sleeping /\ j \notin waiting /\ j # u /\ ~ Queued(j)
  BY <1>2 DEF HandoffTypeOK, MoveInv, JoinsOK, PlacesOK
<1>8. JoinsOK'
  BY <1>1, <1>5, <1>6, <1>7, HandoffAssumption DEF MoveInv, JoinsOK, HandoffTypeOK
<1>9. Once(ready)' /\ \A v \in Ut : Queued(v)' <=> (Queued(v) \/ v = j)
  <2>1. CASE j = NULL
    BY <1>1, <2>1, HandoffAssumption DEF MoveInv, PlacesOK, Once, Queued
  <2>2. CASE j # NULL
    BY <1>1, <1>7, <2>2, Enqueue DEF HandoffTypeOK, MoveInv, PlacesOK
  <2>. QED
    BY <2>1, <2>2
<1>. HIDE DEF j
<1>10. PlacesOK'
  BY <1>1, <1>2, <1>3, <1>5, <1>7, <1>9, HandoffAssumption DEF MoveInv, PlacesOK
<1>. QED
  BY <1>3, <1>4, <1>8, <1>10 DEF MoveInv

(* A disk operation begins, with or without a new thread for the p, or ends. *)
LEMMA DiskMoves ==
    ASSUME HandoffTypeOK, MoveInv, NEW s \in Sched, NEW u \in Ut,
           disk_io(s, u) \/ disk_return(s, u), Up'
    PROVE  MoveInv'
<1>1. /\ OnThread(u) /\ stage[u] \in {"code", "disk"}
      /\ \A v \in Ut \ {u} : stage'[v] = stage[v]
      /\ UNCHANGED <<cur, ready, sleeping, waiting, live, joined>>
  BY DEF disk_io, disk_return, Runs, At, OnThread, pVars, HandoffTypeOK
<1>2. ~ Queued(u) /\ u \notin sleeping
  BY <1>1 DEF MoveInv, PlacesOK
<1>3. PlacesOK' /\ JoinsOK'
  <2>1. /\ \A w : OnThread(w)' <=> OnThread(w)
        /\ \A w : Queued(w)' <=> Queued(w)
        /\ Once(ready)'
    BY <1>1 DEF OnThread, Queued, Once, MoveInv, PlacesOK
  <2>. QED
    BY <1>1, <1>2, <2>1 DEF MoveInv, PlacesOK, JoinsOK
<1>4. CASE UNCHANGED <<idle, pc>>
  BY <1>1, <1>3, <1>4 DEF MoveInv, IdleOK, Once, ThreadsOK
<1>5. CASE idle # <<>> /\ idle' = Tail(idle) /\ pc' = [pc EXCEPT ![Head(idle)] = "start"]
  <2>1. /\ Head(idle) \in Sched /\ Once(idle')
        /\ \A i \in 1..Len(idle') : /\ idle'[i] # Head(idle)
                                    /\ \E j \in 1..Len(idle) : idle'[i] = idle[j]
        /\ \E i \in 1..Len(idle) : idle[i] = Head(idle)
    BY <1>5, TailOnce DEF MoveInv, IdleOK, HandoffTypeOK
  <2>2. pc[Head(idle)] = "none"
    BY <2>1 DEF MoveInv, IdleOK
  <2>3. \A t \in Sched \ {Head(idle)} : pc'[t] = pc[t]
    BY <1>5 DEF HandoffTypeOK
  <2>4. \A i \in 1..Len(idle) : idle[i] \in Sched
    BY DEF HandoffTypeOK
  <2>5. ASSUME NEW i \in 1..Len(idle') PROVE pc'[idle'[i]] = "none"
    <3>1. PICK k \in 1..Len(idle) : idle'[i] = idle[k]
      BY <2>1
    <3>. QED
      BY <2>1, <2>3, <2>4, <3>1 DEF MoveInv, IdleOK
  <2>6. IdleOK'
    BY <2>1, <2>5 DEF IdleOK, Once
  <2>7. ThreadsOK'
    BY <1>1, <1>5, <2>1, <2>2, <2>3 DEF MoveInv, ThreadsOK, HandoffTypeOK
  <2>. QED
    BY <1>3, <2>6, <2>7 DEF MoveInv
<1>. QED
  BY <1>4, <1>5 DEF disk_io, disk_return, NewThread, GoTo, Breaks, Up

-----------------------------------------------------------------------------
(* The steps one by one *)

(* What the threads do to their loops, in which no coroutine moves. *)
LoopStep(s) ==
    \/ Start(s) \/ LoopHead(s) \/ Poll(s) \/ SecondEvent(s) \/ LoopTail(s) \/ End(s)
    \/ uthread_free(s) \/ NoneExpired(s) \/ Spin(s)

LEMMA LoopStepMoves ==
    ASSUME HandoffTypeOK, MoveInv, NEW s \in Sched, LoopStep(s), Up'
    PROVE  MoveInv'
<1>1. /\ pc[s] \notin {"run", "none"}
      /\ UNCHANGED <<idle, cur, ready, sleeping, waiting, live, stage, joined>>
  BY DEF LoopStep, Start, LoopHead, Poll, SecondEvent, LoopTail, End, uthread_free,
         NoneExpired, Spin, At, pVars, utVars, vars
<1>2. CASE UNCHANGED pc
  BY <1>1, <1>2
     DEF MoveInv, IdleOK, Once, ThreadsOK, PlacesOK, JoinsOK, OnThread, Queued
<1>3. ASSUME NEW x, x # "run", pc' = [pc EXCEPT ![s] = x] PROVE MoveInv'
  BY <1>1, <1>3, LoopMoves
<1>4. back[s] # "run"
  BY DEF HandoffTypeOK, BackPoint
<1>. QED
  BY <1>2, <1>3, <1>4
     DEF LoopStep, Start, LoopHead, Poll, SecondEvent, LoopTail, End, uthread_free,
         NoneExpired, Spin, GoTo, vars

LEMMA ResumeStepMoves ==
    ASSUME HandoffTypeOK, MoveInv, NEW s \in Sched, Up',
           RunReady(s) \/ HandleEvents(s) \/ \E u \in Ut : ResumeExpired(s, u)
    PROVE  MoveInv'
<1>1. Up /\ pc[s] \notin {"run", "none"} /\ UNCHANGED <<idle, live, stage, joined>>
  BY DEF RunReady, HandleEvents, ResumeExpired, At, utVars
<1>2. CASE RunReady(s)
  <2>1. CASE ready # <<>> /\ ready' = Tail(ready) /\ Resume(s, Head(ready), "round")
    BY <1>1, <1>2, <2>1, ResumeMoves DEF RunReady, HandoffTypeOK
  <2>2. CASE GoTo(s, "poll") /\ UNCHANGED <<ready, cur>>
    BY <1>1, <1>2, <2>2, LoopMoves DEF RunReady, GoTo
  <2>. QED
    BY <1>2, <2>1, <2>2 DEF RunReady
<1>3. ASSUME NEW u \in Ut, ResumeExpired(s, u) PROVE MoveInv'
  BY <1>1, <1>3, ResumeMoves DEF ResumeExpired
<1>4. CASE HandleEvents(s)
  <2>1. ASSUME NEW u, u \in waiting, sleeping' = sleeping \ {u}, waiting' = waiting \ {u},
               NEW from, Resume(s, u, from)
        PROVE  MoveInv'
    BY <1>1, <1>4, <2>1, ResumeMoves DEF HandleEvents, HandoffTypeOK
  <2>2. CASE UNCHANGED <<pc, cur, sleeping, waiting>>
    BY <1>1, <1>4, <2>2
       DEF HandleEvents, MoveInv, IdleOK, Once, ThreadsOK, PlacesOK, JoinsOK, OnThread,
           Queued
  <2>3. CASE GoTo(s, "head") /\ UNCHANGED <<cur, sleeping, waiting>>
    BY <1>1, <1>4, <2>3, LoopMoves DEF HandleEvents, GoTo
  <2>. QED
    BY <1>4, <2>1, <2>2, <2>3 DEF HandleEvents
<1>. QED
  BY <1>2, <1>3, <1>4

LEMMA CoroutineMoves ==
    ASSUME HandoffTypeOK, MoveInv, NEW s \in Sched, NEW u \in Ut, Coroutine(s, u), Up'
    PROVE  MoveInv'
<1>1. CASE register_event(s, u)
  <2>1. /\ Runs(s, u) /\ sleeping' = sleeping \cup {u} /\ waiting' = waiting \cup {u}
        /\ stage' = [stage EXCEPT ![u] = "switching"]
        /\ UNCHANGED <<idle, pc, cur, ready, live, joined>>
    BY <1>1 DEF register_event, Breaks, Up
  <2>. QED
    BY <2>1, SleepMoves
<1>2. ASSUME NEW v \in Ut, uthread_join(s, u, v) PROVE MoveInv'
  <2>1. /\ Runs(s, u) /\ sleeping' = sleeping \cup {u} /\ joined[v] = NULL
        /\ stage' = [stage EXCEPT ![u] = "switching"]
        /\ joined' = [joined EXCEPT ![v] = u]
        /\ UNCHANGED <<idle, pc, cur, ready, live, waiting>>
    BY <1>2 DEF uthread_join
  <2>. QED
    BY <2>1, SleepMoves
<1>. QED
  BY <1>1, <1>2, CreateMoves, ExitMoves, DiskMoves DEF Coroutine

LEMMA MoveStep ==
    ASSUME HandoffTypeOK, Up => MoveInv, [Next]_vars
    PROVE  Up' => MoveInv'
<1>. SUFFICES ASSUME Up' PROVE MoveInv'
  OBVIOUS
<1>1. CASE UNCHANGED vars
  BY <1>1 DEF vars, pVars, utVars, Up, MoveInv, IdleOK, Once, ThreadsOK, PlacesOK, JoinsOK,
              OnThread, Queued
<1>2. CASE Next
  <2>1. Up
    BY <1>2
       DEF Next, Scheduler, Coroutine, Start, LoopHead, RunReady, Poll, HandleEvents,
           SecondEvent, LoopTail, End, uthread_free, NoneExpired, Spin, ResumeExpired,
           Preempted, Switch, uthread_create, register_event, uthread_exit, disk_io,
           uthread_join, disk_return, Runs, At, Over, Up, vars
  <2>. QED
    BY <1>2, <2>1, LoopStepMoves, ResumeStepMoves, PreemptedMoves, SwitchMoves,
       CoroutineMoves, DiskMoves
       DEF Next, Scheduler, LoopStep, Over
<1>. QED
  BY <1>1, <1>2

-----------------------------------------------------------------------------
(* Types *)

LEMMA LoopStepType ==
    ASSUME HandoffTypeOK, NEW s \in Sched, LoopStep(s)
    PROVE  HandoffTypeOK'
<1>1. CASE Start(s) \/ LoopHead(s) \/ Poll(s) \/ SecondEvent(s) \/ NoneExpired(s)
  BY <1>1 DEF Start, LoopHead, Poll, SecondEvent, NoneExpired, GoTo, pVars, utVars,
              endVars, HandoffTypeOK, Pc
<1>2. CASE LoopTail(s)
  BY <1>2 DEF LoopTail, LockForExit, GoTo, pVars, utVars, HandoffTypeOK, Pc
<1>3. CASE End(s)
  BY <1>3 DEF End, GoTo, pVars, utVars, HandoffTypeOK, Pc
<1>4. CASE uthread_free(s)
  BY <1>4 DEF uthread_free, GoTo, pVars, endVars, HandoffTypeOK, Pc, BackPoint
<1>5. CASE Spin(s)
  BY <1>5 DEF Spin, vars, pVars, utVars, endVars, HandoffTypeOK
<1>. QED
  BY <1>1, <1>2, <1>3, <1>4, <1>5 DEF LoopStep

LEMMA ResumeStepType ==
    ASSUME HandoffTypeOK, NEW s \in Sched,
           RunReady(s) \/ HandleEvents(s) \/ \E u \in Ut : ResumeExpired(s, u)
    PROVE  HandoffTypeOK'
<1>1. /\ sleeping' \subseteq Ut /\ waiting' \subseteq Ut /\ ready' \in Seq(Ut)
      /\ UNCHANGED <<owner, idle, utVars, endVars>>
  <2>1. ready # <<>> => Tail(ready) \in Seq(Ut)
    BY DEF HandoffTypeOK
  <2>. QED
    BY <2>1 DEF RunReady, HandleEvents, ResumeExpired, HandoffTypeOK
<1>2. ASSUME NEW u \in Ut, NEW from \in BackPoint, Resume(s, u, from)
      PROVE  /\ pc' \in [Sched -> Pc] /\ cur' \in [Sched -> Ut \cup {NULL}]
             /\ back' \in [Sched -> BackPoint]
  BY <1>2 DEF Resume, GoTo, HandoffTypeOK, Pc
<1>3. ASSUME NEW x \in {"poll", "head"}, GoTo(s, x) \/ UNCHANGED pc, UNCHANGED <<cur, back>>
      PROVE  /\ pc' \in [Sched -> Pc] /\ cur' \in [Sched -> Ut \cup {NULL}]
             /\ back' \in [Sched -> BackPoint]
  BY <1>3 DEF GoTo, HandoffTypeOK, Pc
<1>4. /\ pc' \in [Sched -> Pc] /\ cur' \in [Sched -> Ut \cup {NULL}]
      /\ back' \in [Sched -> BackPoint]
  <2>1. CASE RunReady(s)
    <3>1. ready # <<>> => Head(ready) \in Ut
      BY DEF HandoffTypeOK
    <3>. QED
      BY <1>2, <1>3, <2>1, <3>1 DEF RunReady, BackPoint
  <2>2. CASE HandleEvents(s)
    BY <1>2, <1>3, <2>2 DEF HandleEvents, BackPoint, HandoffTypeOK
  <2>3. CASE \E u \in Ut : ResumeExpired(s, u)
    BY <1>2, <2>3 DEF ResumeExpired, BackPoint
  <2>. QED
    BY <2>1, <2>2, <2>3
<1>. QED
  BY <1>1, <1>4 DEF HandoffTypeOK, utVars, endVars

LEMMA LeaveType ==
    ASSUME HandoffTypeOK, NEW s \in Sched
    PROVE  /\ Onward(s) \in BackPoint
           /\ Leave(s) => /\ pc' \in [Sched -> Pc] /\ cur' \in [Sched -> Ut \cup {NULL}]
                          /\ back' \in [Sched -> BackPoint]
<1>1. Onward(s) \in BackPoint
  BY DEF Onward, HandoffTypeOK, BackPoint
<1>. QED
  BY <1>1 DEF Leave, GoTo, HandoffTypeOK, Pc, BackPoint

LEMMA CoroutineType ==
    ASSUME HandoffTypeOK, NEW s \in Sched, NEW u \in Ut,
           Coroutine(s, u) \/ Preempted(s, u) \/ Switch(s, u) \/ disk_return(s, u)
    PROVE  HandoffTypeOK'
<1>1. CASE Preempted(s, u)
  <2>1. Leave(s) \/ UNCHANGED <<pc, cur, back>>
    BY <1>1 DEF Preempted
  <2>2. /\ UNCHANGED ready \/ ready' = Append(ready, u)
        /\ UNCHANGED <<owner, idle, sleeping, waiting, utVars, endVars>>
    BY <1>1 DEF Preempted
  <2>3. ready \in Seq(Ut) /\ Append(ready, u) \in Seq(Ut)
    BY DEF HandoffTypeOK
  <2>4. ready' \in Seq(Ut)
    BY <2>2, <2>3
  <2>. QED
    BY <2>1, <2>2, <2>4, LeaveType DEF HandoffTypeOK, utVars, endVars
<1>2. CASE Switch(s, u)
  <2>1. Leave(s) \/ UNCHANGED <<pc, cur, back>>
    BY <1>2 DEF Switch
  <2>2. /\ UNCHANGED ready \/ ready' = Append(ready, u)
        /\ stage' = [stage EXCEPT ![u] = "code"]
        /\ UNCHANGED <<owner, idle, sleeping, waiting, live, n_uthread, joined, endVars>>
    BY <1>2 DEF Switch
  <2>3. stage' \in [Ut -> {"code", "disk", "switching", "over"}] /\ ready' \in Seq(Ut)
    BY <2>2 DEF HandoffTypeOK
  <2>. QED
    BY <2>1, <2>2, <2>3, LeaveType DEF HandoffTypeOK, endVars
<1>3. CASE disk_return(s, u)
  BY <1>3 DEF disk_return, HandoffTypeOK, pVars, endVars
<1>4. CASE uthread_create(s, u)
  <2>1. ASSUME NEW v \in Fresh, live' = live \cup {v}, ready' = Append(ready, v)
        PROVE  live' \subseteq Ut /\ IsFiniteSet(live') /\ ready' \in Seq(Ut)
    BY <2>1, FS_AddElement DEF Fresh, HandoffTypeOK
  <2>2. /\ live' \subseteq Ut /\ IsFiniteSet(live') /\ ready' \in Seq(Ut)
        /\ n_uthread' \in Int
    <3>0. n_uthread' \in Int
      BY <1>4 DEF uthread_create, HandoffTypeOK
    <3>1. CASE \E v \in Fresh : live' = live \cup {v} /\ ready' = Append(ready, v)
      BY <2>1, <3>0, <3>1
    <3>2. CASE UNCHANGED <<live, ready, n_uthread>>
      BY <3>2 DEF HandoffTypeOK
    <3>. QED
      BY <1>4, <3>1, <3>2 DEF uthread_create
  <2>. QED
    BY <1>4, <2>2 DEF uthread_create, HandoffTypeOK, endVars
<1>5. CASE register_event(s, u) \/ \E v \in Ut : uthread_join(s, u, v)
  <2>1. /\ stage' \in {stage, [stage EXCEPT ![u] = "switching"]}
        /\ sleeping' \in {sleeping, sleeping \cup {u}}
        /\ waiting' \in {waiting, waiting \cup {u}}
        /\ UNCHANGED <<owner, idle, pc, cur, back, ready, live, n_uthread, endVars>>
    BY <1>5 DEF register_event, uthread_join
  <2>2. UNCHANGED joined \/ \E v \in Ut : joined' = [joined EXCEPT ![v] = u]
    BY <1>5 DEF register_event, uthread_join
  <2>3. joined' \in [Ut -> Ut \cup {NULL}]
    BY <2>2 DEF HandoffTypeOK
  <2>. QED
    BY <2>1, <2>3 DEF HandoffTypeOK, endVars
<1>6. CASE uthread_exit(s, u)
  <2>1. live' \subseteq Ut /\ IsFiniteSet(live')
    BY <1>6, FS_RemoveElement DEF uthread_exit, HandoffTypeOK
  <2>2. ready' \in Seq(Ut) /\ sleeping' \subseteq Ut
    BY <1>6 DEF uthread_exit, HandoffTypeOK
  <2>3. Onward(s) \in BackPoint
    BY LeaveType
  <2>. QED
    BY <1>6, <2>1, <2>2, <2>3 DEF uthread_exit, GoTo, HandoffTypeOK, endVars, Pc
<1>7. CASE disk_io(s, u)
  <2>1. idle # <<>> => Head(idle) \in Sched /\ Tail(idle) \in Seq(Sched)
    BY DEF HandoffTypeOK
  <2>2. owner' \in Sched /\ idle' \in Seq(Sched) /\ pc' \in [Sched -> Pc]
    BY <1>7, <2>1 DEF disk_io, NewThread, GoTo, HandoffTypeOK, Pc
  <2>. QED
    BY <1>7, <2>2 DEF disk_io, HandoffTypeOK, pVars, endVars
<1>. QED
  BY <1>1, <1>2, <1>3, <1>4, <1>5, <1>6, <1>7 DEF Coroutine

LEMMA HandoffTypeStep == HandoffTypeOK /\ [Next]_vars => HandoffTypeOK'
<1>. SUFFICES ASSUME HandoffTypeOK, [Next]_vars PROVE HandoffTypeOK'
  OBVIOUS
<1>1. CASE Over \/ UNCHANGED vars
  BY <1>1 DEF Over, vars, pVars, utVars, endVars, HandoffTypeOK
<1>. QED
  BY <1>1, LoopStepType, ResumeStepType, CoroutineType DEF Next, Scheduler, LoopStep

-----------------------------------------------------------------------------
(* The count of coroutines and the end of the process *)

(* Who begins to exist, ends and is counted off. *)
LEMMA Counting ==
    ASSUME HandoffTypeOK, MoveInv, Next, Up'
    PROVE  \/ UNCHANGED <<live, n_uthread, Freeing>>
           \/ /\ \E v \in Ut \ live : live' = live \cup {v}
              /\ n_uthread' = n_uthread + 1 /\ UNCHANGED Freeing
           \/ \E u \in live, s \in Sched \ Freeing :
                live' = live \ {u} /\ Freeing' = Freeing \cup {s} /\ UNCHANGED n_uthread
           \/ \E s \in Freeing :
                Freeing' = Freeing \ {s} /\ n_uthread' = n_uthread - 1 /\ UNCHANGED live
<1>1. ASSUME NEW s \in Sched, NEW x, pc' = [pc EXCEPT ![s] = x], pc[s] # "free", x # "free"
      PROVE  UNCHANGED Freeing
  BY <1>1 DEF Freeing, HandoffTypeOK
<1>2. ASSUME NEW s \in Sched, LoopStep(s), ~ uthread_free(s)
      PROVE  UNCHANGED <<live, n_uthread, Freeing>>
  <2>1. UNCHANGED <<live, n_uthread>> /\ pc[s] # "free"
    BY <1>2 DEF LoopStep, Start, LoopHead, Poll, SecondEvent, LoopTail, End, NoneExpired,
                Spin, At, utVars, vars
  <2>2. UNCHANGED pc \/ \E x \in Pc \ {"free"} : pc' = [pc EXCEPT ![s] = x]
    BY <1>2 DEF LoopStep, Start, LoopHead, Poll, SecondEvent, LoopTail, End, NoneExpired,
                Spin, GoTo, vars, Pc
  <2>. QED
    BY <1>1, <2>1, <2>2 DEF Freeing
<1>3. ASSUME NEW s \in Sched,
             RunReady(s) \/ HandleEvents(s) \/ \E u \in Ut : ResumeExpired(s, u)
      PROVE  UNCHANGED <<live, n_uthread, Freeing>>
  <2>1. UNCHANGED <<live, n_uthread>> /\ pc[s] # "free"
    BY <1>3 DEF RunReady, HandleEvents, ResumeExpired, At, utVars
  <2>2. UNCHANGED pc \/ \E x \in Pc \ {"free"} : pc' = [pc EXCEPT ![s] = x]
    BY <1>3 DEF RunReady, HandleEvents, ResumeExpired, Resume, GoTo, Pc
  <2>. QED
    BY <1>1, <2>1, <2>2 DEF Freeing
<1>4. ASSUME NEW s \in Sched, NEW u \in Ut,
             \/ Preempted(s, u) \/ Switch(s, u) \/ disk_return(s, u)
             \/ register_event(s, u) \/ \E v \in Ut : uthread_join(s, u, v)
      PROVE  UNCHANGED <<live, n_uthread, Freeing>>
  <2>1. UNCHANGED <<live, n_uthread>> /\ pc[s] # "free"
    BY <1>4 DEF Preempted, Switch, disk_return, register_event, uthread_join, Runs, At,
                utVars
  <2>2. Onward(s) # "free"
    BY LeaveType DEF BackPoint
  <2>3. UNCHANGED pc \/ pc' = [pc EXCEPT ![s] = Onward(s)]
    BY <1>4 DEF Preempted, Switch, disk_return, register_event, uthread_join, Leave, GoTo
  <2>. QED
    BY <1>1, <2>1, <2>2, <2>3 DEF Freeing
<1>5. ASSUME NEW s \in Sched, NEW u \in Ut, disk_io(s, u)
      PROVE  UNCHANGED <<live, n_uthread, Freeing>>
  <2>1. UNCHANGED <<live, n_uthread>>
    BY <1>5 DEF disk_io
  <2>2. CASE UNCHANGED pc
    BY <2>1, <2>2 DEF Freeing
  <2>3. CASE idle # <<>> /\ pc' = [pc EXCEPT ![Head(idle)] = "start"]
    <3>1. Head(idle) \in Sched /\ pc[Head(idle)] = "none"
      BY <2>3, TailOnce DEF MoveInv, IdleOK, HandoffTypeOK
    <3>. QED
      BY <1>1, <2>1, <2>3, <3>1
  <2>. QED
    BY <1>5, <2>2, <2>3 DEF disk_io, NewThread, GoTo
<1>6. ASSUME NEW s \in Sched, NEW u \in Ut, uthread_create(s, u)
      PROVE  /\ \E v \in Ut \ live : live' = live \cup {v}
             /\ n_uthread' = n_uthread + 1 /\ UNCHANGED Freeing
  BY <1>6 DEF uthread_create, Breaks, Up, Fresh, Freeing
<1>7. ASSUME NEW s \in Sched, NEW u \in Ut, uthread_exit(s, u)
      PROVE  /\ u \in live /\ s \in Sched \ Freeing /\ live' = live \ {u}
             /\ Freeing' = Freeing \cup {s} /\ UNCHANGED n_uthread
  <2>1. u \in live /\ pc[s] = "run"
    BY <1>7, RunsFacts DEF uthread_exit
  <2>2. live' = live \ {u} /\ pc' = [pc EXCEPT ![s] = "free"] /\ UNCHANGED n_uthread
    BY <1>7 DEF uthread_exit, GoTo
  <2>. QED
    BY <2>1, <2>2 DEF Freeing, HandoffTypeOK
<1>8. ASSUME NEW s \in Sched, uthread_free(s)
      PROVE  /\ s \in Freeing /\ Freeing' = Freeing \ {s}
             /\ n_uthread' = n_uthread - 1 /\ UNCHANGED live
  BY <1>8 DEF uthread_free, At, GoTo, Freeing, HandoffTypeOK, BackPoint
<1>9. \E s \in Sched : \/ LoopStep(s) /\ ~ uthread_free(s)
                       \/ uthread_free(s) \/ RunReady(s) \/ HandleEvents(s)
                       \/ \E u \in Ut : \/ ResumeExpired(s, u) \/ Preempted(s, u)
                                        \/ Switch(s, u) \/ Coroutine(s, u)
                                        \/ disk_return(s, u)
  BY DEF Next, Scheduler, LoopStep, Over, vars, Up
<1>. QED
  BY <1>2, <1>3, <1>4, <1>5, <1>6, <1>7, <1>8, <1>9 DEF Coroutine

LEMMA CountInvStep ==
    ASSUME HandoffTypeOK, MoveInv, CountInv, Next, Up'
    PROVE  CountInv'
<1>1. /\ IsFiniteSet(live) /\ Cardinality(live) \in Nat
      /\ IsFiniteSet(Freeing) /\ Cardinality(Freeing) \in Nat /\ n_uthread \in Int
  <2>1. IsFiniteSet(Sched)
    BY HandoffAssumption, FS_Interval DEF Sched
  <2>2. IsFiniteSet(Freeing)
    BY <2>1, FS_Subset DEF Freeing
  <2>. QED
    BY <2>2, FS_CardinalityType DEF HandoffTypeOK
<1>2. ASSUME NEW v \in Ut \ live, live' = live \cup {v}
      PROVE  Cardinality(live') = Cardinality(live) + 1
  BY <1>1, <1>2, FS_AddElement
<1>3. ASSUME NEW u \in live, live' = live \ {u}
      PROVE  Cardinality(live') = Cardinality(live) - 1
  BY <1>1, <1>3, FS_RemoveElement
<1>4. ASSUME NEW s \in Sched \ Freeing, Freeing' = Freeing \cup {s}
      PROVE  Cardinality(Freeing') = Cardinality(Freeing) + 1
  BY <1>1, <1>4, FS_AddElement
<1>5. ASSUME NEW s \in Freeing, Freeing' = Freeing \ {s}
      PROVE  Cardinality(Freeing') = Cardinality(Freeing) - 1
  BY <1>1, <1>5, FS_RemoveElement
<1>6. CASE UNCHANGED <<live, n_uthread, Freeing>>
  BY <1>6 DEF CountInv
<1>. QED
  BY <1>1, <1>2, <1>3, <1>4, <1>5, <1>6, Counting DEF CountInv

Ending == {"free_source", "exit"}

(* Steps of threads that are not about to end the process. *)
LEMMA EndKept ==
    ASSUME EndInv, HandoffTypeOK, NEW s \in Sched, pc[s] \notin Ending,
           UNCHANGED pc \/ \E x \in Pc \ Ending : pc' = [pc EXCEPT ![s] = x],
           live = {} => live' = {}, UNCHANGED <<mutex, frees>>
    PROVE  EndInv'
<1>1. \A t \in Sched : pc'[t] = pc[t] \/ (pc[t] \notin Ending /\ pc'[t] \notin Ending)
  BY DEF HandoffTypeOK
<1>. QED
  BY <1>1 DEF EndInv, Ending, HandoffTypeOK

LEMMA EndStep ==
    ASSUME HandoffTypeOK, EndInv, Up => MoveInv /\ CountInv, [Next]_vars
    PROVE  EndInv'
<1>1. CASE Over \/ UNCHANGED vars
  BY <1>1 DEF Over, vars, utVars, endVars, EndInv
<1>2. ASSUME NEW s \in Sched, LoopTail(s) PROVE EndInv'
  <2>1. /\ Up /\ n_uthread = 0 /\ mutex = NULL /\ mutex' = s /\ UNCHANGED <<live, frees>>
        /\ pc' = [pc EXCEPT ![s] = "free_source"]
    BY <1>2 DEF LoopTail, At, AllDone, LockForExit, GoTo, utVars
  <2>2. live = {}
    <3>1. IsFiniteSet(Sched)
      BY HandoffAssumption, FS_Interval DEF Sched
    <3>2. IsFiniteSet(Freeing)
      BY <3>1, FS_Subset DEF Freeing
    <3>3. Cardinality(live) = 0
      BY <2>1, <3>2, FS_CardinalityType DEF CountInv, HandoffTypeOK
    <3>. QED
      BY <3>3, FS_EmptySet DEF HandoffTypeOK
  <2>3. \A t \in Sched : t # NULL
    BY HandoffAssumption DEF Sched
  <2>4. pc'[s] = "free_source" /\ \A t \in Sched \ {s} : pc'[t] = pc[t]
    BY <2>1 DEF HandoffTypeOK
  <2>. QED
    BY <2>1, <2>2, <2>3, <2>4 DEF EndInv
<1>3. ASSUME NEW s \in Sched, End(s) PROVE EndInv'
  <2>1. mutex = s /\ s # NULL /\ UNCHANGED <<mutex, live>>
    BY <1>3, HandoffAssumption DEF End, At, EndInv, utVars, Sched
  <2>2. CASE pc[s] = "free_source" /\ pc' = [pc EXCEPT ![s] = "exit"] /\ frees' = frees + 1
    <3>1. pc'[s] = "exit" /\ \A t \in Sched \ {s} : pc'[t] = pc[t]
      BY <2>2 DEF HandoffTypeOK
    <3>. QED
      BY <2>1, <2>2, <3>1 DEF EndInv
  <2>3. CASE UNCHANGED <<pc, frees>>
    BY <2>1, <2>3 DEF EndInv
  <2>. QED
    BY <1>3, <2>2, <2>3 DEF End, At, GoTo
<1>4. ASSUME NEW s \in Sched, LoopStep(s), ~ LoopTail(s), ~ End(s) PROVE EndInv'
  <2>1. pc[s] \notin Ending /\ UNCHANGED <<live, mutex, frees>>
    BY <1>4 DEF LoopStep, Start, LoopHead, Poll, SecondEvent, uthread_free, NoneExpired,
                Spin, At, Ending, utVars, endVars, vars
  <2>2. back[s] \in Pc \ Ending
    BY DEF HandoffTypeOK, BackPoint, Pc, Ending
  <2>3. UNCHANGED pc \/ \E x \in Pc \ Ending : pc' = [pc EXCEPT ![s] = x]
    BY <1>4, <2>2 DEF LoopStep, Start, LoopHead, Poll, SecondEvent, uthread_free,
                      NoneExpired, Spin, GoTo, vars, Pc, Ending
  <2>. QED
    BY <2>1, <2>3, EndKept
<1>5. ASSUME NEW s \in Sched,
             RunReady(s) \/ HandleEvents(s) \/ \E u \in Ut : ResumeExpired(s, u)
      PROVE  EndInv'
  <2>1. pc[s] \notin Ending /\ UNCHANGED <<live, mutex, frees>>
    BY <1>5 DEF RunReady, HandleEvents, ResumeExpired, At, Ending, utVars, endVars
  <2>2. UNCHANGED pc \/ \E x \in Pc \ Ending : pc' = [pc EXCEPT ![s] = x]
    BY <1>5 DEF RunReady, HandleEvents, ResumeExpired, Resume, GoTo, Pc, Ending
  <2>. QED
    BY <2>1, <2>2, EndKept
<1>6. ASSUME NEW s \in Sched, NEW u \in Ut,
             \/ Preempted(s, u) \/ Switch(s, u) \/ disk_return(s, u)
             \/ register_event(s, u) \/ uthread_create(s, u) \/ uthread_exit(s, u)
             \/ \E v \in Ut : uthread_join(s, u, v)
      PROVE  EndInv'
  <2>1. pc[s] \notin Ending /\ UNCHANGED <<mutex, frees>> /\ Up
    BY <1>6 DEF Preempted, Switch, disk_return, register_event, uthread_create,
                uthread_exit, uthread_join, Runs, At, Ending, endVars
  <2>2. Onward(s) \in Pc \ Ending
    BY LeaveType DEF BackPoint, Pc, Ending
  <2>3. UNCHANGED pc \/ \E x \in Pc \ Ending : pc' = [pc EXCEPT ![s] = x]
    BY <1>6, <2>2 DEF Preempted, Switch, disk_return, register_event, uthread_create,
                      uthread_exit, uthread_join, Leave, GoTo, Pc, Ending
  <2>4. ASSUME live = {} PROVE live' = {}
    <3>1. ~ uthread_create(s, u)
      BY <2>1, <2>4, RunsFacts DEF uthread_create
    <3>. QED
      BY <1>6, <2>4, <3>1 DEF Preempted, Switch, disk_return, register_event, uthread_exit,
                              uthread_join, utVars
  <2>. QED
    BY <2>1, <2>3, <2>4, EndKept
<1>7. ASSUME NEW s \in Sched, NEW u \in Ut, disk_io(s, u) PROVE EndInv'
  <2>1. UNCHANGED <<live, mutex, frees>> /\ Up /\ pc[s] = "run"
    BY <1>7 DEF disk_io, Runs, At, endVars
  <2>2. CASE UNCHANGED pc
    BY <2>1, <2>2 DEF EndInv
  <2>3. CASE idle # <<>> /\ pc' = [pc EXCEPT ![Head(idle)] = "start"]
    <3>1. Head(idle) \in Sched /\ pc[Head(idle)] = "none"
      BY <2>1, <2>3, TailOnce DEF MoveInv, IdleOK, HandoffTypeOK
    <3>2. pc[Head(idle)] \notin Ending /\ "start" \in Pc \ Ending
      BY <3>1 DEF Ending, Pc
    <3>. QED
      BY <2>1, <2>3, <3>1, <3>2, EndKept
  <2>. QED
    BY <1>7, <2>2, <2>3 DEF disk_io, NewThread, GoTo
<1>. QED
  BY <1>1, <1>2, <1>3, <1>4, <1>5, <1>6, <1>7 DEF Next, Scheduler, LoopStep, Coroutine

-----------------------------------------------------------------------------
(* The theorems *)

LEMMA HandoffInit == Init => HandoffInv
<1>. SUFFICES ASSUME Init PROVE HandoffInv
  OBVIOUS
<1>. USE HandoffAssumption
<1>1. idle \in Seq(Sched) /\ Len(idle) = MAX_PROCS - 1
      /\ \A i \in 1..Len(idle) : idle[i] = i + 1
  BY DEF Init, Sched
<1>2. 1 \in Sched /\ \A s \in Sched : s \in Nat /\ s # NULL
  BY DEF Sched
<1>3. IsFiniteSet({Main}) /\ Cardinality({Main}) = 1
  BY FS_Singleton
<1>4. Len(ready) = 1 /\ ready[1] = Main /\ ready \in Seq(Ut)
  BY DEF Init
<1>5. HandoffTypeOK
  BY <1>1, <1>2, <1>3, <1>4 DEF Init, HandoffTypeOK, Pc, BackPoint
<1>6. IdleOK
  BY <1>1, <1>5 DEF Init, IdleOK, Once, HandoffTypeOK
<1>7. ThreadsOK /\ JoinsOK
  BY <1>2 DEF Init, ThreadsOK, JoinsOK
<1>8. PlacesOK
  BY <1>2, <1>4 DEF Init, PlacesOK, Once, Queued, OnThread
<1>9. CountInv
  <2>1. Freeing = {}
    BY DEF Init, Freeing
  <2>2. Cardinality(Freeing) = 0
    BY <2>1, FS_EmptySet
  <2>. QED
    BY <1>3, <2>2 DEF Init, CountInv
<1>10. EndInv
  BY <1>2 DEF Init, EndInv
<1>. QED
  BY <1>5, <1>6, <1>7, <1>8, <1>9, <1>10 DEF HandoffInv, MoveInv

LEMMA HandoffStep == HandoffInv /\ [Next]_vars => HandoffInv'
<1>. SUFFICES ASSUME HandoffInv, [Next]_vars PROVE HandoffInv'
  OBVIOUS
<1>1. HandoffTypeOK'
  BY HandoffTypeStep DEF HandoffInv
<1>2. EndInv'
  BY EndStep DEF HandoffInv
<1>3. Up' => MoveInv'
  BY MoveStep DEF HandoffInv
<1>4. ASSUME Up' PROVE CountInv'
  <2>1. CASE UNCHANGED vars
    BY <1>4, <2>1 DEF vars, utVars, Up, HandoffInv, CountInv, Freeing
  <2>2. CASE Next /\ Up
    BY <1>4, <2>2, CountInvStep DEF HandoffInv
  <2>3. CASE Next /\ ~ Up
    <3>1. Over
      BY <2>3 DEF Next, Scheduler, Coroutine, Start, LoopHead, RunReady, Poll,
                  HandleEvents, SecondEvent, LoopTail, End, uthread_free, NoneExpired,
                  Spin, ResumeExpired, Preempted, Switch, uthread_create,
                  register_event, uthread_exit, disk_io, uthread_join, disk_return,
                  Runs, At
    <3>. QED
      BY <1>4, <2>3, <3>1 DEF Over, vars, Up
  <2>. QED
    BY <2>1, <2>2, <2>3
<1>. QED
  BY <1>1, <1>2, <1>3, <1>4 DEF HandoffInv

(* The inductive invariant of the hand-off: who is spare, who runs what,    *)
(* who is where, and who is counted.  It needs no fairness, so it holds     *)
(* however long disk operations take.                                       *)
THEOREM HandoffInvariant == Init /\ [][Next]_vars => []HandoffInv
BY HandoffInit, HandoffStep, PTL

(* Whatever the p does, each coroutine stays in one place, for any number   *)
(* of coroutines and threads.                                               *)
THEOREM PlacedOnceHolds == Spec => []PlacedOnce
<1>1. ASSUME HandoffInv PROVE PlacedOnce
  <2>. SUFFICES ASSUME Up, NEW u \in live
                PROVE  LET threads == {s \in Sched : cur[s] = u} IN
                       IF threads # {} /\ stage[u] = "switching"
                         THEN Cardinality(threads) = 1
                         ELSE Cardinality(threads) + Times(u)
                                + (IF u \in sleeping THEN 1 ELSE 0) = 1
    BY DEF PlacedOnce
  <2>. DEFINE threads == {s \in Sched : cur[s] = u}
              spots == {i \in 1..Len(ready) : ready[i] = u}
  <2>0. u \in Ut /\ u # NULL /\ ThreadsOK /\ PlacesOK
    BY <1>1, HandoffAssumption DEF HandoffInv, MoveInv, HandoffTypeOK
  <2>1. OnThread(u) => threads # {} /\ Cardinality(threads) = 1
    <3>. SUFFICES ASSUME NEW s \in Sched, cur[s] = u
                  PROVE  threads # {} /\ Cardinality(threads) = 1
      BY DEF OnThread
    <3>1. threads = {s}
      BY <2>0 DEF ThreadsOK
    <3>. QED
      BY <3>1, FS_Singleton
  <2>2. ~ OnThread(u) => threads = {} /\ Cardinality(threads) = 0
    BY FS_EmptySet DEF OnThread
  <2>3. Queued(u) => Times(u) = 1
    <3>. SUFFICES ASSUME NEW i \in 1..Len(ready), ready[i] = u PROVE Times(u) = 1
      BY DEF Queued
    <3>1. spots = {i}
      BY <2>0 DEF PlacesOK, Once
    <3>. QED
      BY <3>1, FS_Singleton DEF Times
  <2>4. ~ Queued(u) => Times(u) = 0
    <3>. SUFFICES ASSUME ~ Queued(u) PROVE Times(u) = 0
      OBVIOUS
    <3>1. spots = {}
      BY DEF Queued
    <3>. QED
      BY <3>1, FS_EmptySet DEF Times
  <2>5. /\ OnThread(u) \/ Queued(u) \/ u \in sleeping
        /\ ~ (Queued(u) /\ u \in sleeping)
        /\ OnThread(u) /\ (Queued(u) \/ u \in sleeping) => stage[u] = "switching"
    BY <2>0 DEF PlacesOK
  <2>. HIDE DEF threads
  <2>6. IF threads # {} /\ stage[u] = "switching"
          THEN Cardinality(threads) = 1
          ELSE Cardinality(threads) + Times(u) + (IF u \in sleeping THEN 1 ELSE 0) = 1
    BY <2>1, <2>2, <2>3, <2>4, <2>5
  <2>. QED
    BY <2>6 DEF threads
<1>. QED
  BY <1>1, HandoffInvariant, PTL DEF Spec

(* One thread frees the global data, and it does so when no coroutine is    *)
(* left on any thread, in the queue or in the tree.                         *)
THEOREM EndsOnceHolds == Spec => []EndsOnce
<1>1. HandoffInv => EndsOnce
  BY DEF HandoffInv, EndInv, EndsOnce, HandoffTypeOK
<1>. QED
  BY <1>1, HandoffInvariant, PTL DEF Spec

-----------------------------------------------------------------------------
(* Before the p has moved *)

Harmed == outcome \in {"segv", "corrupt", "two_threads"}

(* As long as the first scheduler has the p it is the only thread; another  *)
(* one is spare, and whoever is switching away is not queued yet, as nobody *)
(* else can have woken it.                                                  *)
SoloInv ==
    /\ pc[1] # "none"
    /\ owner = 1 /\ MAX_PROCS # 1 =>
        /\ \A s \in Sched \ {1} : pc[s] = "none"
        /\ idle # <<>> /\ ~ Harmed
        /\ Up => \A u \in Ut : ~ (OnThread(u) /\ Queued(u))

LEMMA SoloInit == Init => SoloInv
<1>. SUFFICES ASSUME Init PROVE SoloInv
  OBVIOUS
<1>1. 1 \in Sched /\ MAX_PROCS \in Nat \ {0}
  BY HandoffAssumption DEF Sched
<1>2. MAX_PROCS # 1 => idle # <<>>
  BY <1>1 DEF Init
<1>3. \A u \in Ut : ~ OnThread(u)
  BY HandoffAssumption DEF Init, OnThread
<1>. QED
  BY <1>1, <1>2, <1>3 DEF Init, SoloInv, Harmed

(* A thread that has started stays one. *)
LEMMA Started ==
    ASSUME HandoffTypeOK, NEW t \in Sched, pc[t] # "none", [Next]_vars
    PROVE  pc'[t] # "none"
<1>1. ASSUME NEW s \in Sched, NEW x, x # "none", pc' = [pc EXCEPT ![s] = x]
      PROVE  pc'[t] # "none"
  BY <1>1 DEF HandoffTypeOK
<1>2. \A s \in Sched : Onward(s) # "none" /\ back[s] # "none"
  BY DEF Onward, HandoffTypeOK, BackPoint
<1>3. idle # <<>> => Head(idle) \in Sched
  BY DEF HandoffTypeOK
<1>4. ASSUME NEW s \in Sched, LoopStep(s) PROVE pc'[t] # "none"
  BY <1>1, <1>2, <1>4
     DEF LoopStep, Start, LoopHead, Poll, SecondEvent, LoopTail, End, uthread_free,
         NoneExpired, Spin, GoTo, vars
<1>5. ASSUME NEW s \in Sched,
             RunReady(s) \/ HandleEvents(s) \/ \E u \in Ut : ResumeExpired(s, u)
      PROVE  pc'[t] # "none"
  BY <1>1, <1>5 DEF RunReady, HandleEvents, ResumeExpired, Resume, GoTo
<1>6. ASSUME NEW s \in Sched, NEW u \in Ut, Preempted(s, u) \/ Switch(s, u)
      PROVE  pc'[t] # "none"
  BY <1>1, <1>2, <1>6 DEF Preempted, Switch, Leave, GoTo
<1>7. ASSUME NEW s \in Sched, NEW u \in Ut, Coroutine(s, u) \/ disk_return(s, u)
      PROVE  pc'[t] # "none"
  BY <1>1, <1>3, <1>7
     DEF Coroutine, uthread_create, register_event, uthread_exit, uthread_join, disk_io,
         disk_return, NewThread, GoTo
<1>. QED
  BY <1>4, <1>5, <1>6, <1>7 DEF Next, Scheduler, LoopStep, Over, vars

(* The p goes to a spare scheduler only, and the first one is none. *)
LEMMA NotBack ==
    ASSUME HandoffInv, SoloInv, [Next]_vars, owner # 1
    PROVE  owner' # 1
<1>1. ASSUME NEW s \in Sched, NEW u \in Ut, disk_io(s, u), owner' # owner PROVE owner' # 1
  <2>1. Up /\ idle # <<>> /\ owner' = Head(idle)
    BY <1>1 DEF disk_io, Runs, At
  <2>2. 1 \in 1..Len(idle) /\ Head(idle) = idle[1] /\ pc[idle[1]] = "none"
    BY <2>1 DEF HandoffInv, HandoffTypeOK, MoveInv, IdleOK
  <2>. QED
    BY <2>1, <2>2 DEF SoloInv
<1>2. CASE owner' # owner
  BY <1>1, <1>2
     DEF Next, Scheduler, Coroutine, Start, LoopHead, RunReady, Poll, HandleEvents,
         SecondEvent, LoopTail, End, uthread_free, NoneExpired, Spin, ResumeExpired,
         Preempted, Switch, uthread_create, register_event, uthread_exit, uthread_join,
         disk_return, Over, vars
<1>. QED
  BY <1>2

(* A step of the only thread breaks nothing. *)
LEMMA SoloThread ==
    ASSUME HandoffInv, SoloInv, Up, owner = 1, MAX_PROCS # 1
    PROVE  /\ 1 \in Sched /\ HandoffTypeOK /\ MoveInv
           /\ \A x : \A s \in Sched : At(s, x) /\ x # "none" => s = 1
           /\ \A s \in Sched \ {1} : cur[s] = NULL
           /\ \A u \in Ut : OnThread(u) <=> cur[1] = u
           /\ \A u \in Ut : OnThread(u) => ~ Queued(u)
<1>1. 1 \in Sched /\ HandoffTypeOK /\ MoveInv
  BY HandoffAssumption DEF HandoffInv, Sched
<1>2. \A s \in Sched \ {1} : pc[s] = "none" /\ cur[s] = NULL
  BY <1>1 DEF SoloInv, MoveInv, ThreadsOK
<1>3. \A u \in Ut : OnThread(u) <=> cur[1] = u
  BY <1>1, <1>2, HandoffAssumption DEF OnThread
<1>. QED
  BY <1>1, <1>2, <1>3 DEF SoloInv, At

(* Only one thread moves, and nobody comes to be on it and in the queue. *)
LEMMA SoloKept ==
    ASSUME HandoffInv, SoloInv, Up, owner = 1, MAX_PROCS # 1, pc'[1] # "none",
           \A s \in Sched \ {1} : pc'[s] = pc[s],
           UNCHANGED <<owner, idle>>, outcome' \in {outcome, "exit"},
           Up' => \A u \in Ut : ~ (OnThread(u)' /\ Queued(u)')
    PROVE  SoloInv'
BY DEF SoloInv, Harmed, Up

LEMMA SoloStep ==
    ASSUME HandoffInv, SoloInv, Up, owner = 1, MAX_PROCS # 1, Next
    PROVE  SoloInv'
<1>0. /\ 1 \in Sched /\ HandoffTypeOK /\ MoveInv
      /\ \A x : \A s \in Sched : At(s, x) /\ x # "none" => s = 1
      /\ \A s \in Sched \ {1} : cur[s] = NULL
      /\ \A u \in Ut : OnThread(u) <=> cur[1] = u
      /\ \A u \in Ut : OnThread(u) => ~ Queued(u)
  BY SoloThread
<1>1. pc'[1] # "none"
  BY <1>0, Started DEF SoloInv
<1>2. ASSUME NEW x, pc' = [pc EXCEPT ![1] = x] PROVE \A s \in Sched \ {1} : pc'[s] = pc[s]
  BY <1>2, <1>0 DEF HandoffTypeOK
<1>3. ASSUME NEW s \in Sched, LoopStep(s) PROVE SoloInv'
  <2>1. s = 1
    BY <1>0, <1>3
       DEF LoopStep, Start, LoopHead, Poll, SecondEvent, LoopTail, End, uthread_free,
           NoneExpired, Spin
  <2>2. /\ outcome' \in {outcome, "exit"} /\ UNCHANGED <<owner, idle, cur, ready>>
        /\ UNCHANGED pc \/ \E x : pc' = [pc EXCEPT ![1] = x]
    BY <1>3, <2>1
       DEF LoopStep, Start, LoopHead, Poll, SecondEvent, LoopTail, End, uthread_free,
           NoneExpired, Spin, GoTo, Breaks, vars, pVars
  <2>3. \A u \in Ut : ~ (OnThread(u)' /\ Queued(u)')
    BY <1>0, <2>2 DEF OnThread, Queued
  <2>. QED
    BY <1>1, <1>2, <2>2, <2>3, SoloKept
<1>4. ASSUME NEW u \in Ut, NEW from, Resume(1, u, from), pc[1] # "run",
             UNCHANGED <<owner, idle>>,
             \/ ready # <<>> /\ u = Head(ready) /\ ready' = Tail(ready)
             \/ u \in waiting /\ UNCHANGED ready
      PROVE  SoloInv'
  <2>1. cur[1] = NULL /\ ~ OnThread(u)
    BY <1>0, <1>4, HandoffAssumption DEF MoveInv, ThreadsOK
  <2>2. outcome' = outcome /\ cur' = [cur EXCEPT ![1] = u] /\ pc' = [pc EXCEPT ![1] = "run"]
    BY <1>4, <2>1 DEF Resume, GoTo, OnThread
  <2>3. \A v \in Ut : OnThread(v)' => v = u
    BY <1>0, <2>2, HandoffAssumption DEF OnThread, HandoffTypeOK
  <2>4. ~ Queued(u)'
    <3>1. CASE ready # <<>> /\ u = Head(ready) /\ ready' = Tail(ready)
      BY <1>0, <3>1, Dequeue DEF HandoffTypeOK, MoveInv, PlacesOK
    <3>2. CASE u \in waiting /\ UNCHANGED ready
      BY <1>0, <3>2 DEF MoveInv, PlacesOK, JoinsOK, Queued
    <3>. QED
      BY <1>4, <3>1, <3>2
  <2>. QED
    BY <1>1, <1>2, <1>4, <2>2, <2>3, <2>4, SoloKept
<1>5. ASSUME NEW s \in Sched,
             RunReady(s) \/ HandleEvents(s) \/ \E u \in Ut : ResumeExpired(s, u)
      PROVE  SoloInv'
  <2>1. s = 1 /\ pc[1] # "run" /\ UNCHANGED <<owner, idle>>
    BY <1>0, <1>5 DEF RunReady, HandleEvents, ResumeExpired, At
  <2>2. ASSUME UNCHANGED <<cur, ready, outcome>>,
               UNCHANGED pc \/ \E x : pc' = [pc EXCEPT ![1] = x]
        PROVE  SoloInv'
    <3>1. \A u \in Ut : ~ (OnThread(u)' /\ Queued(u)')
      BY <1>0, <2>2 DEF OnThread, Queued
    <3>. QED
      BY <1>1, <1>2, <2>1, <2>2, <3>1, SoloKept
  <2>3. CASE RunReady(s)
    <3>1. ready # <<>> => Head(ready) \in Ut
      BY <1>0 DEF HandoffTypeOK
    <3>. QED
      BY <1>4, <2>1, <2>2, <2>3, <3>1 DEF RunReady, GoTo
  <2>4. CASE HandleEvents(s)
    BY <1>0, <1>4, <2>1, <2>2, <2>4 DEF HandleEvents, GoTo, HandoffTypeOK
  <2>5. CASE \E u \in Ut : ResumeExpired(s, u)
    BY <1>4, <2>1, <2>5 DEF ResumeExpired
  <2>. QED
    BY <1>5, <2>3, <2>4, <2>5
<1>6. ASSUME NEW u \in Ut, Leave(1), cur[1] = u, UNCHANGED <<owner, idle, outcome>>
      PROVE  SoloInv'
  <2>1. cur' = [cur EXCEPT ![1] = NULL] /\ pc' = [pc EXCEPT ![1] = Onward(1)]
    BY <1>6 DEF Leave, GoTo
  <2>2. \A v \in Ut : ~ OnThread(v)'
    BY <1>0, <2>1, HandoffAssumption DEF OnThread, HandoffTypeOK
  <2>. QED
    BY <1>1, <1>2, <1>6, <2>1, <2>2, SoloKept
<1>7. ASSUME NEW s \in Sched, NEW u \in Ut, Preempted(s, u) \/ Switch(s, u)
      PROVE  SoloInv'
  <2>1. s = 1 /\ cur[1] = u /\ UNCHANGED <<owner, idle>>
    BY <1>0, <1>7 DEF Preempted, Switch
  <2>2. ~ (Times(u) > 0)
    <3>1. {i \in 1..Len(ready) : ready[i] = u} = {}
      BY <1>0, <2>1 DEF Queued
    <3>2. Times(u) = 0
      BY <3>1, FS_EmptySet DEF Times
    <3>. QED
      BY <3>2
  <2>3. Leave(1) /\ UNCHANGED outcome
    BY <1>7, <2>1, <2>2 DEF Preempted, Switch
  <2>. QED
    BY <1>6, <2>1, <2>3
<1>8. ASSUME NEW s \in Sched, NEW u \in Ut, uthread_exit(s, u) PROVE SoloInv'
  <2>1. s = 1
    BY <1>0, <1>8 DEF uthread_exit, Runs
  <2>2. /\ outcome' = outcome /\ UNCHANGED <<owner, idle>>
        /\ cur' = [cur EXCEPT ![1] = NULL] /\ pc' = [pc EXCEPT ![1] = "free"]
    BY <1>8, <2>1 DEF uthread_exit, Races, GoTo
  <2>3. \A v \in Ut : ~ OnThread(v)'
    BY <1>0, <2>2, HandoffAssumption DEF OnThread, HandoffTypeOK
  <2>. QED
    BY <1>1, <1>2, <2>2, <2>3, SoloKept
<1>9. ASSUME NEW s \in Sched, NEW u \in Ut, uthread_create(s, u) PROVE SoloInv'
  <2>1. s = 1
    BY <1>0, <1>9 DEF uthread_create, Runs
  <2>2. PICK v \in Fresh : ready' = Append(ready, v)
    BY <1>9, <2>1 DEF uthread_create
  <2>3. UNCHANGED <<owner, idle, pc, cur, outcome>>
    BY <1>9, <2>1 DEF uthread_create
  <2>4. v \in Ut /\ ~ OnThread(v) /\ ~ Queued(v)
    BY <1>0, <2>2 DEF Fresh, MoveInv, PlacesOK
  <2>5. \A w : Queued(w)' <=> (Queued(w) \/ w = v)
    BY <1>0, <2>2, <2>4, Enqueue DEF MoveInv, PlacesOK, HandoffTypeOK
  <2>6. \A w \in Ut : ~ (OnThread(w)' /\ Queued(w)')
    BY <1>0, <2>3, <2>4, <2>5 DEF OnThread
  <2>. QED
    BY <1>1, <2>3, <2>6, SoloKept
<1>10. ASSUME NEW s \in Sched, NEW u \in Ut,
              \/ register_event(s, u) \/ disk_return(s, u)
              \/ \E v \in Ut : uthread_join(s, u, v)
       PROVE  SoloInv'
  <2>1. s = 1
    BY <1>0, <1>10 DEF register_event, uthread_join, disk_return, Runs
  <2>2. UNCHANGED <<owner, idle, pc, cur, ready, outcome>>
    BY <1>10, <2>1 DEF register_event, uthread_join, disk_return, Races, pVars
  <2>3. \A w \in Ut : ~ (OnThread(w)' /\ Queued(w)')
    BY <1>0, <2>2 DEF OnThread, Queued
  <2>. QED
    BY <1>1, <2>2, <2>3, SoloKept
<1>11. ASSUME NEW s \in Sched, NEW u \in Ut, disk_io(s, u) PROVE SoloInv'
  <2>1. s = 1
    BY <1>0, <1>11 DEF disk_io, Runs
  <2>2. idle # <<>>
    BY DEF SoloInv
  <2>3. CASE ready # <<>>
    <3>1. owner' = Head(idle)
      BY <1>11, <2>1, <2>2, <2>3 DEF disk_io
    <3>2. 1 \in 1..Len(idle) /\ Head(idle) = idle[1] /\ pc[idle[1]] = "none"
      BY <1>0, <2>2 DEF HandoffTypeOK, MoveInv, IdleOK
    <3>3. owner' # 1
      BY <3>1, <3>2 DEF SoloInv
    <3>. QED
      BY <1>1, <3>3 DEF SoloInv
  <2>4. CASE ready = <<>>
    <3>1. UNCHANGED <<owner, idle, pc, cur, ready, outcome>>
      BY <1>11, <2>4 DEF disk_io, pVars
    <3>2. \A w \in Ut : ~ (OnThread(w)' /\ Queued(w)')
      BY <1>0, <3>1 DEF OnThread, Queued
    <3>. QED
      BY <1>1, <3>1, <3>2, SoloKept
  <2>. QED
    BY <2>3, <2>4
<1>. QED
  BY <1>3, <1>5, <1>7, <1>8, <1>9, <1>10, <1>11
     DEF Next, Scheduler, Coroutine, LoopStep, Over

LEMMA SoloNext == HandoffInv /\ SoloInv /\ [Next]_vars => SoloInv'
<1>. SUFFICES ASSUME HandoffInv, SoloInv, [Next]_vars PROVE SoloInv'
  OBVIOUS
<1>1. CASE UNCHANGED vars
  BY <1>1 DEF vars, pVars, SoloInv, Harmed, Up, OnThread, Queued
<1>2. CASE Next /\ ~ Up
  <2>1. Over
    BY <1>2 DEF Next, Scheduler, Coroutine, Start, LoopHead, RunReady, Poll,
                HandleEvents, SecondEvent, LoopTail, End, uthread_free, NoneExpired,
                Spin, ResumeExpired, Preempted, Switch, uthread_create,
                register_event, uthread_exit, disk_io, uthread_join, disk_return,
                Runs, At
  <2>. QED
    BY <1>1, <2>1 DEF Over
<1>3. CASE MAX_PROCS = 1 \/ owner # 1
  <2>1. pc'[1] # "none"
    BY Started, HandoffAssumption DEF HandoffInv, SoloInv, Sched
  <2>2. owner # 1 => owner' # 1
    BY NotBack
  <2>. QED
    BY <1>3, <2>1, <2>2 DEF SoloInv
<1>. QED
  BY <1>1, <1>2, <1>3, SoloStep

(* As long as the p has not moved, no pointer to it is missed, no queue     *)
(* broken and no coroutine run on two threads, for any number of            *)
(* coroutines and schedulers: the harm is the hand-off's alone.             *)
THEOREM HarmIsHandoffs == Spec => []HarmNeedsHandoff
<1>1. SoloInv => HarmNeedsHandoff
  BY HandoffAssumption DEF SoloInv, HarmNeedsHandoff, Harmed, Sched
<1>2. Spec => []SoloInv
  BY SoloInit, SoloNext, HandoffInvariant, PTL DEF Spec
<1>. QED
  BY <1>1, <1>2, PTL

=============================================================================
