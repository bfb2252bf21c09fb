------------------------------ MODULE RunQueue ------------------------------
(***************************************************************************)
(* What the scheduler promises to the program: one coroutine runs at a     *)
(* time; the others are in a first-in-first-out queue or blocked; one that *)
(* is blocked in a join comes back when its target ends, to the tail of    *)
(* the queue; one that is blocked on I/O comes back by itself; and one     *)
(* that has ended never comes back.  No trees, clocks, status bits, loop   *)
(* positions or kernel.                                                    *)
(***************************************************************************)
EXTENDS Naturals, Sequences

CONSTANTS Ut, Main, NULL

VARIABLES
    queue,      \* the coroutines that are ready, in the order they will run
    running,    \* the coroutine that has the thread, or NULL
    blocked,    \* the coroutines that wait
    on          \* for a blocked coroutine, the one it joins, or NULL

vars == <<queue, running, blocked, on>>

Queued(u) == \E i \in 1..Len(queue) : queue[i] = u

Exists(u) == u = running \/ u \in blocked \/ Queued(u)

Init ==
    /\ queue = <<Main>> /\ running = NULL
    /\ blocked = {} /\ on = [u \in Ut |-> NULL]

Create(u) ==
    /\ running # NULL /\ ~ Exists(u)
    /\ queue' = Append(queue, u)
    /\ UNCHANGED <<running, blocked, on>>

Run ==
    /\ running = NULL /\ queue # <<>>
    /\ running' = Head(queue) /\ queue' = Tail(queue)
    /\ UNCHANGED <<blocked, on>>

Yield ==
    /\ running # NULL
    /\ queue' = Append(queue, running) /\ running' = NULL
    /\ UNCHANGED <<blocked, on>>

(* On I/O (t is NULL), or in a join of a coroutine t that has not ended. *)
Block(t) ==
    /\ running # NULL /\ (t = NULL \/ (Exists(t) /\ t # running))
    /\ \A u \in blocked : t # NULL => on[u] # t
    /\ blocked' = blocked \cup {running}
    /\ on' = [on EXCEPT ![running] = t]
    /\ running' = NULL
    /\ UNCHANGED queue

(* The event or the timeout of a wait for I/O. *)
Unblock(u) ==
    /\ running = NULL /\ u \in blocked /\ on[u] = NULL
    /\ running' = u /\ blocked' = blocked \ {u}
    /\ UNCHANGED <<queue, on>>

Joiners == {u \in blocked : on[u] = running}

End ==
    /\ running # NULL
    /\ running' = NULL
    /\ \/ Joiners = {} /\ UNCHANGED <<queue, blocked, on>>
       \/ \E u \in Joiners :
            /\ queue' = Append(queue, u)
            /\ blocked' = blocked \ {u}
            /\ on' = [on EXCEPT ![u] = NULL]

Next ==
    \/ Run \/ Yield \/ End
    \/ \E u \in Ut : Create(u) \/ Unblock(u)
    \/ \E t \in Ut \cup {NULL} : Block(t)

Spec == Init /\ [][Next]_vars

=============================================================================
