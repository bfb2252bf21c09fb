----------------------------- MODULE Countdown ------------------------------
(***************************************************************************)
(* What the timer promises to _uthread_resume: a timer added with length   *)
(* len goes off once, on the tick that len other ticks precede.            *)
(***************************************************************************)
EXTENDS Integers

CONSTANTS
    Node,       \* addresses of struct timer_node blocks
    Lens,       \* lengths, in ticks, that timers are added with
    Off         \* the state of a node that is not allocated

VARIABLES
    left,       \* for every running timer, the ticks that precede the last
    fired       \* the timers that went off on the most recent tick

Init == left = [n \in Node |-> Off] /\ fired = {}

Add(n, len) ==
    /\ left[n] = Off
    /\ left' = [left EXCEPT ![n] = len]
    /\ UNCHANGED fired

Tick ==
    /\ fired' = {n \in Node : left[n] = 0}
    /\ left' = [n \in Node |-> IF left[n] \in {0, Off} THEN Off ELSE left[n] - 1]

Next == Tick \/ \E n \in Node, len \in Lens : Add(n, len)

Spec == Init /\ [][Next]_<<left, fired>> /\ WF_<<left, fired>>(Tick)

=============================================================================
