----------------------------- MODULE TimerWheel -----------------------------
(***************************************************************************)
(* timer.c: the timing wheel that decides when a running coroutine is      *)
(* preempted.  The list of a slot is a set, as no one depends on its       *)
(* order, and a node stands for the timer in it.  What tick does with an   *)
(* expired node (pthread_kill if its coroutine still runs) is left to      *)
(* whoever looks at fired.                                                 *)
(*                                                                         *)
(* tick and add_timer are atomic here.  In the code they run on two        *)
(* threads with no lock between them.                                      *)
(***************************************************************************)
EXTENDS Integers

CONSTANTS
    Node,       \* addresses of struct timer_node blocks
    Lens,       \* lengths, in ticks, passed to add_timer
    Off         \* for the refinement: the state of a node not allocated

ASSUME TimerAssumption == Lens \subseteq Nat /\ Off \notin Int

TIME_WHEEL_SIZE == 10

Slot == 0..(TIME_WHEEL_SIZE - 1)

VARIABLES
    slot,       \* timer.slot: the nodes in each slot
    rotation,   \* node->rotation
    current,    \* timer.current
    fired       \* the nodes that the most recent tick took out

vars == <<slot, rotation, current, fired>>

(* timer is static, so zero; create_timewheel sets current to 0. *)
Init ==
    /\ slot = [p \in Slot |-> {}]
    /\ rotation = [n \in Node |-> 0]
    /\ current = 0
    /\ fired = {}

Allocated(n) == \E p \in Slot : n \in slot[p]

-----------------------------------------------------------------------------
\* Fault: a length that is a multiple of the size makes one turn too many.
RotationRoundedUp(len) == (len + TIME_WHEEL_SIZE - 1) \div TIME_WHEEL_SIZE

(* How often the wheel's hand passes the node before it expires. *)
Rotation(len) == len \div TIME_WHEEL_SIZE

(* malloc returns the free node n. *)
add_timer(n, len) ==
    /\ ~ Allocated(n)
    /\ LET pos == (len + current) % TIME_WHEEL_SIZE IN
       slot' = [slot EXCEPT ![pos] = @ \cup {n}]
    /\ rotation' = [rotation EXCEPT ![n] = Rotation(len)]
    /\ UNCHANGED <<current, fired>>

\* Fault: a node with no turn to go makes another one.
ExpiredLate == {n \in slot[current] : rotation[n] < 0}

(* The nodes of the current slot that are not to go round again. *)
Expired == {n \in slot[current] : rotation[n] <= 0}

tick ==
    /\ fired' = Expired
    /\ slot' = [slot EXCEPT ![current] = @ \ Expired]
    /\ rotation' = [n \in Node |-> IF n \in slot[current] \ Expired
                                     THEN rotation[n] - 1 ELSE rotation[n]]
    /\ current' = (current + 1) % TIME_WHEEL_SIZE

Next == tick \/ \E n \in Node, len \in Lens : add_timer(n, len)

(* setitimer delivers SIGALRM every 10 ms. *)
Spec == Init /\ [][Next]_vars /\ WF_vars(tick)

-----------------------------------------------------------------------------
(* The ticks until the hand stands at slot p. *)
Distance(p) == IF p >= current THEN p - current ELSE p - current + TIME_WHEEL_SIZE

PositionOf(n) == CHOOSE p \in Slot : n \in slot[p]

left ==
    [n \in Node |-> IF Allocated(n)
                      THEN Distance(PositionOf(n)) + TIME_WHEEL_SIZE * rotation[n]
                      ELSE Off]

C == INSTANCE Countdown WITH left <- left, fired <- fired

(* Every timer goes off exactly once, after exactly the ticks it was added  *)
(* for, however many turns of the wheel that takes.                         *)
CountdownSpec == C!Spec

-----------------------------------------------------------------------------
(* The wheel is well formed: a node is in one slot's list only, its turns   *)
(* to go are not negative, and the hand points at a slot.                   *)
WheelOK ==
    /\ slot \in [Slot -> SUBSET Node]
    /\ rotation \in [Node -> Nat]
    /\ current \in Slot
    /\ fired \subseteq Node
    /\ \A p, q \in Slot : p # q => slot[p] \cap slot[q] = {}

=============================================================================
