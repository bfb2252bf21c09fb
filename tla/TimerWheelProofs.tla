-------------------------- MODULE TimerWheelProofs --------------------------
(***************************************************************************)
(* The timing wheel implements the countdown, for any set of nodes and any *)
(* lengths.  Fairness is left to TLC.                                      *)
(***************************************************************************)
EXTENDS TimerWheel, TLAPS

(* A node that is in slot p, and in no other, is found there. *)
LEMMA PositionIsUnique ==
    ASSUME WheelOK, NEW p \in Slot, NEW n \in slot[p]
    PROVE  Allocated(n) /\ PositionOf(n) = p
<1>1. Allocated(n)
  BY DEF Allocated
<1>2. \A q \in Slot : n \in slot[q] => q = p
  BY DEF WheelOK
<1>. QED
  BY <1>1, <1>2 DEF PositionOf

(* What left is for a node in slot p, and for one in no slot. *)
LEMMA LeftInSlot ==
    ASSUME WheelOK, NEW p \in Slot, NEW n \in slot[p]
    PROVE  /\ n \in Node
           /\ left[n] = Distance(p) + TIME_WHEEL_SIZE * rotation[n]
           /\ left[n] \in Nat
<1>1. n \in Node /\ rotation[n] \in Nat /\ current \in Slot
  BY DEF WheelOK
<1>2. Allocated(n) /\ PositionOf(n) = p
  BY PositionIsUnique
<1>3. left[n] = Distance(p) + TIME_WHEEL_SIZE * rotation[n]
  BY <1>1, <1>2 DEF left
<1>4. Distance(p) \in Nat
  BY <1>1 DEF Distance, Slot, TIME_WHEEL_SIZE
<1>. QED
  BY <1>1, <1>3, <1>4 DEF TIME_WHEEL_SIZE

LEMMA LeftOff ==
    ASSUME NEW n \in Node, ~ Allocated(n)
    PROVE  left[n] = Off
BY DEF left

-----------------------------------------------------------------------------
(* Every reachable wheel of timer.c is well formed. *)
THEOREM WheelInvariant == Spec => []WheelOK
<1>1. Init => WheelOK
  BY DEF Init, WheelOK, Slot, TIME_WHEEL_SIZE
<1>2. WheelOK /\ [Next]_vars => WheelOK'
  <2>. SUFFICES ASSUME WheelOK, [Next]_vars PROVE WheelOK'
    OBVIOUS
  <2>1. CASE tick
    <3>1. Expired \subseteq slot[current]
      BY DEF Expired
    <3>2. slot' \in [Slot -> SUBSET Node] /\ fired' \subseteq Node
      BY <2>1, <3>1 DEF tick, WheelOK
    <3>3. rotation' \in [Node -> Nat]
      BY <2>1 DEF tick, WheelOK, Expired
    <3>4. current' \in Slot
      BY <2>1 DEF tick, WheelOK, Slot, TIME_WHEEL_SIZE
    <3>5. \A p \in Slot : slot'[p] \subseteq slot[p]
      BY <2>1 DEF tick, WheelOK
    <3>6. \A p, q \in Slot : p # q => slot'[p] \cap slot'[q] = {}
      BY <3>5 DEF WheelOK
    <3>. QED
      BY <3>2, <3>3, <3>4, <3>6 DEF WheelOK
  <2>2. ASSUME NEW n \in Node, NEW len \in Lens, add_timer(n, len)
        PROVE  WheelOK'
    <3>1. len \in Nat
      BY TimerAssumption
    <3>2. (len + current) % TIME_WHEEL_SIZE \in Slot
      BY <3>1 DEF WheelOK, Slot, TIME_WHEEL_SIZE
    <3>3. slot' \in [Slot -> SUBSET Node]
      BY <2>2, <3>2 DEF add_timer, WheelOK
    <3>4. Rotation(len) \in Nat
      BY <3>1 DEF Rotation, TIME_WHEEL_SIZE
    <3>5. rotation' \in [Node -> Nat]
      BY <2>2, <3>4 DEF add_timer, WheelOK
    <3>6. \A p \in Slot : n \notin slot[p]
      BY <2>2 DEF add_timer, Allocated
    <3>7. \A p, q \in Slot : p # q => slot'[p] \cap slot'[q] = {}
      BY <2>2, <3>2, <3>6 DEF add_timer, WheelOK
    <3>. QED
      BY <2>2, <3>3, <3>5, <3>7 DEF add_timer, WheelOK
  <2>3. CASE UNCHANGED vars
    BY <2>3 DEF vars, WheelOK
  <2>. QED
    BY <2>1, <2>2, <2>3 DEF Next
<1>. QED
  BY <1>1, <1>2, PTL DEF Spec

-----------------------------------------------------------------------------
(* One tick of the wheel is one tick of the countdown. *)
LEMMA TickRefines ==
    ASSUME WheelOK, WheelOK', tick
    PROVE  C!Tick
<1>. DEFINE after == [n \in Node |-> IF left[n] \in {0, Off} THEN Off ELSE left[n] - 1]
<1>0. current \in Slot /\ current \in Int
  BY DEF WheelOK, Slot, TIME_WHEEL_SIZE
<1>1. \A p \in Slot : /\ Distance(p) \in Nat
                      /\ Distance(p) = 0 <=> p = current
                      /\ Distance(p)' = IF p = current THEN TIME_WHEEL_SIZE - 1
                                                       ELSE Distance(p) - 1
  BY <1>0 DEF tick, Distance, Slot, TIME_WHEEL_SIZE
<1>2. ASSUME NEW n \in Node
      PROVE  /\ left'[n] = after[n]
             /\ n \in Expired <=> left[n] = 0
  <2>1. CASE ~ Allocated(n)
    <3>1. ~ Allocated(n)'
      BY <2>1, <1>0 DEF Allocated, tick, WheelOK
    <3>2. left[n] = Off /\ left'[n] = Off
      BY <2>1, <3>1 DEF left
    <3>3. n \notin Expired
      BY <2>1, <1>0 DEF Expired, Allocated
    <3>. QED
      BY <3>2, <3>3, TimerAssumption
  <2>2. ASSUME NEW p \in Slot, n \in slot[p]
        PROVE  /\ left'[n] = after[n]
               /\ n \in Expired <=> left[n] = 0
    <3>1. /\ left[n] = Distance(p) + TIME_WHEEL_SIZE * rotation[n]
          /\ left[n] \in Nat
      BY <2>2, LeftInSlot
    <3>2. rotation[n] \in Nat
      BY DEF WheelOK
    <3>3. n \in slot[current] <=> p = current
      BY <2>2, <1>0 DEF WheelOK
    <3>4. n \in Expired <=> (p = current /\ rotation[n] = 0)
      BY <3>2, <3>3 DEF Expired
    <3>5. n \in Expired <=> left[n] = 0
      BY <3>1, <3>2, <3>4, <1>1 DEF TIME_WHEEL_SIZE
    <3>6. CASE n \in Expired
      <4>1. ~ Allocated(n)'
        <5>1. p = current
          BY <3>4, <3>6
        <5>2. \A q \in Slot : q # p => n \notin slot[q]
          BY <2>2 DEF WheelOK
        <5>. QED
          BY <5>1, <5>2, <3>6 DEF Allocated, tick, WheelOK
      <4>2. left'[n] = Off
        BY <4>1 DEF left
      <4>. QED
        BY <4>2, <3>5, <3>6
    <3>7. CASE n \notin Expired
      <4>1. n \in slot'[p]
        BY <2>2, <3>7 DEF tick, WheelOK
      <4>2. left'[n] = Distance(p)' + TIME_WHEEL_SIZE * rotation'[n]
        <5>1. Allocated(n)' /\ PositionOf(n)' = p
          <6>1. \A q \in Slot : n \in slot'[q] => q = p
            BY <4>1 DEF WheelOK
          <6>. QED
            BY <4>1, <6>1 DEF Allocated, PositionOf
        <5>. QED
          BY <5>1 DEF left, Distance
      <4>3. rotation'[n] = IF p = current THEN rotation[n] - 1 ELSE rotation[n]
        BY <3>3, <3>7 DEF tick
      <4>4. left'[n] = left[n] - 1
        BY <4>2, <4>3, <3>1, <3>2, <1>1 DEF TIME_WHEEL_SIZE
      <4>. QED
        BY <4>4, <3>1, <3>5, <3>7, TimerAssumption
    <3>. QED
      BY <3>5, <3>6, <3>7
  <2>. QED
    BY <2>1, <2>2 DEF Allocated
<1>3. left' = after
  BY <1>2 DEF left
<1>4. fired' = {n \in Node : left[n] = 0}
  BY <1>2, <1>0 DEF tick, Expired, WheelOK
<1>. QED
  BY <1>3, <1>4 DEF C!Tick

(* add_timer of the wheel is Add of the countdown. *)
LEMMA AddRefines ==
    ASSUME WheelOK, WheelOK', NEW n \in Node, NEW len \in Lens, add_timer(n, len)
    PROVE  C!Add(n, len)
<1>. DEFINE pos == (len + current) % TIME_WHEEL_SIZE
<1>0. len \in Nat /\ current \in Slot /\ current \in Int
  BY TimerAssumption DEF WheelOK, Slot, TIME_WHEEL_SIZE
<1>1. pos \in Slot /\ Distance(pos) + TIME_WHEEL_SIZE * Rotation(len) = len
  BY <1>0 DEF Distance, Rotation, Slot, TIME_WHEEL_SIZE
<1>2. left[n] = Off
  BY LeftOff DEF add_timer
<1>3. left'[n] = len
  <2>1. n \in slot'[pos] /\ rotation'[n] = Rotation(len) /\ current' = current
    BY <1>1 DEF add_timer, WheelOK
  <2>2. Allocated(n)' /\ PositionOf(n)' = pos
    <3>1. \A q \in Slot : n \in slot'[q] => q = pos
      BY <2>1, <1>1 DEF WheelOK
    <3>. QED
      BY <2>1, <3>1, <1>1 DEF Allocated, PositionOf
  <2>. QED
    BY <2>1, <2>2, <1>1 DEF left, Distance
<1>4. ASSUME NEW m \in Node, m # n
      PROVE  left'[m] = left[m]
  <2>1. \A q \in Slot : m \in slot'[q] <=> m \in slot[q]
    BY <1>4 DEF add_timer, WheelOK
  <2>2. Allocated(m)' <=> Allocated(m)
    BY <2>1 DEF Allocated
  <2>3. Allocated(m) => PositionOf(m)' = PositionOf(m)
    BY <2>1 DEF Allocated, PositionOf
  <2>4. rotation'[m] = rotation[m] /\ current' = current
    BY <1>4 DEF add_timer, WheelOK
  <2>. QED
    BY <2>2, <2>3, <2>4 DEF left, Distance
<1>5. left' = [left EXCEPT ![n] = len]
  BY <1>3, <1>4 DEF left
<1>. QED
  BY <1>2, <1>5 DEF C!Add, add_timer

(* Every behaviour of the wheel of timer.c is one of the countdown: a timer *)
(* goes off on the tick that exactly its length of ticks precede, and once. *)
THEOREM WheelRefinesCountdown ==
    Spec => C!Init /\ [][C!Next]_<<left, fired>>
<1>1. Init => C!Init
  <2>. SUFFICES ASSUME Init PROVE C!Init
    OBVIOUS
  <2>1. \A n \in Node : ~ Allocated(n)
    BY DEF Init, Allocated
  <2>. QED
    BY <2>1 DEF Init, C!Init, left
<1>2. WheelOK /\ WheelOK' /\ [Next]_vars => [C!Next]_<<left, fired>>
  <2>. SUFFICES ASSUME WheelOK, WheelOK', [Next]_vars
                PROVE  [C!Next]_<<left, fired>>
    OBVIOUS
  <2>1. CASE tick
    BY <2>1, TickRefines DEF C!Next
  <2>2. ASSUME NEW n \in Node, NEW len \in Lens, add_timer(n, len)
        PROVE  C!Next
    BY <2>2, AddRefines DEF C!Next
  <2>3. CASE UNCHANGED vars
    BY <2>3 DEF vars, left, Allocated, PositionOf, Distance
  <2>. QED
    BY <2>1, <2>2, <2>3 DEF Next
<1>. QED
  BY <1>1, <1>2, WheelInvariant, PTL DEF Spec

=============================================================================
