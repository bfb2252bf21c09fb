--------------------------- MODULE SocketIOProofs ---------------------------
(***************************************************************************)
(* Proofs about SocketIO: the bookkeeping of writev for every iovec, and,  *)
(* with it, that the loops lose, repeat and reorder no byte and report no  *)
(* short count, for all calls, lengths, buffers and capacities.            *)
(***************************************************************************)
EXTENDS SocketIO, SequenceTheorems, WellFoundedInduction, TLAPS

(* Induction over data: a set of naturals has a smallest element, so that a  *)
(* claim about all lengths is proved by looking at its first exception.      *)
LEMMA Smallest ==
    ASSUME NEW T \in SUBSET Nat, T # {}
    PROVE  \E x \in T : \A y \in T : x <= y
<1>1. PICK x \in T : \A y \in T : ~ (<<y, x>> \in OpToRel(<, Nat))
  BY NatLessThanWellFounded, WFMin
<1>2. \A y \in T : <<y, x>> \in OpToRel(<, Nat) <=> y < x
  BY DEF OpToRel
<1>3. \A y \in T : ~ (y < x)
  BY <1>1, <1>2, Zenon
<1>. QED
  BY <1>3

-----------------------------------------------------------------------------
(* The sum of an iovec.  Sum is a recursive function, so that its value is   *)
(* known only once a function of that recursion is shown to exist.           *)

(* t[k] is the number of bytes in the first k buffers. *)
Sums(t, iov) ==
    /\ t \in [0..Len(iov) -> Nat] /\ t[0] = 0
    /\ \A k \in 1..Len(iov) : t[k] = t[k - 1] + iov[k]

(* Every iovec has its partial sums. *)
LEMMA SumsExist ==
    ASSUME NEW iov \in Seq(Nat) PROVE \E t : Sums(t, iov)
<1>. DEFINE Part(t, n) ==
              /\ t \in [0..n -> Nat] /\ t[0] = 0
              /\ \A k \in 1..n : t[k] = t[k-1] + iov[k]
            T == {n \in 0..Len(iov) : ~ \E t : Part(t, n)}
<1>0. Len(iov) \in Nat /\ \A k \in 1..Len(iov) : iov[k] \in Nat
  OBVIOUS
<1>1. CASE T = {}
  <2>1. Len(iov) \in 0..Len(iov)
    BY <1>0
  <2>2. \E t : Part(t, Len(iov))
    BY <2>1, <1>1
  <2>. QED
    BY <2>2 DEF Sums
<1>2. CASE T # {}
  <2>0. T \in SUBSET Nat
    BY <1>0
  <2>1. PICK m \in T : \A y \in T : m <= y
    <3>. HIDE DEF T
    <3>. QED
      BY <1>2, <2>0, Smallest
  <2>2. Part([k \in 0..0 |-> 0], 0)
    <3>. DEFINE z == [k \in 0..0 |-> 0]
    <3>1. z \in [0..0 -> Nat] /\ z[0] = 0
      OBVIOUS
    <3>2. \A k \in 1..0 : z[k] = z[k - 1] + iov[k]
      OBVIOUS
    <3>. QED
      BY <3>1, <3>2
  <2>3. m \in 0..Len(iov) /\ ~ \E t : Part(t, m)
    BY <2>1
  <2>4. m # 0
    BY <2>2, <2>3
  <2>5. m - 1 \in 0..Len(iov) /\ ~ (m <= m - 1)
    BY <2>3, <2>4, <1>0
  <2>6. \E t : Part(t, m - 1)
    BY <2>1, <2>5
  <2>7. PICK t : Part(t, m - 1)
    BY <2>6
  <2>. DEFINE tt == [k \in 0..m |-> IF k = m THEN t[m - 1] + iov[m] ELSE t[k]]
  <2>8. Part(tt, m)
    <3>. HIDE DEF T
    <3>1. m \in Nat /\ t \in [0..(m - 1) -> Nat] /\ iov[m] \in Nat
      BY <2>3, <2>4, <2>7, <1>0
    <3>2. tt \in [0..m -> Nat] /\ tt[0] = 0
      BY <2>4, <2>7, <3>1
    <3>3. \A k \in 1..m : tt[k] = tt[k - 1] + iov[k]
      BY <2>4, <2>7, <3>1
    <3>. QED
      BY <3>2, <3>3
  <2>. QED
    BY <2>8, <2>3
<1>. QED
  BY <1>1, <1>2

(* The recursion of Sum has no other solution. *)
LEMMA SumsUnique ==
    ASSUME NEW iov \in Seq(Nat), NEW s, NEW t,
           Sums(s, iov),
           t = [k \in 0..Len(iov) |-> IF k = 0 THEN 0 ELSE t[k - 1] + iov[k]]
    PROVE  s = t
<1>. DEFINE T == {n \in 0..Len(iov) : s[n] # t[n]}
<1>0. Len(iov) \in Nat /\ \A k \in 1..Len(iov) : iov[k] \in Nat
  OBVIOUS
<1>3. /\ DOMAIN t = 0..Len(iov) /\ t[0] = 0
      /\ \A k \in 1..Len(iov) : t[k] = t[k - 1] + iov[k]
  BY <1>0
<1>1. CASE T # {}
  <2>0. T \in SUBSET Nat
    BY <1>0
  <2>1. PICK m \in T : \A y \in T : m <= y
    <3>. HIDE DEF T
    <3>. QED
      BY <1>1, <2>0, Smallest
  <2>2. m \in 0..Len(iov) /\ s[m] # t[m]
    BY <2>1
  <2>3. m # 0
    BY <2>2, <1>3 DEF Sums
  <2>4. m - 1 \in 0..Len(iov) /\ ~ (m <= m - 1) /\ m \in 1..Len(iov)
    BY <2>2, <2>3, <1>0
  <2>5. s[m - 1] = t[m - 1]
    BY <2>4, <2>1
  <2>6. s[m] = t[m]
    BY <2>4, <2>5, <1>3 DEF Sums
  <2>. QED
    BY <2>2, <2>6
<1>2. CASE T = {}
  <2>1. \A n \in 0..Len(iov) : s[n] = t[n]
    BY <1>2
  <2>2. s = [n \in 0..Len(iov) |-> s[n]] /\ t = [n \in 0..Len(iov) |-> t[n]]
    BY <1>3 DEF Sums
  <2>. QED
    BY <2>1, <2>2
<1>. QED
  BY <1>1, <1>2

(* Sum is the last of the partial sums. *)
LEMMA SumIs ==
    ASSUME NEW iov \in Seq(Nat), NEW t, Sums(t, iov)
    PROVE  Sum(iov) = t[Len(iov)]
<1>. DEFINE Eq(s) == s = [k \in 0..Len(iov) |-> IF k = 0 THEN 0 ELSE s[k - 1] + iov[k]]
            c == CHOOSE s : Eq(s)
<1>1. Eq(t)
  BY DEF Sums
<1>2. Eq(c)
  BY <1>1, Zenon
<1>3. t = c
  <2>. HIDE DEF c
  <2>. QED BY <1>2, SumsUnique
<1>4. Sum(iov) = c[Len(iov)]
  BY Zenon DEF Sum
<1>. QED
  BY <1>3, <1>4

(* The partial sums do not decrease. *)
LEMMA SumsGrow ==
    ASSUME NEW iov \in Seq(Nat), NEW t, Sums(t, iov),
           NEW k \in 0..Len(iov), NEW m \in k..Len(iov)
    PROVE  t[k] <= t[m]
<1>. DEFINE T == {i \in k..Len(iov) : ~ (t[k] <= t[i])}
<1>1. Len(iov) \in Nat /\ \A i \in 1..Len(iov) : iov[i] \in Nat
  OBVIOUS
<1>2. CASE T = {}
  BY <1>2
<1>3. CASE T # {}
  <2>1. T \in SUBSET Nat
    BY <1>1
  <2>2. PICK i \in T : \A y \in T : i <= y
    <3>. HIDE DEF T
    <3>. QED
      BY <1>3, <2>1, Smallest
  <2>3. i \in k..Len(iov) /\ ~ (t[k] <= t[i])
    BY <2>2
  <2>4. i # k
    BY <2>3 DEF Sums
  <2>5. i - 1 \in k..Len(iov) /\ i \in 1..Len(iov) /\ ~ (i <= i - 1)
    BY <2>3, <2>4, <1>1
  <2>6. t[k] <= t[i - 1]
    BY <2>5, <2>2
  <2>7. t[i] = t[i - 1] + iov[i] /\ t[k] \in Nat /\ t[i - 1] \in Nat /\ iov[i] \in Nat
    <3>. HIDE DEF T
    <3>1. i - 1 \in 0..Len(iov) /\ i \in 1..Len(iov)
      BY <2>5, <1>1
    <3>. QED
      BY <3>1, <1>1 DEF Sums
  <2>8. t[k] <= t[i]
    <3>. HIDE DEF T
    <3>. QED
      BY <2>6, <2>7
  <2>. QED
    BY <2>3, <2>8
<1>. QED
  BY <1>2, <1>3

(* The first k buffers hold t[k] bytes. *)
LEMMA SumOfFirst ==
    ASSUME NEW iov \in Seq(Nat), NEW t, Sums(t, iov), NEW k \in 0..Len(iov)
    PROVE  Sum(SubSeq(iov, 1, k)) = t[k]
<1>. DEFINE q == SubSeq(iov, 1, k)
            s == [j \in 0..k |-> t[j]]
<1>1. q \in Seq(Nat) /\ Len(q) = k /\ \A j \in 1..k : q[j] = iov[j]
  OBVIOUS
<1>2. Sums(s, q)
  <2>. HIDE DEF q
  <2>1. k \in Nat /\ Len(iov) \in Nat /\ k <= Len(iov)
    OBVIOUS
  <2>2. s \in [0..k -> Nat] /\ s[0] = 0
    BY <2>1 DEF Sums
  <2>3. \A j \in 1..k : j \in 1..Len(iov) /\ j - 1 \in 0..k
    BY <2>1
  <2>4. ASSUME NEW j \in 1..k PROVE s[j] = s[j - 1] + q[j]
    <3>1. s[j] = t[j] /\ s[j - 1] = t[j - 1]
      BY <2>1, <2>3
    <3>2. t[j] = t[j - 1] + iov[j]
      BY <2>3 DEF Sums
    <3>. QED
      BY <1>1, <3>1, <3>2
  <2>. HIDE DEF s
  <2>. QED
    BY <1>1, <2>2, <2>4 DEF Sums
<1>3. Sum(q) = s[k]
  <2>. HIDE DEF q, s
  <2>. QED
    BY <1>1, <1>2, SumIs
<1>. QED
  BY <1>3

(* n bytes end in a buffer that Advance finds. *)
LEMMA BufferOf ==
    ASSUME NEW iov \in Seq(Nat), NEW t, Sums(t, iov), NEW n \in 1..t[Len(iov)]
    PROVE  \E k \in 1..Len(iov) : t[k - 1] < n /\ n <= t[k]
<1>. DEFINE T == {i \in 0..Len(iov) : n <= t[i]}
<1>1. Len(iov) \in Nat /\ t \in [0..Len(iov) -> Nat] /\ t[0] = 0
  BY DEF Sums
<1>2. T \in SUBSET Nat /\ Len(iov) \in T
  BY <1>1
<1>3. PICK i \in T : \A y \in T : i <= y
  <2>. HIDE DEF T
  <2>. QED
    BY <1>2, Smallest
<1>4. i \in 0..Len(iov) /\ n <= t[i] /\ i # 0
  BY <1>1, <1>3
<1>5. i \in 1..Len(iov) /\ i - 1 \in 0..Len(iov) /\ ~ (i <= i - 1)
  BY <1>1, <1>4
<1>6. i - 1 \notin T
  BY <1>3, <1>5
<1>7. t[i - 1] < n
  BY <1>1, <1>5, <1>6
<1>. QED
  BY <1>4, <1>5, <1>7

(* What is behind the first k buffers, with m bytes before it, holds the    *)
(* difference.                                                              *)
LEMMA SumOfRest ==
    ASSUME NEW iov \in Seq(Nat), NEW t, Sums(t, iov), NEW k \in 0..Len(iov)
    PROVE  /\ Sum(SubSeq(iov, k + 1, Len(iov))) = t[Len(iov)] - t[k]
           /\ \A m \in Nat : Sum(<<m>> \o SubSeq(iov, k + 1, Len(iov)))
                                = m + t[Len(iov)] - t[k]
<1>. DEFINE L == Len(iov)
            q == SubSeq(iov, k + 1, L)
<1>1. L \in Nat /\ t \in [0..L -> Nat] /\ \A j \in 1..L : t[j] = t[j - 1] + iov[j]
  BY DEF Sums
<1>0. k \in 0..L /\ k \in Nat /\ t[k] \in Nat
  BY <1>1
<1>2. q \in Seq(Nat) /\ Len(q) = L - k /\ \A j \in 1..(L - k) : q[j] = iov[k + j]
  <2>1. q \in Seq(Nat) /\ Len(q) = L - k
    OBVIOUS
  <2>2. \A j \in 1..(L - k) : q[j] = iov[k + j]
    OBVIOUS
  <2>. QED
    BY <2>1, <2>2
<1>3. \A j \in 0..(L - k) : k + j \in k..L /\ k + j \in 0..L /\ t[k] <= t[k + j]
  BY <1>1, SumsGrow
<1>4. Sum(q) = t[L] - t[k]
  <2>. DEFINE s == [j \in 0..(L - k) |-> t[k + j] - t[k]]
  <2>1. s \in [0..(L - k) -> Nat] /\ s[0] = 0
    <3>. HIDE DEF q, L
    <3>1. \A j \in 0..(L - k) : t[k + j] - t[k] \in Nat
      <4>. TAKE j \in 0..(L - k)
      <4>1. t[k + j] \in Nat /\ t[k] <= t[k + j]
        BY <1>1, <1>3
      <4>. QED
        BY <4>1, <1>0
    <3>2. 0 \in 0..(L - k) /\ k + 0 = k /\ t[k] - t[k] = 0
      BY <1>0, <1>1
    <3>. QED
      BY <3>1, <3>2
  <2>2. \A j \in 1..(L - k) : s[j] = s[j - 1] + q[j]
    <3>. TAKE j \in 1..(L - k)
    <3>1. j \in 0..(L - k) /\ j - 1 \in 0..(L - k) /\ k + j \in 1..L
      BY <1>1
    <3>2. s[j] = t[k + j] - t[k] /\ s[j - 1] = t[k + (j - 1)] - t[k]
      BY <3>1
    <3>3. k + (j - 1) = (k + j) - 1
      BY <1>1
    <3>4. t[k + j] = t[(k + j) - 1] + q[j]
      BY <1>1, <1>2, <3>1
    <3>5. t[k + j] \in Nat /\ t[(k + j) - 1] \in Nat /\ q[j] \in Nat /\ t[k] \in Nat
      <4>. HIDE DEF s, q
      <4>1. (k + j) - 1 \in 0..L /\ k + j \in 0..L /\ k \in 0..L
        BY <1>1, <3>1
      <4>. HIDE DEF L
      <4>2. q[j] \in Nat
        BY <1>2
      <4>. QED
        BY <1>1, <4>1, <4>2
    <3>. HIDE DEF s, q, L
    <3>. QED
      BY <3>2, <3>3, <3>4, <3>5
  <2>3. Sum(q) = s[L - k]
    <3>. HIDE DEF s, q
    <3>. QED
      BY <1>2, <2>1, <2>2, SumIs DEF Sums
  <2>4. k + (L - k) = L /\ L - k \in 0..(L - k)
    BY <1>1
  <2>. QED
    BY <2>3, <2>4
<1>5. ASSUME NEW m \in Nat PROVE Sum(<<m>> \o q) = m + t[L] - t[k]
  <2>. DEFINE p == <<m>> \o q
              s == [j \in 0..(L - k + 1) |-> IF j = 0 THEN 0 ELSE m + t[k + (j - 1)] - t[k]]
  <2>1. /\ p \in Seq(Nat) /\ Len(p) = L - k + 1 /\ p[1] = m
        /\ \A j \in 2..(L - k + 1) : p[j] = q[j - 1]
    <3>. HIDE DEF q
    <3>. QED
      BY <1>1, <1>2
  <2>2. s \in [0..(L - k + 1) -> Nat] /\ s[0] = 0
    <3>1. \A j \in 1..(L - k + 1) : j - 1 \in 0..(L - k)
      BY <1>1
    <3>2. \A j \in 1..(L - k + 1) : m + t[k + (j - 1)] - t[k] \in Nat
      <4>. TAKE j \in 1..(L - k + 1)
      <4>. HIDE DEF q, L
      <4>1. t[k + (j - 1)] \in Nat /\ t[k] \in Nat /\ t[k] <= t[k + (j - 1)]
        BY <1>0, <1>1, <1>3, <3>1
      <4>. QED
        BY <4>1
    <3>. HIDE DEF q, L
    <3>3. 0 \in 0..(L - k + 1) /\ \A j \in 0..(L - k + 1) : j # 0 => j \in 1..(L - k + 1)
      BY <1>0, <1>1
    <3>. QED
      BY <3>2, <3>3
  <2>3. \A j \in 1..(L - k + 1) : s[j] = s[j - 1] + p[j]
    <3>. TAKE j \in 1..(L - k + 1)
    <3>1. CASE j = 1
      <4>1. s[1] = m + t[k + 0] - t[k] /\ s[0] = 0
        BY <1>1
      <4>2. t[k + 0] = t[k] /\ t[k] \in Nat
        BY <1>1
      <4>. HIDE DEF s, p, L
      <4>. QED
        BY <3>1, <4>1, <4>2, <2>1
    <3>2. CASE j # 1
      <4>1. /\ j - 1 \in 1..(L - k) /\ j \in 2..(L - k + 1)
            /\ k + (j - 1) \in 1..L /\ k + (j - 1) \in 0..L
            /\ (k + (j - 1)) - 1 \in 0..L /\ k + ((j - 1) - 1) = (k + (j - 1)) - 1
        BY <1>1, <3>2
      <4>2. /\ s[j] = m + t[k + (j - 1)] - t[k]
            /\ s[j - 1] = m + t[k + ((j - 1) - 1)] - t[k]
        BY <1>1, <4>1
      <4>3. p[j] = iov[k + (j - 1)]
        BY <2>1, <1>2, <4>1
      <4>4. t[k + (j - 1)] = t[(k + (j - 1)) - 1] + iov[k + (j - 1)]
        BY <1>1, <4>1
      <4>5. iov[k + (j - 1)] \in Nat /\ t[(k + (j - 1)) - 1] \in Nat /\ t[k] \in Nat
        <5>1. \A i \in 1..L : iov[i] \in Nat
          OBVIOUS
        <5>. HIDE DEF s, p, q, L
        <5>2. k \in 0..L
          BY DEF L
        <5>. QED
          BY <1>1, <4>1, <5>1, <5>2
      <4>. DEFINE b == t[(k + (j - 1)) - 1]
                  c == iov[k + (j - 1)]
                  d == t[k]
      <4>6. s[j] = m + (b + c) - d /\ s[j - 1] = m + b - d /\ p[j] = c
        <5>. HIDE DEF s, p, L
        <5>. QED
          BY <4>1, <4>2, <4>3, <4>4
      <4>7. b \in Nat /\ c \in Nat /\ d \in Nat
        BY <4>5
      <4>. HIDE DEF s, p, L, b, c, d
      <4>8. m + (b + c) - d = (m + b - d) + c
        BY <4>7
      <4>. QED
        BY <4>6, <4>8
    <3>. QED
      BY <3>1, <3>2
  <2>4. Sum(p) = s[L - k + 1]
    <3>. HIDE DEF s, p
    <3>. QED
      BY <2>1, <2>2, <2>3, SumIs DEF Sums
  <2>5. k + ((L - k + 1) - 1) = L /\ L - k + 1 \in 1..(L - k + 1)
    BY <1>1
  <2>. QED
    BY <2>4, <2>5
<1>. QED
  BY <1>4, <1>5

(* An iovec holds a natural number of bytes, the empty one none. *)
LEMMA SumType ==
    ASSUME NEW iov \in Seq(Nat) PROVE Sum(iov) \in Nat /\ (iov = <<>> => Sum(iov) = 0)
<1>1. PICK t : Sums(t, iov)
  BY SumsExist
<1>2. Sum(iov) = t[Len(iov)]
  BY <1>1, SumIs
<1>. QED
  BY <1>1, <1>2 DEF Sums

(* The last buffer is not empty. *)
EndsFull(iov) == iov # <<>> /\ iov[Len(iov)] # 0

LEMMA InFront ==
    ASSUME NEW q \in Seq(Nat), NEW m \in Nat, m # 0, q # <<>> => EndsFull(q)
    PROVE  EndsFull(<<m>> \o q)
<1>1. /\ <<m>> \o q \in Seq(Nat) /\ Len(<<m>> \o q) = 1 + Len(q)
      /\ (<<m>> \o q)[1] = m /\ \A i \in 1..Len(q) : (<<m>> \o q)[1 + i] = q[i]
  OBVIOUS
<1>2. <<m>> \o q # <<>>
  BY <1>1
<1>3. CASE Len(q) = 0
  BY <1>1, <1>2, <1>3 DEF EndsFull
<1>4. CASE Len(q) # 0
  <2>1. Len(q) \in 1..Len(q) /\ q # <<>>
    BY <1>4
  <2>. QED
    BY <1>1, <1>2, <2>1 DEF EndsFull
<1>. QED
  BY <1>3, <1>4

LEMMA SumPositive ==
    ASSUME NEW iov \in Seq(Nat), EndsFull(iov)
    PROVE  Sum(iov) > 0
<1>1. PICK t : Sums(t, iov)
  BY SumsExist
<1>2. Sum(iov) = t[Len(iov)]
  BY <1>1, SumIs
<1>3. Len(iov) \in 1..Len(iov) /\ Len(iov) - 1 \in 0..Len(iov) /\ iov[Len(iov)] \in Nat \ {0}
  BY DEF EndsFull
<1>4. t[Len(iov)] = t[Len(iov) - 1] + iov[Len(iov)] /\ t[Len(iov) - 1] \in Nat
  BY <1>1, <1>3 DEF Sums
<1>. QED
  BY <1>2, <1>3, <1>4

(* The inner loop of uthread_writev, for every iovec and every count that   *)
(* the kernel can return: it takes exactly n bytes off the front, and never *)
(* leaves only empty buffers unless there were some behind the last byte.   *)
LEMMA AdvanceTakes ==
    ASSUME NEW iov \in Seq(Nat), NEW n \in 1..Sum(iov)
    PROVE  /\ Advance(iov, n) \in Seq(Nat) /\ Sum(Advance(iov, n)) = Sum(iov) - n
           /\ EndsFull(iov) /\ Advance(iov, n) # <<>> => EndsFull(Advance(iov, n))
<1>1. PICK t : Sums(t, iov)
  BY SumsExist
<1>. DEFINE L == Len(iov)
            Before(k) == Sum(SubSeq(iov, 1, k))
            Ends(i) == Before(i - 1) < n /\ n <= Before(i)
            k == CHOOSE i \in 1..L : Ends(i)
            rest == SubSeq(iov, k + 1, L)
<1>2. Sum(iov) = t[L] /\ t \in [0..L -> Nat] /\ L \in Nat
  BY <1>1, SumIs DEF Sums
<1>3. \A i \in 0..L : Before(i) = t[i]
  BY <1>1, SumOfFirst
<1>4. \E i \in 1..L : Ends(i)
  <2>1. PICK i \in 1..L : t[i - 1] < n /\ n <= t[i]
    BY <1>1, <1>2, BufferOf
  <2>2. i - 1 \in 0..L /\ i \in 0..L
    BY <1>2
  <2>. QED
    BY <1>3, <2>1, <2>2
<1>5. k \in 1..L /\ Ends(k)
  <2>. HIDE DEF Ends
  <2>. QED
    BY <1>4
<1>6. k \in 0..L /\ Before(k) = t[k] /\ n <= t[k] /\ t[k] \in Nat /\ n \in Nat
  <2>. HIDE DEF k
  <2>. QED
    BY <1>2, <1>3, <1>5
<1>7. rest \in Seq(Nat) /\ Sum(rest) = t[L] - t[k]
  <2>. HIDE DEF k
  <2>1. rest \in Seq(Nat)
    BY <1>6
  <2>. QED
    BY <1>1, <1>6, <2>1, SumOfRest
<1>8. <<t[k] - n>> \o rest \in Seq(Nat) /\ Sum(<<t[k] - n>> \o rest) = t[L] - n
  <2>. HIDE DEF k
  <2>1. t[k] - n \in Nat
    BY <1>6
  <2>2. Sum(<<t[k] - n>> \o rest) = (t[k] - n) + t[L] - t[k]
    BY <1>1, <1>6, <2>1, SumOfRest
  <2>3. t[L] \in Nat
    BY <1>2
  <2>. QED
    BY <1>6, <1>7, <2>1, <2>2, <2>3
<1>9. Advance(iov, n) = IF n = Before(k) THEN rest ELSE <<Before(k) - n>> \o rest
  BY Zenon DEF Advance
<1>10. rest # <<>> => rest[Len(rest)] = iov[L]
  <2>. HIDE DEF k
  <2>1. Len(rest) = L - k /\ \A j \in 1..(L - k) : rest[j] = iov[k + j]
    BY <1>6
  <2>2. rest # <<>> => L - k \in 1..(L - k) /\ k + (L - k) = L
    <3>. SUFFICES ASSUME rest # <<>> PROVE L - k \in 1..(L - k) /\ k + (L - k) = L
      OBVIOUS
    <3>1. Len(rest) # 0
      <4>. HIDE DEF rest
      <4>. QED
        BY <1>7, EmptySeq
    <3>2. L - k # 0
      BY <2>1, <3>1
    <3>. QED
      BY <1>2, <1>6, <3>2
  <2>. QED
    BY <2>1, <2>2
<1>11. ASSUME NEW m \in Nat, m # 0, EndsFull(iov) PROVE EndsFull(<<m>> \o rest)
  <2>. HIDE DEF k, rest
  <2>1. rest # <<>> => EndsFull(rest)
    BY <1>10, <1>11 DEF EndsFull
  <2>. QED
    BY <1>7, <1>11, <2>1, InFront
<1>. HIDE DEF k, rest, Before
<1>12. EndsFull(iov) /\ Advance(iov, n) # <<>> => EndsFull(Advance(iov, n))
  <2>1. CASE n = Before(k)
    BY <1>9, <1>10, <2>1 DEF EndsFull
  <2>2. CASE n # Before(k)
    <3>1. Before(k) - n \in Nat /\ Before(k) - n # 0
      BY <1>6, <2>2
    <3>. QED
      BY <1>9, <1>11, <2>2, <3>1
  <2>. QED
    BY <2>1, <2>2
<1>. QED
  BY <1>2, <1>6, <1>7, <1>8, <1>9, <1>12

-----------------------------------------------------------------------------
(* The inductive invariant *)

Frame == [call : AllCalls \cup {"none"}, nested : BOOLEAN,
          at : {"user", "top", "ret", "wait", "woken", "ended"},
          want : Nat, done : Nat, ret : Int, iov : Seq(Nat), got : Seq(Nat)]

SocketTypeOK ==
    /\ co \in [Ut -> Frame] /\ rcv \in [Ut -> Seq(Nat)] /\ inn \in [Ut -> Seq(Nat)]
    /\ total \in [Ut -> Nat] /\ failed \in [Ut -> BOOLEAN] /\ shut \in [Ut -> BOOLEAN]

(* The program gives writev no iovec that ends with empty buffers.  (With   *)
(* one, the inner loop leaves them, and the next turn's writev of nothing   *)
(* makes the call return 0 although all was sent: uthread_socket.c:313.)    *)
LastsFull == \A iov \in Iovs : iov[Len(iov)] # 0

(* What the last system call moved and the loop has not added up yet. *)
Fresh(c) == IF c.at = "ret" /\ c.ret > 0 THEN c.ret ELSE 0

(* The bytes that a call has put into the kernel. *)
Put(c) == IF c.call \in Sending THEN c.done + Fresh(c) ELSE 0

(* The books of a call: a loop has counted what it has in its buffer or has *)
(* handed to the kernel, and writev's iovec holds the rest.                 *)
BooksOK(c) ==
    /\ c.at \in {"user", "ended"} <=> c.call = "none"
    /\ c.done + Fresh(c) <= c.want
    /\ c.call \in ReadCalls \cup MessageCalls => c.done = 0 \/ c.nested
    /\ Len(c.got) = IF c.call \in Receiving THEN c.done + Fresh(c) ELSE 0
    /\ c.call = "writev" => Sum(c.iov) = c.want - c.done /\ (LastsFull => EndsFull(c.iov))
    /\ c.call \in WriteCalls /\ c.at = "ret" => c.ret # 0
    /\ c.call = "writev" /\ c.at = "ret" /\ LastsFull => c.ret # 0
    /\ c.nested => c.call = "read" /\ c.done < c.want

(* An exact read that got nothing has met the end of the stream. *)
EndMet(u, c) ==
    (c.call \in ExactCalls \/ c.nested) /\ c.at = "ret" /\ c.ret = 0
        => shut[Peer(u)] /\ rcv[u] = <<>>

(* A coroutine that has met an error makes no call; one that has closed its *)
(* end does not use it.                                                     *)
CallsOK ==
    \A u \in Ut :
        /\ BooksOK(co[u]) /\ EndMet(u, co[u])
        /\ failed[u] => co[u].call = "none"
        /\ shut[u] => co[u].call \notin Receiving \cup Sending

(* What is on its way to u, or there already, is the beginning of what its  *)
(* peer sends: all of it, as long as the peer has met no error.             *)
ReceivedOK ==
    \A u \in Ut :
        ~ failed[u] =>
            /\ Stream(u) = [i \in 1..Len(Stream(u)) |-> i]
            /\ ~ failed[Peer(u)] => Len(Stream(u)) = total[Peer(u)] + Put(co[Peer(u)])

RoomOK == \A u \in Ut : Len(rcv[u]) <= Capacity

SocketInv == SocketTypeOK /\ CallsOK /\ RoomOK /\ (LastsFull => ReceivedOK)

LEMMA PeerFacts ==
    ASSUME NEW u \in Ut
    PROVE  /\ Peer(u) \in Ut /\ Peer(u) # u /\ Peer(Peer(u)) = u
           /\ \A v \in Ut : v # u => v = Peer(u) /\ Peer(v) = u
BY DEF Ut, Peer

(* A sequence is its first n elements and the others. *)
LEMMA Halves ==
    ASSUME NEW q \in Seq(Nat), NEW n \in 0..Len(q)
    PROVE  /\ SubSeq(q, 1, n) \in Seq(Nat) /\ Len(SubSeq(q, 1, n)) = n
           /\ SubSeq(q, n + 1, Len(q)) \in Seq(Nat)
           /\ Len(SubSeq(q, n + 1, Len(q))) = Len(q) - n
           /\ SubSeq(q, 1, n) \o SubSeq(q, n + 1, Len(q)) = q
<1>. DEFINE a == SubSeq(q, 1, n)
            b == SubSeq(q, n + 1, Len(q))
<1>1. a \in Seq(Nat) /\ Len(a) = n /\ \A i \in 1..n : a[i] = q[i]
  OBVIOUS
<1>2. b \in Seq(Nat) /\ Len(b) = Len(q) - n
  OBVIOUS
<1>3. \A i \in 1..(Len(q) - n) : b[i] = q[n + i]
  OBVIOUS
<1>4. /\ a \o b \in Seq(Nat) /\ Len(a \o b) = Len(q)
      /\ \A i \in 1..Len(q) : (a \o b)[i] = IF i <= n THEN a[i] ELSE b[i - n]
  <2>1. n \in Nat /\ Len(q) \in Nat /\ n + (Len(q) - n) = Len(q)
    OBVIOUS
  <2>. HIDE DEF a, b
  <2>2. /\ a \o b \in Seq(Nat) /\ Len(a \o b) = Len(a) + Len(b)
        /\ \A i \in 1..(Len(a) + Len(b)) :
                (a \o b)[i] = IF i <= Len(a) THEN a[i] ELSE b[i - Len(a)]
    BY <1>1, <1>2, ConcatProperties
  <2>3. Len(a) = n /\ Len(a) + Len(b) = Len(q)
    BY <1>1, <1>2, <2>1
  <2>. QED
    BY <2>2, <2>3
<1>5. ASSUME NEW i \in 1..Len(q) PROVE (a \o b)[i] = q[i]
  <2>. HIDE DEF a, b
  <2>1. CASE i <= n
    <3>1. i \in 1..n
      BY <2>1
    <3>2. (a \o b)[i] = a[i]
      BY <1>4, <2>1
    <3>. QED
      BY <1>1, <3>1, <3>2
  <2>2. CASE ~ (i <= n)
    <3>1. i - n \in 1..(Len(q) - n) /\ n + (i - n) = i
      BY <2>2
    <3>2. (a \o b)[i] = b[i - n]
      BY <1>4, <2>2
    <3>. QED
      BY <1>3, <3>1, <3>2
  <2>. QED
    BY <2>1, <2>2
<1>6. a \o b = q
  <2>. HIDE DEF a, b
  <2>. QED
    BY <1>4, <1>5, SeqEqual
<1>. QED
  BY <1>1, <1>2, <1>6

-----------------------------------------------------------------------------
(* The four kinds of steps *)

(* A step of u's call that moves no byte. *)
LEMMA BooksStep ==
    ASSUME SocketInv, NEW u \in Ut, NEW f \in Frame,
           co' = [co EXCEPT ![u] = f],
           BooksOK(f), EndMet(u, f),
           failed[u] => f.call = "none", shut[u] => f.call \notin Receiving \cup Sending,
           f.got = co[u].got, Put(f) = Put(co[u]),
           UNCHANGED <<rcv, shut, appVars>>
    PROVE  SocketInv'
<1>1. co'[u] = f /\ \A v \in Ut : v # u => co'[v] = co[v]
  BY DEF SocketInv, SocketTypeOK
<1>2. SocketTypeOK' /\ RoomOK'
  BY DEF SocketInv, SocketTypeOK, RoomOK, appVars
<1>3. CallsOK'
  <2>. SUFFICES ASSUME NEW v \in Ut
                PROVE  /\ BooksOK(co'[v]) /\ EndMet(v, co[v])'
                       /\ failed'[v] => co'[v].call = "none"
                       /\ shut'[v] => co'[v].call \notin Receiving \cup Sending
    BY DEF CallsOK
  <2>1. CASE v = u
    BY <1>1, <2>1 DEF EndMet, appVars
  <2>2. CASE v # u
    BY <1>1, <2>2 DEF SocketInv, CallsOK, EndMet, appVars
  <2>. QED
    BY <2>1, <2>2
<1>4. LastsFull => ReceivedOK'
  <2>. SUFFICES ASSUME LastsFull PROVE ReceivedOK'
    OBVIOUS
  <2>1. \A v \in Ut : Stream(v)' = Stream(v) /\ Put(co'[v]) = Put(co[v])
    BY <1>1 DEF Stream, appVars
  <2>2. failed' = failed /\ total' = total
    BY DEF appVars
  <2>3. ReceivedOK
    BY DEF SocketInv
  <2>. QED
    BY <2>1, <2>2, <2>3, PeerFacts DEF ReceivedOK
<1>. QED
  BY <1>2, <1>3, <1>4 DEF SocketInv

(* A step that leaves calls, buffers and streams alone. *)
LEMMA QuietStep ==
    ASSUME SocketInv, UNCHANGED <<co, rcv, shut, appVars>>
    PROVE  SocketInv'
<1>1. SocketTypeOK' /\ RoomOK'
  BY DEF SocketInv, SocketTypeOK, RoomOK, appVars
<1>2. CallsOK'
  BY DEF SocketInv, CallsOK, EndMet, appVars
<1>3. LastsFull => ReceivedOK'
  <2>. SUFFICES ASSUME LastsFull PROVE ReceivedOK'
    OBVIOUS
  <2>1. \A v \in Ut : Stream(v)' = Stream(v)
    BY DEF Stream, appVars
  <2>2. co' = co /\ failed' = failed /\ total' = total /\ ReceivedOK
    BY DEF SocketInv, appVars
  <2>. QED
    BY <2>1, <2>2 DEF ReceivedOK
<1>. QED
  BY <1>1, <1>2, <1>3 DEF SocketInv

(* A coroutine closes its end between two calls. *)
LEMMA CloseStep ==
    ASSUME SocketInv, NEW u \in Ut, Close(u)
    PROVE  SocketInv'
<1>1. co[u].call = "none" /\ UNCHANGED <<co, rcv, appVars>>
  BY DEF SocketInv, CallsOK, BooksOK, Close, In
<1>2. shut' = [shut EXCEPT ![u] = TRUE] /\ shut \in [Ut -> BOOLEAN]
  BY DEF Close, SocketInv, SocketTypeOK
<1>3. SocketTypeOK' /\ RoomOK'
  BY <1>1, <1>2 DEF SocketInv, SocketTypeOK, RoomOK, appVars
<1>4. CallsOK'
  BY <1>1, <1>2, PeerFacts
     DEF SocketInv, CallsOK, EndMet, appVars, Receiving, Sending, ReadCalls, ExactCalls,
         WriteCalls, MessageCalls
<1>5. LastsFull => ReceivedOK'
  <2>. SUFFICES ASSUME LastsFull PROVE ReceivedOK'
    OBVIOUS
  <2>1. \A v \in Ut : Stream(v)' = Stream(v)
    BY <1>1 DEF Stream, appVars
  <2>2. co' = co /\ failed' = failed /\ total' = total /\ ReceivedOK
    BY <1>1 DEF SocketInv, appVars
  <2>. QED
    BY <2>1, <2>2 DEF ReceivedOK
<1>. QED
  BY <1>3, <1>4, <1>5 DEF SocketInv

(* Concatenation is associative. *)
LEMMA Associative ==
    ASSUME NEW i \in Seq(Nat), NEW g \in Seq(Nat), NEW a \in Seq(Nat)
    PROVE  (i \o g) \o a = i \o (g \o a)
<1>1. i \o g \in Seq(Nat) /\ g \o a \in Seq(Nat)
  OBVIOUS
<1>2. Len(i \o g) = Len(i) + Len(g) /\ Len(g \o a) = Len(g) + Len(a)
  OBVIOUS
<1>3. Len((i \o g) \o a) = Len(i \o (g \o a))
  BY <1>1, <1>2
<1>4. (i \o g) \o a \in Seq(Nat) /\ i \o (g \o a) \in Seq(Nat)
  BY <1>1
<1>5. \A k \in 1..Len((i \o g) \o a) : ((i \o g) \o a)[k] = (i \o (g \o a))[k]
  BY <1>1, <1>2
<1>. QED
  BY <1>3, <1>4, <1>5, SeqEqual

(* What was returned, what is in the buffer and what the kernel holds. *)
Joined(i, g, q) == i \o g \o q
Extended(q, t) == q \o t

(* A read moves bytes inside the stream, a return as well, and a write      *)
(* appends to it.                                                           *)
LEMMA JoinedRead ==
    ASSUME NEW i \in Seq(Nat), NEW g \in Seq(Nat), NEW a \in Seq(Nat), NEW b \in Seq(Nat)
    PROVE  Joined(i, g \o a, b) = Joined(i, g, a \o b)
<1>1. (i \o g) \o a = i \o (g \o a)
  BY Associative
<1>. DEFINE h == i \o g
<1>2. (h \o a) \o b = h \o (a \o b)
  <2>1. h \in Seq(Nat)
    OBVIOUS
  <2>. HIDE DEF h
  <2>. QED
    BY <2>1, Associative
<1>. QED
  BY <1>1, <1>2 DEF Joined

LEMMA JoinedReturn ==
    ASSUME NEW i \in Seq(Nat), NEW g \in Seq(Nat), NEW q \in Seq(Nat)
    PROVE  Joined(i \o g, <<>>, q) = Joined(i, g, q)
<1>1. i \o g \in Seq(Nat)
  OBVIOUS
<1>2. (i \o g) \o <<>> = i \o g
  BY <1>1, ConcatEmptySeq, Zenon
<1>. QED
  BY <1>2, Zenon DEF Joined

LEMMA JoinedWrite ==
    ASSUME NEW i \in Seq(Nat), NEW g \in Seq(Nat), NEW q \in Seq(Nat), NEW t \in Seq(Nat)
    PROVE  /\ Joined(i, g, q) \in Seq(Nat)
           /\ Joined(i, g, Extended(q, t)) = Extended(Joined(i, g, q), t)
<1>. DEFINE h == i \o g
<1>1. h \in Seq(Nat)
  OBVIOUS
<1>2. h \o q \in Seq(Nat) /\ (h \o q) \o t = h \o (q \o t)
  <2>. HIDE DEF h
  <2>1. h \o q \in Seq(Nat)
    BY <1>1
  <2>2. (h \o q) \o t = h \o (q \o t)
    BY <1>1, Associative
  <2>. QED
    BY <2>1, <2>2
<1>. QED
  BY <1>2 DEF Joined, Extended

(* A read takes the front of the kernel's bytes to the end of the buffer. *)
LEMMA ReadStep ==
    ASSUME SocketInv, NEW u \in Ut, NEW f \in Frame, NEW a \in Seq(Nat), NEW b \in Seq(Nat),
           rcv[u] = a \o b, rcv' = [rcv EXCEPT ![u] = b], co' = [co EXCEPT ![u] = f],
           f.call = co[u].call, f.call \in Receiving, f.got = co[u].got \o a,
           BooksOK(f),
           (f.call \in ExactCalls \/ f.nested) /\ f.ret = 0 => shut[Peer(u)] /\ b = <<>>,
           UNCHANGED <<shut, appVars>>
    PROVE  SocketInv'
<1>1. co'[u] = f /\ \A v \in Ut : v # u => co'[v] = co[v]
  BY DEF SocketInv, SocketTypeOK
<1>2. rcv'[u] = b /\ \A v \in Ut : v # u => rcv'[v] = rcv[v]
  BY DEF SocketInv, SocketTypeOK
<1>3. co[u].got \in Seq(Nat) /\ inn[u] \in Seq(Nat)
  BY DEF SocketInv, SocketTypeOK, Frame
<1>4. SocketTypeOK'
  BY DEF SocketInv, SocketTypeOK, appVars
<1>5. RoomOK'
  <2>1. Len(rcv[u]) = Len(a) + Len(b) /\ Len(rcv[u]) <= Capacity
    BY ConcatProperties DEF SocketInv, RoomOK
  <2>2. Len(a) \in Nat /\ Len(b) \in Nat /\ Capacity \in Nat
    BY SocketAssumption
  <2>3. Len(b) <= Capacity
    BY <2>1, <2>2
  <2>. QED
    BY <1>2, <2>3 DEF SocketInv, RoomOK
<1>6. CallsOK'
  <2>. SUFFICES ASSUME NEW v \in Ut
                PROVE  /\ BooksOK(co'[v]) /\ EndMet(v, co[v])'
                       /\ failed'[v] => co'[v].call = "none"
                       /\ shut'[v] => co'[v].call \notin Receiving \cup Sending
    BY DEF CallsOK
  <2>1. CASE v = u
    <3>1. EndMet(v, co[v])'
      BY <1>1, <1>2, <2>1 DEF EndMet
    <3>2. failed' = failed /\ shut' = shut
      BY DEF appVars
    <3>. QED
      BY <1>1, <2>1, <3>1, <3>2 DEF SocketInv, CallsOK
  <2>2. CASE v # u
    BY <1>1, <1>2, <2>2 DEF SocketInv, CallsOK, EndMet, appVars
  <2>. QED
    BY <2>1, <2>2
<1>7. LastsFull => ReceivedOK'
  <2>. SUFFICES ASSUME LastsFull PROVE ReceivedOK'
    OBVIOUS
  <2>1. Stream(u)' = Stream(u)
    <3>1. Stream(u) = Joined(inn[u], co[u].got, a \o b)
      BY DEF Stream, Joined
    <3>2. Stream(u)' = Joined(inn[u], co[u].got \o a, b)
      BY <1>1, <1>2 DEF Stream, Joined, appVars
    <3>3. Joined(inn[u], co[u].got \o a, b) = Joined(inn[u], co[u].got, a \o b)
      BY <1>3, JoinedRead
    <3>. QED
      BY <3>1, <3>2, <3>3
  <2>2. \A v \in Ut : v # u => Stream(v)' = Stream(v)
    BY <1>1, <1>2 DEF Stream, appVars
  <2>3. \A v \in Ut : Put(co'[v]) = Put(co[v])
    BY <1>1 DEF Put, Receiving, Sending, ReadCalls, ExactCalls, WriteCalls, MessageCalls
  <2>4. failed' = failed /\ total' = total /\ ReceivedOK
    BY DEF SocketInv, appVars
  <2>. QED
    BY <2>1, <2>2, <2>3, <2>4, PeerFacts DEF ReceivedOK
<1>. QED
  BY <1>4, <1>5, <1>6, <1>7 DEF SocketInv

(* What a read takes of the q that the kernel has, and the call behind it. *)
Taken(c, q) == IF c.want - c.done < Len(q) THEN c.want - c.done ELSE Len(q)
AfterRead(c, q) ==
    [c EXCEPT !.ret = Taken(c, q), !.at = "ret",
              !.got = SubSeq(c.got, 1, c.done) \o SubSeq(q, 1, Taken(c, q))]

LEMMA ReadBooks ==
    ASSUME NEW c \in Frame, BooksOK(c), c.at = "top", c.call \in Receiving,
           NEW q \in Seq(Nat)
    PROVE  /\ Taken(c, q) \in 0..Len(q)
           /\ Taken(c, q) = 0 /\ c.done < c.want => q = <<>>
           /\ AfterRead(c, q) \in Frame /\ BooksOK(AfterRead(c, q))
           /\ AfterRead(c, q).call = c.call /\ AfterRead(c, q).nested = c.nested
           /\ AfterRead(c, q).at = "ret" /\ AfterRead(c, q).ret = Taken(c, q)
           /\ AfterRead(c, q).got = c.got \o SubSeq(q, 1, Taken(c, q))
<1>. DEFINE n == Taken(c, q)
            f == AfterRead(c, q)
<1>0. /\ n = IF c.want - c.done < Len(q) THEN c.want - c.done ELSE Len(q)
      /\ f = [c EXCEPT !.ret = n, !.at = "ret",
                       !.got = SubSeq(c.got, 1, c.done) \o SubSeq(q, 1, n)]
  BY DEF Taken, AfterRead
<1>. HIDE DEF n, f
<1>1. /\ c.done \in Nat /\ c.want \in Nat /\ c.done <= c.want /\ Len(c.got) = c.done
      /\ c.got \in Seq(Nat) /\ Len(q) \in Nat
  BY DEF BooksOK, Frame, Fresh
<1>2. n \in 0..Len(q) /\ c.done + n <= c.want /\ n \in Nat
  <2>. DEFINE d == c.done
              w == c.want
              l == Len(q)
  <2>1. d \in Nat /\ w \in Nat /\ l \in Nat /\ d <= w /\ n = IF w - d < l THEN w - d ELSE l
    BY <1>0, <1>1
  <2>. HIDE DEF d, w, l
  <2>2. n \in 0..l /\ d + n <= w /\ n \in Nat
    BY <2>1
  <2>. QED
    BY <2>2 DEF d, w, l
<1>3. SubSeq(c.got, 1, c.done) = c.got
  BY <1>1, SubSeqFull
<1>4. SubSeq(q, 1, n) \in Seq(Nat) /\ Len(SubSeq(q, 1, n)) = n
  BY <1>2, Halves
<1>5. /\ f.call = c.call /\ f.nested = c.nested /\ f.done = c.done /\ f.want = c.want
      /\ f.iov = c.iov /\ f.at = "ret" /\ f.ret = n /\ f.got = c.got \o SubSeq(q, 1, n)
  BY <1>0, <1>3 DEF Frame
<1>6. f.got \in Seq(Nat) /\ Len(f.got) = c.done + n
  <2>. DEFINE a == SubSeq(q, 1, n)
              g == c.got
  <2>1. a \in Seq(Nat) /\ g \in Seq(Nat) /\ Len(a) = n /\ Len(g) = c.done /\ f.got = g \o a
    BY <1>1, <1>4, <1>5
  <2>. HIDE DEF a, g
  <2>2. g \o a \in Seq(Nat) /\ Len(g \o a) = Len(g) + Len(a)
    BY <2>1, ConcatProperties, Zenon
  <2>. QED
    BY <2>1, <2>2
<1>7. f \in Frame
  <2>1. n \in Int
    BY <1>2
  <2>2. SubSeq(c.got, 1, c.done) \o SubSeq(q, 1, n) \in Seq(Nat)
    BY <1>3, <1>5, <1>6
  <2>. DEFINE g == SubSeq(c.got, 1, c.done) \o SubSeq(q, 1, n)
  <2>3. g \in Seq(Nat) /\ f = [c EXCEPT !.ret = n, !.at = "ret", !.got = g]
    BY <1>0, <2>2
  <2>. HIDE DEF g
  <2>. QED
    BY <2>1, <2>3 DEF Frame
<1>8. BooksOK(f)
  <2>1. Fresh(f) = n
    BY <1>2, <1>5 DEF Fresh
  <2>. QED
    BY <1>1, <1>2, <1>5, <1>6, <2>1
       DEF BooksOK, Receiving, ReadCalls, ExactCalls, WriteCalls, MessageCalls
<1>9. n = 0 /\ c.done < c.want => q = <<>>
  <2>. SUFFICES ASSUME n = 0, c.done < c.want PROVE Len(q) = 0
    BY EmptySeq
  <2>. QED
    BY <1>0, <1>1
<1>. QED
  BY <1>2, <1>5, <1>7, <1>8, <1>9 DEF n, f

LEMMA PutType ==
    ASSUME NEW c \in Frame
    PROVE  Fresh(c) \in Nat /\ Put(c) \in Nat
<1>1. c.done \in Nat /\ c.ret \in Int
  BY DEF Frame
<1>2. Fresh(c) \in Nat
  BY <1>1 DEF Fresh
<1>. QED
  BY <1>1, <1>2 DEF Put

(* The first m bytes of a stream, and the n behind them. *)
First(m) == [i \in 1..m |-> i]
Behind(m, n) == [i \in 1..n |-> m + 1 + i - 1]

LEMMA CountOn ==
    ASSUME NEW m \in Nat, NEW n \in Nat
    PROVE  /\ Behind(m, n) \in Seq(Nat) /\ Len(Behind(m, n)) = n
           /\ First(m) \o Behind(m, n) = First(m + n) /\ Len(First(m + n)) = m + n
<1>. DEFINE s == First(m)
            t == Behind(m, n)
<1>1. /\ t \in Seq(Nat) /\ Len(t) = n /\ s \in Seq(Nat) /\ Len(s) = m
      /\ Len(First(m + n)) = m + n
  BY DEF First, Behind
<1>2. (\A i \in 1..m : s[i] = i) /\ (\A i \in 1..n : t[i] = m + i)
  BY DEF First, Behind
<1>. HIDE DEF s, t
<1>3. /\ s \o t \in Seq(Nat) /\ Len(s \o t) = m + n
      /\ \A i \in 1..(m + n) : (s \o t)[i] = IF i <= m THEN s[i] ELSE t[i - m]
  BY <1>1, ConcatProperties
<1>4. ASSUME NEW i \in 1..(m + n) PROVE (s \o t)[i] = i
  <2>1. CASE i <= m
    BY <1>2, <1>3, <2>1
  <2>2. CASE ~ (i <= m)
    BY <1>2, <1>3, <2>2
  <2>. QED
    BY <2>1, <2>2
<1>5. First(m + n) \in Seq(Nat) /\ \A i \in 1..(m + n) : First(m + n)[i] = i
  BY DEF First
<1>6. s \o t = First(m + n)
  BY <1>1, <1>3, <1>4, <1>5, SeqEqual
<1>. QED
  BY <1>1, <1>6 DEF s, t

(* A write of n bytes appends the next n to the stream of the peer. *)
LEMMA WriteStep ==
    ASSUME SocketInv, NEW u \in Ut, NEW f \in Frame, NEW n \in Nat, NEW q,
           q = Extended(rcv[Peer(u)], Behind(total[u] + Put(co[u]), n)),
           rcv' = [rcv EXCEPT ![Peer(u)] = q], co' = [co EXCEPT ![u] = f],
           Len(rcv[Peer(u)]) + n <= Capacity,
           f.call = co[u].call, f.call \in Sending, f.got = co[u].got, BooksOK(f),
           Put(f) = Put(co[u]) + n,
           UNCHANGED <<shut, appVars>>
    PROVE  SocketInv'
<1>. DEFINE p == Peer(u)
            m == total[u] + Put(co[u])
            t == Behind(m, n)
<1>1. p \in Ut /\ p # u /\ Peer(p) = u /\ \A v \in Ut : v # p => v = u
  BY PeerFacts
<1>2. co'[u] = f /\ co'[p] = co[p] /\ rcv'[p] = q /\ rcv'[u] = rcv[u]
  BY <1>1 DEF SocketInv, SocketTypeOK
<1>3. /\ co[p].got \in Seq(Nat) /\ inn[p] \in Seq(Nat) /\ rcv[p] \in Seq(Nat)
      /\ co[u] \in Frame /\ total[u] \in Nat
  BY <1>1 DEF SocketInv, SocketTypeOK, Frame
<1>4. m \in Nat
  BY <1>3, PutType
<1>5. t \in Seq(Nat) /\ Len(t) = n
  BY <1>4, CountOn
<1>6. q = Extended(rcv[p], t) /\ q \in Seq(Nat) /\ Len(q) = Len(rcv[p]) + n
  <2>1. q = Extended(rcv[p], t)
    OBVIOUS
  <2>. HIDE DEF p, m, t
  <2>. QED
    BY <1>3, <1>5, <2>1, ConcatProperties DEF Extended
<1>7. SocketTypeOK'
  BY <1>1, <1>6 DEF SocketInv, SocketTypeOK, appVars
<1>8. RoomOK'
  BY <1>1, <1>2, <1>6 DEF SocketInv, RoomOK
<1>9. ~ failed[u] /\ ~ shut[u] /\ ~ f.nested /\ f.call \notin ExactCalls
  BY DEF SocketInv, CallsOK, BooksOK, Receiving, Sending, ReadCalls, ExactCalls,
         WriteCalls, MessageCalls
<1>10. CallsOK'
  <2>1. shut' = shut /\ failed' = failed
    BY DEF appVars
  <2>2. EndMet(u, f)'
    BY <1>9 DEF EndMet
  <2>3. EndMet(p, co[p])'
    BY <1>1, <1>2, <1>9, <2>1 DEF SocketInv, CallsOK, EndMet
  <2>. QED
    BY <1>1, <1>2, <1>9, <2>1, <2>2, <2>3 DEF SocketInv, CallsOK, EndMet
<1>11. LastsFull => ReceivedOK'
  <2>. SUFFICES ASSUME LastsFull PROVE ReceivedOK'
    OBVIOUS
  <2>1. failed' = failed /\ total' = total /\ inn' = inn
    BY DEF appVars
  <2>2. Stream(u)' = Stream(u)
    BY <1>2, <2>1 DEF Stream
  <2>3. /\ Stream(p)' = Joined(inn[p], co[p].got, Extended(rcv[p], t))
        /\ Stream(p) = Joined(inn[p], co[p].got, rcv[p])
    BY <1>2, <1>6, <2>1 DEF Stream, Joined
  <2>4. Stream(p)' = Extended(Stream(p), t) /\ Stream(p) \in Seq(Nat)
    <3>. DEFINE r == rcv[p]
                g == co[p].got
                i == inn[p]
    <3>1. r \in Seq(Nat) /\ g \in Seq(Nat) /\ i \in Seq(Nat)
      BY <1>3
    <3>2. /\ Joined(i, g, Extended(r, t)) = Extended(Joined(i, g, r), t)
          /\ Joined(i, g, r) \in Seq(Nat)
      <4>. HIDE DEF r, g, i, p, m, t
      <4>. QED
        BY <3>1, <1>5, JoinedWrite
    <3>. QED
      BY <2>3, <3>2
  <2>5. ~ failed[p] => Stream(p) = First(m)
    BY <1>1, <1>9 DEF SocketInv, ReceivedOK, First
  <2>6. ~ failed[p] => Stream(p)' = First(m + n) /\ Len(Stream(p)') = m + n
    <3>1. First(m) \o t = First(m + n) /\ Len(First(m + n)) = m + n
      BY <1>4, CountOn
    <3>. HIDE DEF m, p, t
    <3>. QED
      BY <2>4, <2>5, <3>1 DEF Extended
  <2>7. m + n = total'[u] + Put(co'[u])
    <3>1. Put(co[u]) \in Nat
      BY <1>3, PutType
    <3>. QED
      BY <1>2, <1>3, <2>1, <3>1
  <2>8. ~ failed[p] => /\ Stream(p)' = [i \in 1..Len(Stream(p)') |-> i]
                       /\ Len(Stream(p)') = total'[u] + Put(co'[u])
    BY <2>6, <2>7 DEF First
  <2>9. /\ ~ failed[u] => /\ Stream(u) = [i \in 1..Len(Stream(u)) |-> i]
                          /\ ~ failed[p] => Len(Stream(u)) = total[p] + Put(co[p])
    BY DEF SocketInv, ReceivedOK
  <2>. QED
    BY <1>1, <1>2, <2>1, <2>2, <2>8, <2>9 DEF ReceivedOK
<1>. QED
  BY <1>7, <1>8, <1>10, <1>11 DEF SocketInv

(* The inner read of a hooked read_exact hands its result over. *)
LEMMA NestedReturn ==
    ASSUME SocketInv, NEW u \in Ut, NEW r \in Int, co[u].nested, Return(u, r),
           UNCHANGED <<rcv, shut>>,
           Len(co[u].got) = co[u].done + (IF r > 0 THEN r ELSE 0),
           r = 0 => shut[Peer(u)] /\ rcv[u] = <<>>
    PROVE  SocketInv'
<1>. DEFINE c == co[u]
            f == [c EXCEPT !.call = "read_exact", !.nested = FALSE, !.at = "ret", !.ret = r]
<1>1. c \in Frame /\ BooksOK(c) /\ c.call = "read" /\ ~ failed[u] /\ ~ shut[u]
  BY DEF SocketInv, SocketTypeOK, CallsOK, BooksOK, Receiving, ReadCalls
<1>2. co' = [co EXCEPT ![u] = f] /\ UNCHANGED appVars
  BY DEF Return
<1>3. /\ f.call = "read_exact" /\ f.nested = FALSE /\ f.at = "ret" /\ f.ret = r
      /\ f.got = c.got /\ f.want = c.want /\ f.done = c.done
  BY <1>1 DEF Frame
<1>4. f \in Frame
  BY <1>1 DEF Frame, AllCalls, Receiving, ExactCalls
<1>. HIDE DEF f
<1>5. Fresh(f) = (IF r > 0 THEN r ELSE 0) /\ Put(f) = 0 /\ Put(c) = 0
  BY <1>1, <1>3 DEF Fresh, Put, Sending, WriteCalls, MessageCalls
<1>6. Len(c.got) <= c.want
  BY <1>1 DEF BooksOK, Receiving, ReadCalls
<1>7. BooksOK(f)
  BY <1>3, <1>5, <1>6
     DEF BooksOK, Receiving, ReadCalls, ExactCalls, WriteCalls, MessageCalls
<1>8. EndMet(u, f)
  BY <1>3 DEF EndMet
<1>. QED
  BY <1>1, <1>2, <1>3, <1>4, <1>5, <1>7, <1>8, BooksStep

(* A call returns to the program, which takes what was reported. *)
LEMMA OuterReturn ==
    ASSUME SocketInv, NEW u \in Ut, NEW r \in Int, co[u].call # "none", ~ co[u].nested,
           Return(u, r), UNCHANGED <<rcv, shut>>,
           r >= 0 => /\ co[u].call \in Receiving => r = Len(co[u].got)
                     /\ co[u].call \in Sending /\ LastsFull => r = Put(co[u])
    PROVE  SocketInv'
<1>. DEFINE c == co[u]
            p == Peer(u)
<1>1. p \in Ut /\ p # u /\ Peer(p) = u /\ \A v \in Ut : v # u => v = p
  BY PeerFacts
<1>2. /\ co' = [co EXCEPT ![u] = Idle]
      /\ total' = [total EXCEPT ![u] = IF c.call \in Sending /\ r > 0 THEN @ + r ELSE @]
      /\ inn' = [inn EXCEPT ![u] = IF c.call \in Receiving /\ r > 0
                                     THEN @ \o SubSeq(c.got, 1, r) ELSE @]
      /\ failed' = [failed EXCEPT ![u] =
                        @ \/ (r < 0 /\ (c.call \in Sending \/ c.got # <<>>))]
  BY DEF Return
<1>3. /\ c \in Frame /\ BooksOK(c) /\ c.got \in Seq(Nat) /\ ~ failed[u]
      /\ inn[u] \in Seq(Nat) /\ total[u] \in Nat /\ rcv[u] \in Seq(Nat)
  BY DEF SocketInv, SocketTypeOK, CallsOK, Frame
<1>4. co'[u] = Idle /\ co'[p] = co[p]
  BY <1>1, <1>2 DEF SocketInv, SocketTypeOK
<1>5. /\ total'[p] = total[p] /\ inn'[p] = inn[p] /\ failed'[p] = failed[p]
      /\ failed'[u] = (r < 0 /\ (c.call \in Sending \/ c.got # <<>>))
      /\ total'[u] = IF c.call \in Sending /\ r > 0 THEN total[u] + r ELSE total[u]
  BY <1>1, <1>2, <1>3 DEF SocketInv, SocketTypeOK
<1>6. IF c.call \in Receiving /\ r > 0
        THEN inn'[u] = inn[u] \o SubSeq(c.got, 1, r) ELSE inn'[u] = inn[u]
  BY <1>2 DEF SocketInv, SocketTypeOK
<1>7. c.call \in Receiving /\ r > 0 => inn'[u] = inn[u] \o c.got
  <2>. SUFFICES ASSUME c.call \in Receiving, r > 0 PROVE SubSeq(c.got, 1, r) = c.got
    BY <1>6
  <2>1. r = Len(c.got)
    OBVIOUS
  <2>2. SubSeq(c.got, 1, Len(c.got)) = c.got
    BY <1>3, SubSeqFull, Zenon
  <2>. QED
    BY <2>1, <2>2, Zenon
<1>8. inn'[u] \in Seq(Nat)
  BY <1>3, <1>6, <1>7, ConcatProperties
<1>9. Idle \in Frame /\ BooksOK(Idle) /\ Put(Idle) = 0 /\ Idle.call = "none" /\ Idle.got = <<>>
  BY DEF Idle, Frame, BooksOK, Put, Fresh, Receiving, Sending, ReadCalls, ExactCalls,
         WriteCalls, MessageCalls
<1>10. SocketTypeOK'
  <2>1. co' \in [Ut -> Frame]
    BY <1>2, <1>9 DEF SocketInv, SocketTypeOK
  <2>2. total' \in [Ut -> Nat]
    BY <1>2, <1>3 DEF SocketInv, SocketTypeOK
  <2>3. failed' \in [Ut -> BOOLEAN]
    BY <1>2 DEF SocketInv, SocketTypeOK
  <2>4. inn' \in [Ut -> Seq(Nat)]
    <3>1. inn' = [v \in Ut |-> inn'[v]]
      BY <1>2 DEF SocketInv, SocketTypeOK
    <3>2. \A v \in Ut : inn'[v] \in Seq(Nat)
      BY <1>1, <1>5, <1>8 DEF SocketInv, SocketTypeOK
    <3>. QED
      BY <3>1, <3>2
  <2>. QED
    BY <2>1, <2>2, <2>3, <2>4 DEF SocketInv, SocketTypeOK
<1>11. RoomOK'
  BY DEF SocketInv, RoomOK
<1>12. CallsOK'
  <2>1. EndMet(u, Idle)' /\ (EndMet(p, co[p]) => EndMet(p, co[p])')
    BY <1>4 DEF EndMet, Idle, ExactCalls
  <2>2. Idle.call \notin Receiving \cup Sending
    BY <1>9 DEF Receiving, Sending, ReadCalls, ExactCalls, WriteCalls, MessageCalls
  <2>. QED
    BY <1>1, <1>4, <1>5, <1>9, <2>1, <2>2 DEF SocketInv, CallsOK, EndMet
<1>13. LastsFull => ReceivedOK'
  <2>. SUFFICES ASSUME LastsFull PROVE ReceivedOK'
    OBVIOUS
  <2>1. Stream(p)' = Stream(p)
    BY <1>4, <1>5 DEF Stream
  <2>2. ~ failed'[u] => Stream(u)' = Stream(u)
    <3>. SUFFICES ASSUME ~ failed'[u] PROVE Stream(u)' = Stream(u)
      OBVIOUS
    <3>1. /\ Stream(u)' = Joined(inn'[u], <<>>, rcv[u])
          /\ Stream(u) = Joined(inn[u], c.got, rcv[u])
      BY <1>4, <1>9 DEF Stream, Joined
    <3>2. CASE c.call \in Receiving /\ r > 0
      <4>. DEFINE i == inn[u]
                  g == c.got
                  q == rcv[u]
      <4>1. i \in Seq(Nat) /\ g \in Seq(Nat) /\ q \in Seq(Nat)
        BY <1>3
      <4>2. Joined(i \o g, <<>>, q) = Joined(i, g, q)
        <5>. HIDE DEF i, g, q
        <5>. QED
          BY <4>1, JoinedReturn
      <4>. QED
        BY <1>7, <3>1, <3>2, <4>2
    <3>3. CASE ~ (c.call \in Receiving /\ r > 0)
      <4>1. inn'[u] = inn[u]
        BY <1>6, <3>3
      <4>2. c.got = <<>>
        <5>1. CASE r < 0
          BY <1>5, <5>1
        <5>2. CASE ~ (r < 0)
          <6>1. Len(c.got) = 0
            BY <1>3, <3>3, <5>2 DEF BooksOK
          <6>. QED
            BY <1>3, <6>1, EmptySeq
        <5>. QED
          BY <5>1, <5>2
      <4>. QED
        BY <3>1, <4>1, <4>2
    <3>. QED
      BY <3>2, <3>3
  <2>3. ~ failed'[u] => total'[u] + Put(co'[u]) = total[u] + Put(c)
    <3>1. Put(c) \in Nat
      BY <1>3, PutType
    <3>2. c.call \notin Sending => Put(c) = 0
      BY DEF Put
    <3>3. ~ failed'[u] /\ c.call \in Sending => r >= 0 /\ r = Put(c)
      <4>. SUFFICES ASSUME ~ failed'[u], c.call \in Sending PROVE r >= 0
        OBVIOUS
      <4>1. ~ (r < 0)
        BY <1>5
      <4>. QED
        BY <4>1
    <3>4. ~ failed'[u] => total'[u] = total[u] + Put(c)
      <4>1. CASE c.call \in Sending
        BY <1>3, <1>5, <3>1, <3>3, <4>1
      <4>2. CASE c.call \notin Sending
        BY <1>3, <1>5, <3>2, <4>2
      <4>. QED
        BY <4>1, <4>2
    <3>. QED
      BY <1>3, <1>4, <1>9, <3>1, <3>4
  <2>4. /\ Stream(u) = First(Len(Stream(u)))
        /\ ~ failed[p] => Len(Stream(u)) = total[p] + Put(co[p])
        /\ ~ failed[p] => /\ Stream(p) = First(Len(Stream(p)))
                          /\ Len(Stream(p)) = total[u] + Put(c)
    BY <1>1, <1>3 DEF SocketInv, ReceivedOK, First
  <2>. SUFFICES /\ ~ failed'[u] =>
                    /\ Stream(u)' = First(Len(Stream(u)'))
                    /\ ~ failed'[p] => Len(Stream(u)') = total'[p] + Put(co'[p])
                /\ ~ failed'[p] =>
                    /\ Stream(p)' = First(Len(Stream(p)'))
                    /\ ~ failed'[u] => Len(Stream(p)') = total'[u] + Put(co'[u])
    BY <1>1 DEF ReceivedOK, First
  <2>. QED
    BY <1>4, <1>5, <2>1, <2>2, <2>3, <2>4
<1>. QED
  BY <1>10, <1>11, <1>12, <1>13 DEF SocketInv

-----------------------------------------------------------------------------
(* Each action keeps the invariant *)

LEMMA InCallFacts ==
    ASSUME SocketInv, NEW u \in Ut, co[u].at \notin {"user", "ended"}
    PROVE  /\ co[u] \in Frame /\ BooksOK(co[u]) /\ EndMet(u, co[u])
           /\ co[u].call # "none" /\ ~ failed[u]
           /\ shut[u] => co[u].call \notin Receiving \cup Sending
BY DEF SocketInv, SocketTypeOK, CallsOK, BooksOK

(* A loop goes to another place with all it has moved added up. *)
LEMMA PlaceStep ==
    ASSUME SocketInv, NEW u \in Ut, co[u].at \notin {"user", "ended"}, Fresh(co[u]) = 0,
           NEW place \in {"top", "wait", "woken"}, co' = [co EXCEPT ![u].at = place],
           UNCHANGED <<rcv, shut, appVars>>
    PROVE  SocketInv'
<1>. DEFINE c == co[u]
            f == [c EXCEPT !.at = place]
<1>1. /\ c \in Frame /\ BooksOK(c) /\ c.call # "none" /\ ~ failed[u]
      /\ shut[u] => c.call \notin Receiving \cup Sending
  BY InCallFacts
<1>2. co' = [co EXCEPT ![u] = f]
  OBVIOUS
<1>3. /\ f \in Frame /\ f.at = place /\ f.call = c.call /\ f.nested = c.nested
      /\ f.done = c.done /\ f.want = c.want /\ f.iov = c.iov /\ f.got = c.got
  BY <1>1 DEF Frame
<1>. HIDE DEF f
<1>4. Fresh(f) = 0 /\ Put(f) = Put(c)
  BY <1>3 DEF Fresh, Put
<1>5. BooksOK(f)
  BY <1>1, <1>3, <1>4 DEF BooksOK
<1>6. EndMet(u, f)
  BY <1>3 DEF EndMet
<1>. QED
  BY <1>1, <1>2, <1>3, <1>4, <1>5, <1>6, BooksStep

(* A system call moves nothing: it fails, or makes a connection. *)
LEMMA ResultStep ==
    ASSUME SocketInv, NEW u \in Ut, co[u].at = "top", NEW r \in {-1, 0},
           r = 0 => co[u].call \in {"accept", "connect"},
           co' = [co EXCEPT ![u].ret = r, ![u].at = "ret"],
           UNCHANGED <<rcv, shut, appVars>>
    PROVE  SocketInv'
<1>. DEFINE c == co[u]
            f == [c EXCEPT !.ret = r, !.at = "ret"]
<1>1. /\ c \in Frame /\ BooksOK(c) /\ c.call # "none" /\ ~ failed[u]
      /\ shut[u] => c.call \notin Receiving \cup Sending
  BY InCallFacts
<1>2. co' = [co EXCEPT ![u] = f]
  OBVIOUS
<1>3. /\ f \in Frame /\ f.at = "ret" /\ f.ret = r /\ f.call = c.call /\ f.nested = c.nested
      /\ f.done = c.done /\ f.want = c.want /\ f.iov = c.iov /\ f.got = c.got
  <2>1. r \in Int
    OBVIOUS
  <2>. QED
    BY <1>1, <2>1 DEF Frame
<1>. HIDE DEF f
<1>4. Fresh(f) = 0 /\ Fresh(c) = 0 /\ Put(f) = Put(c)
  BY <1>3 DEF Fresh, Put
<1>5. BooksOK(f)
  BY <1>1, <1>3, <1>4 DEF BooksOK, WriteCalls
<1>6. EndMet(u, f)
  BY <1>1, <1>3 DEF EndMet, BooksOK, ExactCalls
<1>. QED
  BY <1>1, <1>2, <1>3, <1>4, <1>5, <1>6, BooksStep

(* A loop adds up a part and goes on. *)
LEMMA AddUpStep ==
    ASSUME SocketInv, NEW u \in Ut, co[u].at = "ret", co[u].ret > 0, NEW f \in Frame,
           co[u].call \in ExactCalls \cup WriteCalls \cup {"writev"},
           f.call = co[u].call, f.nested = co[u].nested, f.at = "top",
           f.want = co[u].want, f.got = co[u].got, f.done = co[u].done + co[u].ret,
           f.call = "writev" => /\ Sum(f.iov) = f.want - f.done
                                /\ LastsFull => EndsFull(f.iov),
           co' = [co EXCEPT ![u] = f],
           UNCHANGED <<rcv, shut, appVars>>
    PROVE  SocketInv'
<1>. DEFINE c == co[u]
<1>1. /\ c \in Frame /\ BooksOK(c) /\ c.call # "none" /\ ~ failed[u] /\ ~ c.nested
      /\ shut[u] => c.call \notin Receiving \cup Sending
  BY InCallFacts DEF BooksOK, ExactCalls, WriteCalls
<1>2. Fresh(f) = 0 /\ Fresh(c) = c.ret /\ c.done \in Nat /\ c.ret \in Int
  BY <1>1 DEF Fresh, Frame
<1>3. Put(f) = Put(c)
  BY <1>2 DEF Put
<1>4. BooksOK(f)
  <2>1. /\ f.done + 0 = c.done + c.ret /\ f.done + 0 <= f.want
        /\ Len(f.got) = IF f.call \in Receiving THEN f.done + 0 ELSE 0
    BY <1>1, <1>2 DEF BooksOK, Frame
  <2>2. f.call \notin ReadCalls \cup MessageCalls
    BY DEF ReadCalls, ExactCalls, WriteCalls, MessageCalls
  <2>. QED
    BY <1>1, <1>2, <2>1, <2>2 DEF BooksOK
<1>5. EndMet(u, f)
  BY DEF EndMet
<1>. QED
  BY <1>1, <1>3, <1>4, <1>5, BooksStep

LEMMA BeginKeeps ==
    ASSUME SocketInv, NEW u \in Ut, NEW c \in AllCalls, NEW n \in Nat, NEW iov \in Seq(Nat),
           c = "writev" => Sum(iov) = n /\ (LastsFull => EndsFull(iov)),
           Begin(u, c, n, iov)
    PROVE  SocketInv'
<1>. DEFINE f == [Idle EXCEPT !.call = c, !.at = "top", !.want = n, !.iov = iov]
<1>1. /\ f.call = c /\ f.at = "top" /\ f.want = n /\ f.iov = iov /\ f.done = 0
      /\ f.got = <<>> /\ f.nested = FALSE /\ f.ret = 0
  BY DEF Idle
<1>2. f \in Frame
  <2>1. Idle \in Frame
    BY DEF Idle, Frame
  <2>. QED
    BY <2>1 DEF Frame
<1>3. co' = [co EXCEPT ![u] = f] /\ UNCHANGED <<rcv, shut, appVars>> /\ ~ failed[u]
  BY DEF Begin, kernelVars, appVars
<1>4. co[u] \in Frame /\ BooksOK(co[u]) /\ co[u].call = "none" /\ co[u].at = "user"
  BY DEF Begin, In, SocketInv, SocketTypeOK, CallsOK, BooksOK
<1>5. co[u].got = <<>> /\ Put(co[u]) = 0
  <2>1. Len(co[u].got) = 0 /\ co[u].got \in Seq(Nat)
    BY <1>4 DEF BooksOK, Frame, Receiving, ReadCalls, ExactCalls
  <2>. QED
    BY <1>4, <2>1, EmptySeq DEF Put, Sending, WriteCalls, MessageCalls
<1>6. shut[u] => c \notin Receiving \cup Sending
  BY DEF Begin, Callable, Receiving, Sending, ReadCalls, ExactCalls, WriteCalls,
         MessageCalls
<1>7. c # "none"
  BY DEF AllCalls, Receiving, Sending, ReadCalls, ExactCalls, WriteCalls, MessageCalls
<1>. HIDE DEF f
<1>8. Fresh(f) = 0 /\ Put(f) = 0
  BY <1>1 DEF Fresh, Put
<1>9. BooksOK(f)
  BY <1>1, <1>7, <1>8 DEF BooksOK
<1>10. EndMet(u, f)
  BY <1>1 DEF EndMet
<1>. QED
  BY <1>1, <1>2, <1>3, <1>5, <1>6, <1>7, <1>8, <1>9, <1>10, BooksStep

LEMMA EndKeeps ==
    ASSUME SocketInv, NEW u \in Ut, End(u)
    PROVE  SocketInv'
<1>. DEFINE c == co[u]
            f == [c EXCEPT !.at = "ended"]
<1>1. c \in Frame /\ BooksOK(c) /\ c.call = "none" /\ c.at = "user"
  BY DEF End, In, SocketInv, SocketTypeOK, CallsOK, BooksOK
<1>2. co' = [co EXCEPT ![u] = f] /\ UNCHANGED <<rcv, shut, appVars>>
  BY DEF End, kernelVars, appVars
<1>3. /\ f \in Frame /\ f.at = "ended" /\ f.call = c.call /\ f.nested = c.nested
      /\ f.done = c.done /\ f.want = c.want /\ f.iov = c.iov /\ f.got = c.got
  BY <1>1 DEF Frame
<1>. HIDE DEF f
<1>4. Fresh(f) = 0 /\ Fresh(c) = 0 /\ Put(f) = Put(c)
  BY <1>1, <1>3 DEF Fresh, Put
<1>5. BooksOK(f) /\ EndMet(u, f)
  BY <1>1, <1>3, <1>4 DEF BooksOK, EndMet, ReadCalls, ExactCalls, WriteCalls, MessageCalls
<1>6. f.call \notin Receiving \cup Sending
  BY <1>1, <1>3 DEF Receiving, Sending, ReadCalls, ExactCalls, WriteCalls, MessageCalls
<1>. QED
  BY <1>1, <1>2, <1>3, <1>4, <1>5, <1>6, BooksStep

LEMMA NestKeeps ==
    ASSUME SocketInv, NEW u \in Ut, Nest(u)
    PROVE  SocketInv'
<1>. DEFINE c == co[u]
            f == [c EXCEPT !.call = "read", !.nested = TRUE]
<1>1. c.at = "top" /\ c.call = "read_exact" /\ c.done # c.want
  BY DEF Nest, Stays, Nests, In, ExactCalls
<1>2. /\ c \in Frame /\ BooksOK(c) /\ ~ failed[u] /\ ~ shut[u]
  BY <1>1, InCallFacts DEF Receiving, ExactCalls
<1>3. co' = [co EXCEPT ![u] = f] /\ UNCHANGED <<rcv, shut, appVars>>
  BY DEF Nest, kernelVars, appVars
<1>4. /\ f.call = "read" /\ f.nested = TRUE /\ f.at = "top" /\ f.done = c.done
      /\ f.want = c.want /\ f.got = c.got
  BY <1>1, <1>2 DEF Frame
<1>5. f \in Frame
  BY <1>2 DEF Frame, AllCalls, Receiving, ReadCalls
<1>. HIDE DEF f
<1>6. Fresh(f) = 0 /\ Fresh(c) = 0 /\ Put(f) = 0 /\ Put(c) = 0
  BY <1>1, <1>4 DEF Fresh, Put, Sending, WriteCalls, MessageCalls
<1>7. c.done \in Nat /\ c.want \in Nat /\ c.done < c.want /\ Len(c.got) = c.done
  BY <1>1, <1>2, <1>6 DEF BooksOK, Frame, Receiving, ExactCalls
<1>8. BooksOK(f)
  BY <1>4, <1>6, <1>7 DEF BooksOK, Receiving, ReadCalls, WriteCalls
<1>9. EndMet(u, f)
  BY <1>4 DEF EndMet
<1>. QED
  BY <1>2, <1>3, <1>4, <1>5, <1>6, <1>8, <1>9, BooksStep

LEMMA FailsKeeps ==
    ASSUME SocketInv, NEW u \in Ut, co[u].at = "top", NEW e, Fails(u, e),
           UNCHANGED <<shut, appVars>>
    PROVE  SocketInv'
<1>1. co' = [co EXCEPT ![u].ret = -1, ![u].at = "ret"] /\ rcv' = rcv
  BY DEF Fails
<1>2. -1 \in {-1, 0} /\ -1 # 0
  OBVIOUS
<1>. QED
  BY <1>1, <1>2, ResultStep

LEMMA WouldBlockKeeps ==
    ASSUME SocketInv, NEW u \in Ut, co[u].at = "top", WouldBlock(u),
           UNCHANGED <<shut, appVars>>
    PROVE  SocketInv'
<1>1. CASE Fails(u, "EAGAIN")
  BY <1>1, FailsKeeps
<1>2. CASE UNCHANGED <<co, errno, rcv>>
  BY <1>2, QuietStep
<1>. QED
  BY <1>1, <1>2 DEF WouldBlock

LEMMA ReadKeeps ==
    ASSUME SocketInv, NEW u \in Ut, co[u].call \in Receiving, Stays(u), sys_read(u),
           UNCHANGED <<shut, appVars>>
    PROVE  SocketInv'
<1>. DEFINE c == co[u]
            q == rcv[u]
            n == Taken(c, q)
            f == AfterRead(c, q)
            a == SubSeq(q, 1, n)
            b == SubSeq(q, n + 1, Len(q))
<1>1. c.at = "top"
  BY DEF Stays, In
<1>2. CASE Fails(u, "ECONNRESET")
  BY <1>1, <1>2, FailsKeeps
<1>3. CASE WouldBlock(u)
  BY <1>1, <1>3, WouldBlockKeeps
<1>4. CASE /\ q # <<>> \/ shut[Peer(u)]
           /\ rcv' = [rcv EXCEPT ![u] = b] /\ co' = [co EXCEPT ![u] = f]
  <2>1. c \in Frame /\ q \in Seq(Nat) /\ BooksOK(c)
    BY <1>1, InCallFacts DEF SocketInv, SocketTypeOK
  <2>2. /\ n \in 0..Len(q) /\ (n = 0 /\ c.done < c.want => q = <<>>)
        /\ f \in Frame /\ BooksOK(f) /\ f.call = c.call /\ f.nested = c.nested
        /\ f.at = "ret" /\ f.ret = n /\ f.got = c.got \o a
    <3>1. c.call \in Receiving /\ c.at = "top"
      BY <1>1
    <3>. HIDE DEF q, c
    <3>. QED
      BY <2>1, <3>1, ReadBooks
  <2>3. a \in Seq(Nat) /\ b \in Seq(Nat) /\ q = a \o b
    <3>. HIDE DEF n, q
    <3>. QED
      BY <2>1, <2>2, Halves
  <2>4. (f.call \in ExactCalls \/ f.nested) /\ f.ret = 0 => shut[Peer(u)] /\ b = <<>>
    <3>. SUFFICES ASSUME c.call \in ExactCalls \/ c.nested, n = 0
                  PROVE  shut[Peer(u)] /\ b = <<>>
      <4>. HIDE DEF f, b, n
      <4>. QED
        BY <2>2
    <3>1. c.done < c.want
      <4>1. c.done \in Nat /\ c.want \in Nat /\ c.done <= c.want
        BY <1>1, <2>1 DEF BooksOK, Frame, Fresh
      <4>. QED
        BY <2>1, <4>1 DEF BooksOK, Stays
    <3>2. q = <<>>
      BY <2>2, <3>1
    <3>3. b = <<>>
      BY <3>2
    <3>. QED
      BY <1>4, <3>2, <3>3
  <2>. HIDE DEF f, a, b, n
  <2>. QED
    BY <1>4, <2>2, <2>3, <2>4, ReadStep
<1>. QED
  BY <1>2, <1>3, <1>4 DEF sys_read, Taken, AfterRead

(* The bytes that a send has left are the ones it has not counted. *)
LEMMA UnsentBytes ==
    ASSUME NEW c \in Frame, BooksOK(c), c.call \in Sending
    PROVE  Unsent(c) = c.want - c.done
BY DEF Unsent, BooksOK

LEMMA WriteKeeps ==
    ASSUME SocketInv, NEW u \in Ut, co[u].call \in Sending, Stays(u), sys_write(u),
           UNCHANGED <<shut, appVars>>
    PROVE  SocketInv'
<1>. DEFINE c == co[u]
            p == Peer(u)
            n == IF Unsent(c) < Room(u) THEN Unsent(c) ELSE Room(u)
            f == [c EXCEPT !.ret = n, !.at = "ret"]
            t == [i \in 1..n |-> FirstUnsent(u) + i - 1]
<1>1. c.at = "top"
  BY DEF Stays, In
<1>2. CASE Fails(u, "ECONNRESET")
  BY <1>1, <1>2, FailsKeeps
<1>3. CASE WouldBlock(u)
  BY <1>1, <1>3, WouldBlockKeeps
<1>4. CASE UNCHANGED <<co, errno, rcv>>
  BY <1>4, QuietStep
<1>5. CASE /\ n > 0 \/ Unsent(c) = 0
           /\ rcv' = [rcv EXCEPT ![p] = @ \o t] /\ co' = [co EXCEPT ![u] = f]
  <2>1. c \in Frame /\ BooksOK(c) /\ total[u] \in Nat /\ rcv[p] \in Seq(Nat)
    BY <1>1, PeerFacts, InCallFacts DEF SocketInv, SocketTypeOK
  <2>2. /\ c.done \in Nat /\ c.want \in Nat /\ c.done <= c.want /\ Fresh(c) = 0
        /\ Put(c) = c.done
    BY <1>1, <2>1 DEF BooksOK, Frame, Fresh, Put
  <2>3. Unsent(c) = c.want - c.done
    BY <2>1, UnsentBytes
  <2>4. Room(u) \in Nat /\ Room(u) = Capacity - Len(rcv[p])
    BY <2>1, PeerFacts, SocketAssumption DEF SocketInv, RoomOK, Room
  <2>5. n \in Nat /\ n <= c.want - c.done /\ n <= Room(u)
    BY <2>2, <2>3, <2>4
  <2>6. FirstUnsent(u) = total[u] + Put(c) + 1
    BY <2>1, <2>2, <2>3 DEF FirstUnsent
  <2>7. t = Behind(total[u] + Put(c), n)
    BY <2>6 DEF Behind
  <2>8. Len(rcv[p]) + n <= Capacity
    BY <2>1, <2>4, <2>5, SocketAssumption
  <2>9. /\ f \in Frame /\ f.call = c.call /\ f.nested = c.nested /\ f.at = "ret"
        /\ f.ret = n /\ f.done = c.done /\ f.want = c.want /\ f.iov = c.iov
        /\ f.got = c.got
    <3>1. n \in Int
      BY <2>5
    <3>. HIDE DEF n
    <3>. QED
      BY <2>1, <3>1 DEF Frame
  <2>10. c.call \in WriteCalls \/ (c.call = "writev" /\ LastsFull) => n # 0
    <3>1. c.call = "writev" /\ LastsFull => Unsent(c) > 0
      BY <2>1, SumPositive DEF BooksOK, Unsent, Frame
    <3>. QED
      BY <1>5, <2>2, <2>3, <3>1 DEF Stays
  <2>. HIDE DEF f, n
  <2>11. Fresh(f) = n
    BY <2>5, <2>9 DEF Fresh
  <2>12. Put(f) = Put(c) + n
    BY <2>2, <2>9, <2>11 DEF Put
  <2>13. BooksOK(f)
    <3>1. f.done + Fresh(f) <= f.want
      BY <2>2, <2>5, <2>9, <2>11
    <3>2. f.call \notin Receiving /\ Len(f.got) = 0
      BY <2>1, <2>9 DEF BooksOK, Receiving, Sending, ReadCalls, ExactCalls, WriteCalls,
                        MessageCalls
    <3>. QED
      BY <1>1, <2>1, <2>9, <2>10, <3>1, <3>2 DEF BooksOK
  <2>14. rcv' = [rcv EXCEPT ![p] = Extended(rcv[p], Behind(total[u] + Put(c), n))]
    BY <1>5, <2>7 DEF Extended
  <2>. QED
    BY <1>5, <2>5, <2>8, <2>9, <2>12, <2>13, <2>14, WriteStep
<1>. QED
  BY <1>2, <1>3, <1>4, <1>5 DEF sys_write

LEMMA SystemCallKeeps ==
    ASSUME SocketInv, NEW u \in Ut, SystemCall(u)
    PROVE  SocketInv'
<1>1. Stays(u) /\ co[u].at = "top" /\ UNCHANGED <<shut, appVars>>
  BY DEF SystemCall, Stays, In
<1>2. CASE co[u].call \in Receiving /\ sys_read(u)
  BY <1>1, <1>2, ReadKeeps
<1>3. CASE co[u].call \in Sending /\ sys_write(u)
  BY <1>1, <1>3, WriteKeeps
<1>4. ASSUME co[u].call \in {"accept", "connect"}, rcv' = rcv,
             co' = [co EXCEPT ![u].ret = 0, ![u].at = "ret"]
      PROVE  SocketInv'
  <2>1. 0 \in {-1, 0}
    OBVIOUS
  <2>. QED
    BY <1>1, <1>4, <2>1, ResultStep
<1>5. CASE co[u].call = "accept" /\ sys_accept(u)
  BY <1>1, <1>4, <1>5, FailsKeeps DEF sys_accept
<1>6. CASE co[u].call = "connect" /\ sys_connect(u)
  BY <1>1, <1>4, <1>6, FailsKeeps DEF sys_connect
<1>. QED
  BY <1>2, <1>3, <1>5, <1>6 DEF SystemCall

(* A call that has nothing in flight ends with an error. *)
LEMMA ErrorReturn ==
    ASSUME SocketInv, NEW u \in Ut, co[u].at \notin {"user", "ended"}, Fresh(co[u]) = 0,
           NEW r \in {-1, -2}, Return(u, r), UNCHANGED <<rcv, shut>>
    PROVE  SocketInv'
<1>1. r \in Int /\ ~ (r > 0) /\ r # 0 /\ ~ (r >= 0)
  OBVIOUS
<1>2. co[u] \in Frame /\ BooksOK(co[u]) /\ co[u].call # "none"
  BY InCallFacts
<1>3. CASE co[u].nested
  <2>1. Len(co[u].got) = co[u].done + 0
    BY <1>2, <1>3 DEF BooksOK, Receiving, ReadCalls
  <2>. QED
    BY <1>1, <1>3, <2>1, NestedReturn
<1>4. CASE ~ co[u].nested
  BY <1>1, <1>2, <1>4, OuterReturn
<1>. QED
  BY <1>3, <1>4

LEMMA LeaveLoopKeeps ==
    ASSUME SocketInv, NEW u \in Ut, LeaveLoop(u)
    PROVE  SocketInv'
<1>. DEFINE c == co[u]
<1>1. c.at = "top" /\ Fresh(c) = 0 /\ UNCHANGED <<rcv, shut>>
  BY DEF LeaveLoop, In, kernelVars, Fresh
<1>2. c \in Frame /\ BooksOK(c) /\ c.call # "none"
  BY <1>1, InCallFacts
<1>3. CASE c.call \in ExactCalls \cup WriteCalls /\ Return(u, c.done)
  <2>1. c.done \in Int /\ ~ c.nested
    BY <1>2, <1>3 DEF Frame, BooksOK, ExactCalls, WriteCalls
  <2>2. /\ c.call \in Receiving => c.done = Len(c.got)
        /\ c.call \in Sending => c.done = Put(c)
    BY <1>1, <1>2 DEF BooksOK, Put, Frame
  <2>. QED
    BY <1>1, <1>2, <1>3, <2>1, <2>2, OuterReturn
<1>4. CASE Return(u, -1)
  BY <1>1, <1>4, ErrorReturn
<1>. QED
  BY <1>3, <1>4 DEF LeaveLoop

LEMMA FailedKeeps ==
    ASSUME SocketInv, NEW u \in Ut, co[u].at = "ret", Failed(u), UNCHANGED <<rcv, shut>>
    PROVE  SocketInv'
<1>1. Fresh(co[u]) = 0
  BY DEF Failed, Fresh
<1>2. CASE GoTo(u, "wait")
  BY <1>1, <1>2, PlaceStep DEF GoTo
<1>3. CASE Return(u, -1)
  BY <1>1, <1>3, ErrorReturn
<1>. QED
  BY <1>2, <1>3 DEF Failed

(* A result that is returned as it is. *)
LEMMA ResultReturn ==
    ASSUME SocketInv, NEW u \in Ut, co[u].at = "ret", co[u].ret >= 0,
           Return(u, co[u].ret), UNCHANGED <<rcv, shut>>,
           co[u].call \in ReadCalls \cup MessageCalls \cup {"accept", "connect"}
    PROVE  SocketInv'
<1>. DEFINE c == co[u]
<1>1. c \in Frame /\ BooksOK(c) /\ EndMet(u, c) /\ c.call # "none" /\ c.ret \in Int
  BY InCallFacts DEF Frame
<1>2. Fresh(c) = c.ret
  BY <1>1 DEF Fresh
<1>3. CASE c.nested
  <2>1. Len(c.got) = c.done + (IF c.ret > 0 THEN c.ret ELSE 0)
    BY <1>1, <1>3 DEF BooksOK, Fresh, Receiving, ReadCalls
  <2>2. c.ret = 0 => shut[Peer(u)] /\ rcv[u] = <<>>
    BY <1>1, <1>3 DEF EndMet
  <2>. QED
    BY <1>1, <1>3, <2>1, <2>2, NestedReturn
<1>4. CASE ~ c.nested
  <2>1. c.call \in Receiving => c.ret = Len(c.got)
    <3>1. c.call \in Receiving => c.done = 0 /\ Len(c.got) = c.done + c.ret
      BY <1>1, <1>2, <1>4 DEF BooksOK, Receiving, ReadCalls, ExactCalls, MessageCalls
    <3>. QED
      BY <1>1, <3>1
  <2>2. c.call \in Sending => c.ret = Put(c)
    <3>1. c.call \in Sending => c.done = 0 /\ Put(c) = c.done + c.ret
      BY <1>1, <1>2, <1>4
         DEF BooksOK, Put, Sending, ReadCalls, WriteCalls, MessageCalls
    <3>. QED
      BY <1>1, <3>1
  <2>. QED
    BY <1>1, <1>4, <2>1, <2>2, OuterReturn
<1>. QED
  BY <1>3, <1>4

(* The loops that add up end with what they have added up. *)
LEMMA CountReturn ==
    ASSUME SocketInv, NEW u \in Ut, co[u].at = "ret",
           co[u].call \in ExactCalls \cup WriteCalls \cup {"writev"},
           co[u].ret >= 0, Return(u, co[u].done + co[u].ret), UNCHANGED <<rcv, shut>>
    PROVE  SocketInv'
<1>. DEFINE c == co[u]
            r == c.done + c.ret
<1>1. /\ c \in Frame /\ BooksOK(c) /\ c.call # "none" /\ ~ c.nested
      /\ c.ret \in Int /\ c.done \in Nat
  BY InCallFacts DEF Frame, BooksOK, ExactCalls, WriteCalls
<1>2. Fresh(c) = c.ret /\ r \in Int
  BY <1>1 DEF Fresh
<1>3. /\ c.call \in Receiving => r = Len(c.got)
      /\ c.call \in Sending => r = Put(c)
  BY <1>1, <1>2 DEF BooksOK, Put
<1>. QED
  BY <1>1, <1>2, <1>3, OuterReturn

LEMMA PartKeeps ==
    ASSUME SocketInv, NEW u \in Ut, co[u].at = "ret", co[u].ret > 0,
           co[u].call \in ExactCalls \cup WriteCalls,
           co' = [co EXCEPT ![u].done = @ + co[u].ret, ![u].at = "top"],
           UNCHANGED <<rcv, shut, appVars>>
    PROVE  SocketInv'
<1>. DEFINE c == co[u]
            f == [c EXCEPT !.done = c.done + c.ret, !.at = "top"]
<1>1. c \in Frame /\ c.done + c.ret \in Nat /\ c.call # "writev"
  BY InCallFacts DEF Frame, ExactCalls, WriteCalls
<1>2. co' = [co EXCEPT ![u] = f]
  OBVIOUS
<1>3. /\ f.call = c.call /\ f.nested = c.nested /\ f.at = "top" /\ f.want = c.want
      /\ f.got = c.got /\ f.done = c.done + c.ret
  BY <1>1 DEF Frame
<1>4. f \in Frame
  BY <1>1 DEF Frame
<1>. HIDE DEF f
<1>. QED
  BY <1>1, <1>2, <1>3, <1>4, AddUpStep

LEMMA WritevKeeps ==
    ASSUME SocketInv, NEW u \in Ut, co[u].at = "ret", co[u].call = "writev",
           WritevLoop(u), UNCHANGED <<rcv, shut>>
    PROVE  SocketInv'
<1>. DEFINE c == co[u]
            left == Advance(c.iov, c.ret)
            f == [c EXCEPT !.done = c.done + c.ret, !.iov = left, !.at = "top"]
<1>1. c \in Frame /\ BooksOK(c) /\ ~ c.nested /\ c.call # "none"
  BY InCallFacts DEF BooksOK
<1>2. c.iov \in Seq(Nat) /\ c.done \in Nat /\ c.want \in Nat /\ c.ret \in Int
  BY <1>1 DEF Frame
<1>3. Sum(c.iov) = c.want - c.done /\ (LastsFull => EndsFull(c.iov))
  BY <1>1 DEF BooksOK
<1>4. CASE Failed(u)
  BY <1>4, FailedKeeps
<1>5. CASE c.ret > 0 /\ left = <<>> /\ Return(u, c.done + c.ret)
  <2>1. c.ret >= 0 /\ c.call \in ExactCalls \cup WriteCalls \cup {"writev"}
    BY <1>2, <1>5
  <2>. QED
    BY <1>5, <2>1, CountReturn
<1>6. CASE /\ c.ret > 0 /\ left # <<>> /\ co' = [co EXCEPT ![u] = f] /\ UNCHANGED appVars
  <2>1. c.ret \in 1..Sum(c.iov)
    <3>1. c.done + c.ret <= c.want
      BY <1>1, <1>6 DEF BooksOK, Fresh
    <3>. QED
      BY <1>2, <1>3, <1>6, <3>1
  <2>2. /\ left \in Seq(Nat) /\ Sum(left) = Sum(c.iov) - c.ret
        /\ LastsFull => EndsFull(left)
    BY <1>2, <1>3, <1>6, <2>1, AdvanceTakes
  <2>3. c.done + c.ret \in Nat
    BY <1>2, <1>6
  <2>. HIDE DEF left
  <2>4. /\ f.call = c.call /\ f.nested = c.nested /\ f.at = "top" /\ f.want = c.want
        /\ f.got = c.got /\ f.done = c.done + c.ret /\ f.iov = left
    BY <1>1 DEF Frame
  <2>5. f \in Frame
    BY <1>1, <2>2, <2>3 DEF Frame
  <2>. HIDE DEF f
  <2>6. Sum(f.iov) = f.want - f.done
    BY <1>2, <1>3, <2>2, <2>4
  <2>. QED
    BY <1>6, <2>2, <2>4, <2>5, <2>6, AddUpStep
<1>7. CASE c.ret = 0 /\ Return(u, 0)
  <2>1. ~ LastsFull /\ c.call \notin Receiving
    BY <1>1, <1>7 DEF BooksOK, Receiving, ReadCalls, ExactCalls
  <2>. QED
    BY <1>1, <1>7, <2>1, OuterReturn
<1>. QED
  BY <1>4, <1>5, <1>6, <1>7 DEF WritevLoop

LEMMA LookAtResultKeeps ==
    ASSUME SocketInv, NEW u \in Ut, LookAtResult(u)
    PROVE  SocketInv'
<1>. DEFINE c == co[u]
<1>1. c.at = "ret" /\ UNCHANGED <<rcv, shut>>
  BY DEF LookAtResult, In, kernelVars
<1>2. CASE Failed(u)
  BY <1>1, <1>2, FailedKeeps
<1>3. CASE /\ c.call \in ReadCalls \cup MessageCalls \cup {"accept", "connect"}
           /\ c.ret >= 0 /\ Return(u, c.ret)
  BY <1>1, <1>3, ResultReturn
<1>4. CASE c.call \in ExactCalls \cup WriteCalls /\ c.ret = 0 /\ Return(u, c.done)
  <2>1. c.done + c.ret = c.done /\ c.ret >= 0
    BY <1>1, <1>4, InCallFacts DEF Frame
  <2>. QED
    BY <1>1, <1>4, <2>1, CountReturn
<1>5. CASE /\ c.call \in ExactCalls \cup WriteCalls /\ c.ret > 0
           /\ co' = [co EXCEPT ![u].done = @ + co[u].ret, ![u].at = "top"]
           /\ UNCHANGED appVars
  BY <1>1, <1>5, PartKeeps
<1>6. CASE c.ret \in {-1, -2} /\ GoTo(u, "top")
  <2>1. Fresh(c) = 0
    BY <1>6 DEF Fresh
  <2>. QED
    BY <1>1, <1>6, <2>1, PlaceStep DEF GoTo
<1>7. CASE c.call = "writev" /\ WritevLoop(u)
  BY <1>1, <1>7, WritevKeeps
<1>. QED
  BY <1>2, <1>3, <1>4, <1>5, <1>6, <1>7
     DEF LookAtResult, ReadLoop, ExactLoop, WriteLoop, MessageLoop, AcceptLoop, ConnectLoop

LEMMA WaitKeeps ==
    ASSUME SocketInv, NEW u \in Ut, Wake(u) \/ Expire(u) \/ Woken(u)
    PROVE  SocketInv'
<1>1. CASE Wake(u) \/ Expire(u)
  <2>1. /\ co[u].at = "wait" /\ co' = [co EXCEPT ![u].at = "woken"]
        /\ UNCHANGED <<rcv, shut, appVars>>
    BY <1>1 DEF Wake, Expire, In, kernelVars
  <2>2. Fresh(co[u]) = 0
    BY <2>1 DEF Fresh
  <2>. QED
    BY <2>1, <2>2, PlaceStep
<1>2. CASE Woken(u)
  <2>1. co[u].at = "woken" /\ UNCHANGED <<rcv, shut>> /\ Fresh(co[u]) = 0
    BY <1>2 DEF Woken, In, kernelVars, Fresh
  <2>2. CASE GoTo(u, "top")
    BY <2>1, <2>2, PlaceStep DEF GoTo
  <2>3. CASE Return(u, -2) \/ Return(u, -1)
    BY <2>1, <2>3, ErrorReturn
  <2>. QED
    BY <1>2, <2>2, <2>3 DEF Woken
<1>. QED
  BY <1>1, <1>2

-----------------------------------------------------------------------------
(* The bytes arrive *)

LEMMA SocketInit == Init => SocketInv
<1>. SUFFICES ASSUME Init PROVE SocketInv
  OBVIOUS
<1>1. /\ Idle \in Frame /\ Idle.call = "none" /\ Idle.at = "user" /\ Idle.got = <<>>
      /\ Idle.nested = FALSE /\ Put(Idle) = 0 /\ BooksOK(Idle)
  BY DEF Idle, Frame, BooksOK, Put, Fresh, Receiving, Sending, ReadCalls, ExactCalls,
         WriteCalls, MessageCalls
<1>2. /\ co = [u \in Ut |-> Idle] /\ rcv = [u \in Ut |-> <<>>] /\ inn = [u \in Ut |-> <<>>]
      /\ total = [u \in Ut |-> 0] /\ failed = [u \in Ut |-> FALSE]
      /\ shut = [u \in Ut |-> FALSE]
  BY DEF Init
<1>3. <<>> \in Seq(Nat) /\ Len(<<>>) = 0
  OBVIOUS
<1>4. SocketTypeOK
  BY <1>1, <1>2, <1>3 DEF SocketTypeOK
<1>5. CallsOK
  BY <1>1, <1>2 DEF CallsOK, EndMet
<1>6. ReceivedOK
  <2>1. \A u \in Ut : Stream(u) = <<>>
    BY <1>1, <1>2 DEF Stream
  <2>2. <<>> = [i \in 1..0 |-> i]
    OBVIOUS
  <2>3. \A u \in Ut : Peer(u) \in Ut
    BY PeerFacts
  <2>4. \A u \in Ut : total[Peer(u)] + Put(co[Peer(u)]) = 0
    BY <1>1, <1>2, <2>3
  <2>. QED
    BY <1>3, <2>1, <2>2, <2>4 DEF ReceivedOK
<1>7. RoomOK
  BY <1>2, <1>3, SocketAssumption DEF RoomOK
<1>. QED
  BY <1>4, <1>5, <1>6, <1>7 DEF SocketInv

LEMMA SocketStep ==
    ASSUME SocketInv, [Next]_vars
    PROVE  SocketInv'
<1>1. ASSUME NEW u \in Ut, NEW c \in {"accept", "connect"}, Begin(u, c, 0, <<>>)
      PROVE  SocketInv'
  <2>1. c \in AllCalls /\ 0 \in Nat /\ <<>> \in Seq(Nat) /\ c # "writev"
    BY DEF AllCalls
  <2>. QED
    BY <1>1, <2>1, BeginKeeps
<1>2. ASSUME NEW u \in Ut, NEW c \in (Receiving \cup Sending) \ {"writev"},
             NEW n \in Lengths, Begin(u, c, n, <<>>)
      PROVE  SocketInv'
  <2>1. c \in AllCalls /\ n \in Nat /\ <<>> \in Seq(Nat) /\ c # "writev"
    BY SocketAssumption DEF AllCalls
  <2>. QED
    BY <1>2, <2>1, BeginKeeps
<1>3. ASSUME NEW u \in Ut, NEW iov \in Iovs, Begin(u, "writev", Sum(iov), iov)
      PROVE  SocketInv'
  <2>1. /\ iov \in Seq(Nat) /\ "writev" \in AllCalls
        /\ LastsFull => EndsFull(iov)
    BY SocketAssumption DEF LastsFull, EndsFull, AllCalls, Sending
  <2>2. Sum(iov) \in Nat
    BY <2>1, SumType
  <2>. QED
    BY <1>3, <2>1, <2>2, BeginKeeps
<1>4. ASSUME NEW u \in Ut, InCall(u) \/ Expire(u) \/ Close(u) \/ End(u)
      PROVE  SocketInv'
  <2>1. CASE Recurse(u)
    BY <2>1, QuietStep DEF Recurse, kernelVars
  <2>. QED
    BY <1>4, <2>1, LeaveLoopKeeps, NestKeeps, SystemCallKeeps, LookAtResultKeeps,
       WaitKeeps, CloseStep, EndKeeps DEF InCall, RunsInCall
<1>5. CASE Establish \/ ResetByNetwork \/ Rests \/ UNCHANGED vars
  BY <1>5, QuietStep DEF Establish, ResetByNetwork, Rests, vars, kernelVars
<1>. QED
  BY <1>1, <1>2, <1>3, <1>4, <1>5 DEF Next

(* The inductive invariant of the socket functions: each loop's books agree *)
(* with its buffer and with the kernel.                                     *)
THEOREM SocketInvariant == Spec => []SocketInv
<1>1. SocketInv /\ [Next]_vars => SocketInv'
  BY SocketStep
<1>. QED
  BY <1>1, SocketInit, PTL DEF Spec

(* No byte is lost, repeated or reordered by partial reads and writes,      *)
(* retries, errno of another coroutine, nested reads and the bookkeeping of *)
(* writev, for all calls, lengths and kernel buffers, and all iovecs that   *)
(* do not end with an empty buffer.                                         *)
THEOREM StreamIsIntact == LastsFull /\ Spec => []StreamIntact
<1>. SUFFICES ASSUME LastsFull PROVE Spec => []StreamIntact
  OBVIOUS
<1>1. SocketInv => StreamIntact
  <2>. SUFFICES ASSUME SocketInv, NEW u \in Ut, ~ failed[u]
                PROVE  /\ Stream(u) = [i \in 1..Len(Stream(u)) |-> i]
                       /\ co[Peer(u)].call = "none" /\ ~ failed[Peer(u)] =>
                              Len(Stream(u)) = total[Peer(u)]
    BY DEF StreamIntact
  <2>1. Peer(u) \in Ut /\ co[Peer(u)] \in Frame /\ total[Peer(u)] \in Nat
    BY PeerFacts DEF SocketInv, SocketTypeOK
  <2>2. co[Peer(u)].call = "none" => Put(co[Peer(u)]) = 0
    BY <2>1 DEF SocketInv, CallsOK, BooksOK, Put, Sending, WriteCalls, MessageCalls
  <2>. QED
    BY <2>1, <2>2 DEF SocketInv, ReceivedOK
<1>. QED
  BY <1>1, SocketInvariant, PTL

-----------------------------------------------------------------------------
(* The counts are right *)

(* What NoShortCount says of one coroutine. *)
Counts(u) ==
    co[u].call # "none" /\ co'[u].call = "none" =>
        /\ (co[u].call \notin MessageCalls /\ total'[u] # total[u]) =>
                total'[u] = total[u] + co[u].want
        /\ (co[u].call \in ExactCalls /\ inn'[u] # inn[u]) =>
                \/ Len(inn'[u]) = Len(inn[u]) + co[u].want
                \/ shut[Peer(u)] /\ rcv[u] = <<>>

(* A call that returns r to the program. *)
LEMMA ReturnCounts ==
    ASSUME SocketInv, NEW u \in Ut, NEW r \in Int, Return(u, r),
           co[u].call \in Sending \ MessageCalls /\ r > 0 => r = co[u].want,
           co[u].call \in ExactCalls /\ r > 0 =>
                /\ Len(co[u].got) = r
                /\ r = co[u].want \/ (shut[Peer(u)] /\ rcv[u] = <<>>)
    PROVE  Counts(u)
<1>. DEFINE c == co[u]
<1>1. c \in Frame /\ c.got \in Seq(Nat) /\ inn[u] \in Seq(Nat) /\ total[u] \in Nat
  BY DEF SocketInv, SocketTypeOK, Frame
<1>2. CASE c.nested
  <2>. DEFINE f == [c EXCEPT !.call = "read_exact", !.nested = FALSE, !.at = "ret", !.ret = r]
  <2>1. co'[u] = f
    BY <1>2 DEF Return, SocketInv, SocketTypeOK
  <2>2. f.call = "read_exact"
    BY <1>1 DEF Frame
  <2>. HIDE DEF f
  <2>. QED
    BY <2>1, <2>2 DEF Counts
<1>3. CASE ~ c.nested
  <2>1. total'[u] = IF c.call \in Sending /\ r > 0 THEN total[u] + r ELSE total[u]
    BY <1>3 DEF Return, SocketInv, SocketTypeOK
  <2>2. IF c.call \in Receiving /\ r > 0
          THEN inn'[u] = inn[u] \o SubSeq(c.got, 1, r) ELSE inn'[u] = inn[u]
    BY <1>3 DEF Return, SocketInv, SocketTypeOK
  <2>3. c.call \in ExactCalls /\ r > 0 => Len(inn'[u]) = Len(inn[u]) + r
    <3>. SUFFICES ASSUME c.call \in ExactCalls, r > 0
                  PROVE  Len(inn'[u]) = Len(inn[u]) + r
      OBVIOUS
    <3>1. r = Len(c.got) /\ c.call \in Receiving
      BY DEF Receiving
    <3>2. SubSeq(c.got, 1, Len(c.got)) = c.got
      BY <1>1, SubSeqFull, Zenon
    <3>3. inn'[u] = inn[u] \o c.got
      BY <2>2, <3>1, <3>2
    <3>4. Len(inn[u] \o c.got) = Len(inn[u]) + Len(c.got)
      BY <1>1, ConcatProperties
    <3>. QED
      BY <3>1, <3>3, <3>4
  <2>4. c.call \in ExactCalls /\ inn'[u] # inn[u] => r > 0
    BY <2>2
  <2>. QED
    BY <2>1, <2>3, <2>4 DEF Counts
<1>. QED
  BY <1>2, <1>3

(* A call that goes on. *)
LEMMA GoesOnCounts ==
    ASSUME NEW u \in Ut, co'[u].call = co[u].call \/ co'[u].call # "none"
    PROVE  Counts(u)
BY DEF Counts

LEMMA LeaveLoopCounts ==
    ASSUME SocketInv, NEW u \in Ut, LeaveLoop(u)
    PROVE  Counts(u)
<1>. DEFINE c == co[u]
<1>1. c.at = "top" /\ c \in Frame /\ BooksOK(c)
  BY InCallFacts DEF LeaveLoop, In
<1>2. CASE c.done = c.want /\ Return(u, c.done)
  <2>1. c.done \in Int
    BY <1>1 DEF Frame
  <2>2. c.call \in ExactCalls => Len(c.got) = c.done
    BY <1>1 DEF BooksOK, Fresh, Receiving, Frame
  <2>. QED
    BY <1>2, <2>1, <2>2, ReturnCounts
<1>3. CASE Return(u, -1)
  BY <1>3, ReturnCounts
<1>. QED
  BY <1>2, <1>3 DEF LeaveLoop

LEMMA LookAtResultCounts ==
    ASSUME SocketInv, NEW u \in Ut, LookAtResult(u)
    PROVE  Counts(u)
<1>. DEFINE c == co[u]
<1>1. /\ c.at = "ret" /\ c \in Frame /\ BooksOK(c) /\ EndMet(u, c)
      /\ c.ret \in Int /\ c.done \in Nat /\ c.want \in Nat
  BY InCallFacts DEF LookAtResult, In, Frame
<1>2. CASE Return(u, -1)
  BY <1>2, ReturnCounts
<1>3. CASE \E place \in {"top", "wait"} : GoTo(u, place)
  <2>1. co'[u].call = c.call
    BY <1>1, <1>3 DEF GoTo, SocketInv, SocketTypeOK, Frame
  <2>. QED
    BY <2>1, GoesOnCounts
<1>4. CASE /\ c.call \in ReadCalls \cup MessageCalls \cup {"accept", "connect"}
           /\ Return(u, c.ret)
  <2>1. c.call \notin ExactCalls /\ c.call \notin Sending \ MessageCalls
    BY <1>4 DEF Sending, ReadCalls, ExactCalls, WriteCalls, MessageCalls
  <2>. QED
    BY <1>1, <1>4, <2>1, ReturnCounts
<1>5. CASE c.call \in ExactCalls /\ c.ret = 0 /\ Return(u, c.done)
  <2>1. Len(c.got) = c.done /\ shut[Peer(u)] /\ rcv[u] = <<>>
    BY <1>1, <1>5 DEF BooksOK, Fresh, EndMet, Receiving
  <2>2. c.call \notin Sending /\ c.done \in Int
    BY <1>1, <1>5 DEF Sending, ExactCalls, WriteCalls, MessageCalls
  <2>. QED
    BY <1>5, <2>1, <2>2, ReturnCounts
<1>6. CASE co' = [co EXCEPT ![u].done = @ + co[u].ret, ![u].at = "top"]
  <2>1. co'[u].call = c.call
    BY <1>1, <1>6 DEF SocketInv, SocketTypeOK, Frame
  <2>. QED
    BY <2>1, GoesOnCounts
<1>7. CASE c.call = "writev" /\ WritevLoop(u)
  <2>. DEFINE left == Advance(c.iov, c.ret)
  <2>1. Sum(c.iov) = c.want - c.done /\ c.iov \in Seq(Nat)
    BY <1>1, <1>7 DEF BooksOK, Frame
  <2>2. CASE c.ret > 0 /\ left = <<>> /\ Return(u, c.done + c.ret)
    <3>1. c.done + c.ret <= c.want
      BY <1>1, <2>2 DEF BooksOK, Fresh
    <3>2. c.ret \in 1..Sum(c.iov)
      BY <1>1, <2>1, <2>2, <3>1
    <3>3. Sum(left) = Sum(c.iov) - c.ret /\ left \in Seq(Nat)
      BY <2>1, <3>2, AdvanceTakes
    <3>4. Sum(left) = 0
      BY <2>2, <3>3, SumType
    <3>. HIDE DEF left
    <3>5. c.done + c.ret = c.want /\ c.done + c.ret \in Int
      <4>1. \A d, w, r, s \in Int : s = w - d /\ 0 = s - r => d + r = w /\ d + r \in Int
        OBVIOUS
      <4>2. c.done \in Int /\ c.want \in Int /\ c.ret \in Int /\ Sum(c.iov) \in Int
        BY <1>1, <2>1, <3>2, SumType
      <4>. QED
        BY <2>1, <3>3, <3>4, <4>1, <4>2
    <3>6. c.call \notin ExactCalls
      BY <1>7 DEF ExactCalls
    <3>. QED
      BY <2>2, <3>5, <3>6, ReturnCounts
  <2>3. CASE co' = [co EXCEPT ![u].done = @ + c.ret, ![u].iov = left, ![u].at = "top"]
    <3>1. co'[u].call = c.call
      <4>. HIDE DEF left
      <4>. QED
        BY <1>1, <2>3 DEF SocketInv, SocketTypeOK, Frame
    <3>. QED
      BY <3>1, GoesOnCounts
  <2>4. CASE Return(u, 0)
    <3>1. 0 \in Int /\ ~ (0 > 0)
      OBVIOUS
    <3>. QED
      BY <2>4, <3>1, ReturnCounts
  <2>. QED
    BY <1>2, <1>3, <1>7, <2>2, <2>3, <2>4 DEF WritevLoop, Failed
<1>8. CASE c.call \in WriteCalls /\ WriteLoop(u)
  <2>1. c.ret # 0
    BY <1>1, <1>8 DEF BooksOK
  <2>. QED
    BY <1>2, <1>3, <1>6, <1>8, <2>1 DEF WriteLoop, Failed
<1>. QED
  BY <1>2, <1>3, <1>4, <1>5, <1>6, <1>7, <1>8
     DEF LookAtResult, ReadLoop, ExactLoop, MessageLoop, AcceptLoop, ConnectLoop, Failed

(* The steps of u behind which it is still in its call, or was in none. *)
LEMMA OtherCounts ==
    ASSUME SocketInv, NEW u \in Ut,
           \/ Recurse(u) \/ Nest(u) \/ SystemCall(u) \/ Wake(u) \/ Expire(u) \/ Woken(u)
           \/ Close(u) \/ End(u)
    PROVE  Counts(u)
<1>1. co[u] \in Frame /\ co \in [Ut -> Frame]
  BY DEF SocketInv, SocketTypeOK
<1>2. CASE Recurse(u) \/ Close(u)
  BY <1>2, GoesOnCounts DEF Recurse, Close
<1>3. CASE Nest(u)
  <2>1. co'[u].call = "read"
    BY <1>1, <1>3 DEF Nest, Frame
  <2>. QED
    BY <2>1, GoesOnCounts
<1>4. CASE Wake(u) \/ Expire(u) \/ End(u)
  <2>1. co'[u].call = co[u].call
    BY <1>1, <1>4 DEF Wake, Expire, End, Frame
  <2>. QED
    BY <2>1, GoesOnCounts
<1>5. CASE Woken(u)
  <2>1. GoTo(u, "top") => co'[u].call = co[u].call
    BY <1>1 DEF GoTo, Frame
  <2>. QED
    BY <1>5, <2>1, GoesOnCounts, ReturnCounts DEF Woken
<1>6. CASE SystemCall(u)
  <2>1. ASSUME NEW e, Fails(u, e) PROVE co'[u].call = co[u].call
    BY <1>1, <2>1 DEF Fails, Frame
  <2>2. WouldBlock(u) => co'[u].call = co[u].call
    BY <2>1 DEF WouldBlock
  <2>3. sys_read(u) => co'[u].call = co[u].call
    BY <1>1, <2>1, <2>2 DEF sys_read, Frame
  <2>4. sys_write(u) => co'[u].call = co[u].call
    BY <1>1, <2>1, <2>2 DEF sys_write, Frame
  <2>5. sys_accept(u) \/ sys_connect(u) => co'[u].call = co[u].call
    BY <1>1, <2>1 DEF sys_accept, sys_connect, Frame
  <2>. QED
    BY <1>6, <2>3, <2>4, <2>5, GoesOnCounts DEF SystemCall
<1>. QED
  BY <1>2, <1>3, <1>4, <1>5, <1>6

(* A step of v is none of another coroutine. *)
LEMMA OneMoves ==
    ASSUME SocketInv, NEW v \in Ut, NEW u \in Ut, u # v,
           InCall(v) \/ Expire(v) \/ Close(v) \/ End(v)
    PROVE  co'[u] = co[u]
<1>1. co \in [Ut -> Frame]
  BY DEF SocketInv, SocketTypeOK
<1>2. ASSUME NEW r, Return(v, r) PROVE co'[u] = co[u]
  BY <1>1, <1>2 DEF Return
<1>3. ASSUME NEW place, GoTo(v, place) PROVE co'[u] = co[u]
  BY <1>1, <1>3 DEF GoTo
<1>4. ASSUME NEW e, Fails(v, e) PROVE co'[u] = co[u]
  BY <1>1, <1>4 DEF Fails
<1>5. LeaveLoop(v) \/ Woken(v) => co'[u] = co[u]
  BY <1>2, <1>3 DEF LeaveLoop, Woken
<1>6. Recurse(v) \/ Nest(v) \/ Wake(v) \/ Expire(v) \/ Close(v) \/ End(v)
        => co'[u] = co[u]
  BY <1>1 DEF Recurse, Nest, Wake, Expire, Close, End
<1>7. LookAtResult(v) => co'[u] = co[u]
  <2>1. WritevLoop(v) => co'[u] = co[u]
    BY <1>1, <1>2, <1>3 DEF WritevLoop, Failed
  <2>2. ExactLoop(v) \/ WriteLoop(v) => co'[u] = co[u]
    BY <1>1, <1>2, <1>3 DEF ExactLoop, WriteLoop, Failed
  <2>. QED
    BY <1>2, <1>3, <2>1, <2>2
       DEF LookAtResult, ReadLoop, MessageLoop, AcceptLoop, ConnectLoop, Failed
<1>8. SystemCall(v) => co'[u] = co[u]
  <2>1. WouldBlock(v) => co'[u] = co[u]
    BY <1>4 DEF WouldBlock
  <2>2. sys_read(v) => co'[u] = co[u]
    BY <1>1, <1>4, <2>1 DEF sys_read
  <2>3. sys_write(v) => co'[u] = co[u]
    BY <1>1, <1>4, <2>1 DEF sys_write
  <2>4. sys_accept(v) \/ sys_connect(v) => co'[u] = co[u]
    BY <1>1, <1>4 DEF sys_accept, sys_connect
  <2>. QED
    BY <2>2, <2>3, <2>4 DEF SystemCall
<1>. QED
  BY <1>5, <1>6, <1>7, <1>8 DEF InCall, RunsInCall

LEMMA CountsStep ==
    ASSUME SocketInv, Next, NEW u \in Ut
    PROVE  Counts(u)
<1>1. ASSUME NEW v \in Ut, NEW c, NEW n, NEW iov, Begin(v, c, n, iov) PROVE Counts(u)
  <2>1. CASE v = u
    <3>1. co[u].call = "none"
      BY <1>1, <2>1 DEF Begin, In, SocketInv, CallsOK, BooksOK
    <3>. QED
      BY <3>1 DEF Counts
  <2>2. CASE v # u
    <3>1. co'[u] = co[u]
      BY <1>1, <2>2 DEF Begin, SocketInv, SocketTypeOK
    <3>. QED
      BY <3>1, GoesOnCounts
  <2>. QED
    BY <2>1, <2>2
<1>2. ASSUME NEW v \in Ut, InCall(v) \/ Expire(v) \/ Close(v) \/ End(v)
      PROVE  Counts(u)
  <2>1. CASE v = u
    BY <1>2, <2>1, LeaveLoopCounts, LookAtResultCounts, OtherCounts
       DEF InCall, RunsInCall
  <2>2. CASE v # u
    BY <1>2, <2>2, OneMoves, GoesOnCounts
  <2>. QED
    BY <2>1, <2>2
<1>3. CASE Establish \/ ResetByNetwork \/ Rests
  BY <1>3, GoesOnCounts DEF Establish, ResetByNetwork, Rests, vars
<1>. QED
  BY <1>1, <1>2, <1>3 DEF Next

(* A write that succeeds has sent all it was given, and an exact read that  *)
(* reports less than it was asked for has met the end of the stream.        *)
THEOREM CountsAreFull == Spec => NoShortCount
<1>1. SocketInv /\ [Next]_vars => [\A u \in Ut : Counts(u)]_vars
  BY CountsStep
<1>. QED
  BY <1>1, SocketInvariant, PTL DEF Spec, NoShortCount, Counts

=============================================================================
