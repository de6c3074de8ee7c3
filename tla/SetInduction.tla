----------------------------- MODULE SetInduction -----------------------------
(***************************************************************************)
(* Induction over the natural numbers, stated of sets: the forms that what *)
(* follows of queues, sequences and loops of any length is proved with.    *)
(***************************************************************************)
EXTENDS Naturals, WellFoundedInduction, TLAPS

LEMMA SmallerIsBefore ==
    ASSUME NEW m \in Nat, NEW n \in Nat, m < n
    PROVE  <<m, n>> \in OpToRel(<, Nat)
BY DEF OpToRel

\* Every set of numbers has a least one.
LEMMA LeastNatural ==
    ASSUME NEW S, S \subseteq Nat, S # {}
    PROVE  \E n \in S : \A m \in S : n <= m
<1> DEFINE before == OpToRel(<, Nat)
<1>1. IsWellFoundedOn(before, Nat)
  BY NatLessThanWellFounded
<1>2. PICK n \in S : \A m \in S : ~(<<m, n>> \in before)
  <2> HIDE DEF before
  <2> QED
    BY <1>1, WFMin
<1>3. ASSUME NEW m \in S
      PROVE  n <= m
  <2>1. ~(m < n)
    BY <1>2, SmallerIsBefore, Zenon
  <2> QED
    BY <2>1
<1> QED
  BY <1>3

\* What holds of 0, and of n + 1 where it holds of n, holds of every number.
LEMMA NatSetInduction ==
    ASSUME NEW S, 0 \in S, \A n \in Nat : n \in S => n + 1 \in S
    PROVE  Nat \subseteq S
<1> SUFFICES ASSUME Nat \ S # {} PROVE FALSE
  OBVIOUS
<1>1. PICK n \in Nat \ S : \A m \in Nat \ S : n <= m
  BY LeastNatural
<1>2. n # 0 /\ n - 1 \in Nat /\ ~(n <= n - 1)
  BY <1>1
<1>3. n - 1 \in S
  BY <1>1, <1>2
<1> QED
  BY <1>1, <1>2, <1>3

\* What a loop has after each of its steps.
Loops(T, base, N, step) ==
    {f \in [0 .. N -> T] : f[0] = base /\ \A n \in 1 .. N : f[n] = step[n][f[n - 1]]}

\* Where each step takes what is of T to T, there is such a function.
LEMMA LoopExists ==
    ASSUME NEW T, NEW base \in T, NEW N \in Nat,
           NEW step, \A n \in 1 .. N, x \in T : step[n][x] \in T
    PROVE  Loops(T, base, N, step) # {}
<1> DEFINE Good == {n \in Nat : n <= N =>
                        \E f \in [0 .. n -> T] :
                            f[0] = base /\ \A k \in 1 .. n : f[k] = step[k][f[k - 1]]}
<1>1. 0 \in Good
  <2> DEFINE f == [k \in 0 .. 0 |-> base]
  <2>1. f \in [0 .. 0 -> T] /\ f[0] = base /\ \A k \in 1 .. 0 : f[k] = step[k][f[k - 1]]
    OBVIOUS
  <2> QED
    BY <2>1
<1>2. ASSUME NEW n \in Nat, n \in Good
      PROVE  n + 1 \in Good
  <2> SUFFICES ASSUME n + 1 <= N
               PROVE  \E f \in [0 .. n + 1 -> T] :
                          f[0] = base /\ \A k \in 1 .. n + 1 : f[k] = step[k][f[k - 1]]
    OBVIOUS
  <2>1. PICK g \in [0 .. n -> T] : g[0] = base /\ \A k \in 1 .. n : g[k] = step[k][g[k - 1]]
    BY <1>2
  <2> DEFINE last == step[n + 1][g[n]]
             f == [k \in 0 .. n + 1 |-> IF k = n + 1 THEN last ELSE g[k]]
  <2>2. last \in T
    <3>1. n + 1 \in 1 .. N /\ g[n] \in T
      OBVIOUS
    <3> QED
      BY <3>1
  <2>3. last = step[n + 1][g[n]]
    OBVIOUS
  <2> HIDE DEF last
  <2>4. /\ f \in [0 .. n + 1 -> T]
        /\ f[n + 1] = last /\ \A k \in 0 .. n : f[k] = g[k]
    BY <2>2
  <2> HIDE DEF f
  <2>5. ASSUME NEW k \in 1 .. n + 1
        PROVE  f[k] = step[k][f[k - 1]]
    <3>1. CASE k = n + 1
      <4>1. k - 1 = n /\ n \in 0 .. n
        BY <3>1
      <4> QED
        BY <2>3, <2>4, <3>1, <4>1
    <3>2. CASE k \in 1 .. n
      <4>1. k \in 0 .. n /\ k - 1 \in 0 .. n
        BY <3>2
      <4> QED
        BY <2>1, <2>4, <3>2, <4>1
    <3> QED
      BY <3>1, <3>2
  <2>6. f[0] = base
    BY <2>1, <2>4
  <2> QED
    BY <2>4, <2>5, <2>6
<1>3. Nat \subseteq Good
  <2> HIDE DEF Good
  <2> QED
    BY <1>1, <1>2, NatSetInduction
<1> QED
  BY <1>3 DEF Loops

=============================================================================
