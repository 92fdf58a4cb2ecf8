--------------------------- MODULE FiniteRecursion ---------------------------
(***************************************************************************)
(* Induction over the natural numbers in terms of sets, and what it says   *)
(* of a function on 0 .. m that is defined from its value one step before. *)
(***************************************************************************)
EXTENDS Naturals, WellFoundedInduction, TLAPS

LEMMA NatSetInduction ==
    ASSUME NEW S, 0 \in S, \A n \in Nat : n \in S => n + 1 \in S
    PROVE  Nat \subseteq S
<1> DEFINE T == Nat \ S
           R == OpToRel(<, Nat)
<1>1. SUFFICES ASSUME T # {} PROVE FALSE
  OBVIOUS
<1>2. PICK x \in T : \A y \in T : ~(<<y, x>> \in R)
  <2>1. IsWellFoundedOn(R, Nat)
    BY NatLessThanWellFounded
  <2>2. T \subseteq Nat
    OBVIOUS
  <2> HIDE DEF R, T
  <2>3. QED
    BY <1>1, <2>1, <2>2, WFMin
<1>3. x # 0 /\ x - 1 \in Nat /\ x - 1 < x
  OBVIOUS
<1>4. <<x - 1, x>> \in R
  BY <1>3 DEF OpToRel
<1>5. x - 1 \in S
  BY <1>2, <1>3, <1>4
<1>6. QED
  BY <1>3, <1>5

\* What every step keeps in V stays in V.
LEMMA StaysInSet ==
    ASSUME NEW m \in Nat, NEW f, NEW V, f[0] \in V,
           \A n \in 1 .. m : f[n - 1] \in V => f[n] \in V
    PROVE  \A n \in 0 .. m : f[n] \in V
<1> DEFINE S == {n \in Nat : n <= m => f[n] \in V}
<1>1. 0 \in S
  OBVIOUS
<1>2. ASSUME NEW n \in Nat, n \in S PROVE n + 1 \in S
  <2>1. SUFFICES ASSUME n + 1 <= m PROVE f[n + 1] \in V
    OBVIOUS
  <2>2. n + 1 \in 1 .. m /\ (n + 1) - 1 = n /\ f[n] \in V
    BY <1>2, <2>1
  <2>3. QED
    BY <2>2
<1>3. Nat \subseteq S
  <2> HIDE DEF S
  <2>1. QED
    BY <1>1, <1>2, NatSetInduction
<1>4. QED
  BY <1>3

\* From where a step is in V on, all that follow are, when every step keeps it.
LEMMA StaysInSetFrom ==
    ASSUME NEW m \in Nat, NEW k \in 0 .. m, NEW f, NEW V, f[k] \in V,
           \A n \in (k + 1) .. m : f[n - 1] \in V => f[n] \in V
    PROVE  f[m] \in V
<1> DEFINE S == {n \in Nat : n \in k .. m => f[n] \in V}
<1>1. 0 \in S
  OBVIOUS
<1>2. ASSUME NEW n \in Nat, n \in S PROVE n + 1 \in S
  <2>1. SUFFICES ASSUME n + 1 \in k .. m PROVE f[n + 1] \in V
    OBVIOUS
  <2>2. CASE n + 1 = k
    BY <2>2
  <2>3. CASE n + 1 # k
    <3>1. n \in k .. m /\ n + 1 \in (k + 1) .. m /\ (n + 1) - 1 = n
      BY <2>1, <2>3
    <3>2. QED
      BY <1>2, <3>1
  <2>4. QED
    BY <2>2, <2>3
<1>3. Nat \subseteq S
  <2> HIDE DEF S
  <2>1. QED
    BY <1>1, <1>2, NatSetInduction
<1>4. QED
  BY <1>3

\* Two functions that start in a relation and whose steps keep them in it are in it.
LEMMA StaysRelated ==
    ASSUME NEW m \in Nat, NEW f, NEW g, NEW R, <<f[0], g[0]>> \in R,
           \A n \in 1 .. m : <<f[n - 1], g[n - 1]>> \in R => <<f[n], g[n]>> \in R
    PROVE  \A n \in 0 .. m : <<f[n], g[n]>> \in R
<1> DEFINE h == [n \in 0 .. m |-> <<f[n], g[n]>>]
<1>1. \A n \in 0 .. m : h[n] = <<f[n], g[n]>>
  OBVIOUS
<1>2. 0 \in 0 .. m /\ \A n \in 1 .. m : n \in 0 .. m /\ n - 1 \in 0 .. m
  OBVIOUS
<1> HIDE DEF h
<1>3. h[0] \in R /\ \A n \in 1 .. m : h[n - 1] \in R => h[n] \in R
  BY <1>1, <1>2
<1>4. \A n \in 0 .. m : h[n] \in R
  BY <1>3, StaysInSet
<1>5. QED
  BY <1>1, <1>4

\* Two functions that start alike and whose steps keep them alike are alike.
LEMMA StaysEqual ==
    ASSUME NEW m \in Nat, NEW f, NEW g, f[0] = g[0],
           \A n \in 1 .. m : f[n - 1] = g[n - 1] => f[n] = g[n]
    PROVE  \A n \in 0 .. m : f[n] = g[n]
<1> DEFINE S == {n \in Nat : n <= m => f[n] = g[n]}
<1>1. 0 \in S
  OBVIOUS
<1>2. ASSUME NEW n \in Nat, n \in S PROVE n + 1 \in S
  <2>1. SUFFICES ASSUME n + 1 <= m PROVE f[n + 1] = g[n + 1]
    OBVIOUS
  <2>2. n + 1 \in 1 .. m /\ (n + 1) - 1 = n /\ f[n] = g[n]
    BY <1>2, <2>1
  <2>3. QED
    BY <2>2
<1>3. Nat \subseteq S
  <2> HIDE DEF S
  <2>1. QED
    BY <1>1, <1>2, NatSetInduction
<1>4. QED
  BY <1>3

\* f starts with start and goes on by step.
Follows(f, m, V, start, step) ==
    /\ f \in [0 .. m -> V]
    /\ f[0] = start
    /\ \A n \in 1 .. m : f[n] = step[<<n, f[n - 1]>>]

\* A step on V defines a function.
LEMMA StepwiseFunction ==
    ASSUME NEW m \in Nat, NEW V, NEW start \in V, NEW step \in [(1 .. m) \X V -> V]
    PROVE  \E f : Follows(f, m, V, start, step)
<1> DEFINE S == {k \in Nat : k <= m => \E f : Follows(f, k, V, start, step)}
<1>1. 0 \in S
  <2>1. Follows([n \in 0 .. 0 |-> start], 0, V, start, step)
    BY DEF Follows
  <2>2. QED
    BY <2>1
<1>2. ASSUME NEW k \in Nat, k \in S PROVE k + 1 \in S
  <2>1. SUFFICES ASSUME k + 1 <= m PROVE \E f : Follows(f, k + 1, V, start, step)
    OBVIOUS
  <2>2. PICK f : Follows(f, k, V, start, step)
    BY <1>2, <2>1
  <2> DEFINE g == [n \in 0 .. (k + 1) |-> IF n = k + 1 THEN step[<<k + 1, f[k]>>] ELSE f[n]]
  <2>3. step[<<k + 1, f[k]>>] \in V
    <3>1. <<k + 1, f[k]>> \in (1 .. m) \X V
      BY <2>1, <2>2 DEF Follows
    <3>2. QED
      BY <3>1
  <2>4. g \in [0 .. (k + 1) -> V]
    BY <2>2, <2>3 DEF Follows
  <2>5. g[0] = start
    BY <2>2 DEF Follows
  <2>6. ASSUME NEW n \in 1 .. (k + 1) PROVE g[n] = step[<<n, g[n - 1]>>]
    <3>1. CASE n = k + 1
      <4>1. k \in 0 .. (k + 1) /\ k # k + 1 /\ n - 1 = k
        BY <3>1
      <4>2. g[k] = f[k] /\ g[k + 1] = step[<<k + 1, f[k]>>]
        BY <4>1
      <4> HIDE DEF g
      <4>3. QED
        BY <3>1, <4>1, <4>2
    <3>2. CASE n # k + 1
      BY <2>2, <3>2 DEF Follows
    <3>3. QED
      BY <3>1, <3>2
  <2> HIDE DEF g
  <2>7. QED
    BY <2>4, <2>5, <2>6 DEF Follows
<1>3. m \in S
  <2> HIDE DEF S
  <2>1. QED
    BY <1>1, <1>2, NatSetInduction
<1>4. QED
  BY <1>3
=============================================================================
