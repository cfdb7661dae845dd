---------------------------- MODULE NatRecursion ----------------------------
(***************************************************************************)
(* Induction over the natural numbers, stated about sets, and functions    *)
(* defined by recursion over them.  A property P of numbers is proved by   *)
(* showing that {n \in Nat : P(n)} is all of Nat.                          *)
(***************************************************************************)
EXTENDS Integers, WellFoundedInduction, TLAPS

\* Every non-empty set of naturals has a least element.
LEMMA LeastNatural ==
    ASSUME NEW T, T \subseteq Nat, T # {}
    PROVE  \E x \in T : \A y \in T : x <= y
  <1> DEFINE R == OpToRel(<, Nat)
  <1>1. IsWellFoundedOn(R, Nat)
    BY NatLessThanWellFounded
  <1>2. \A x, y \in Nat : y < x => <<y, x>> \in R
    BY DEF OpToRel
  <1> HIDE DEF R
  <1>3. PICK x \in T : \A y \in T : ~ (<<y, x>> \in R)
    BY <1>1, WFMin
  <1>4. \A y \in T : ~(y < x)
    BY <1>2, <1>3
  <1>5. x \in Nat /\ \A y \in T : y \in Nat
    BY <1>3
  <1>6. \A y \in T : x <= y
    BY <1>4, <1>5
  <1> QED BY <1>6

\* A set that has 0 and, with every number, its successor, has every number.
LEMMA Induction ==
    ASSUME NEW S, 0 \in S, \A n \in Nat : n \in S => n + 1 \in S
    PROVE  \A n \in Nat : n \in S
  <1> SUFFICES ASSUME Nat \ S # {} PROVE FALSE
    OBVIOUS
  <1>1. PICK x \in Nat \ S : \A y \in Nat \ S : x <= y
    <2> DEFINE T == Nat \ S
    <2> HIDE DEF T
    <2>1. T \subseteq Nat /\ T # {}
      BY DEF T
    <2>2. \E x \in T : \A y \in T : x <= y
      BY <2>1, LeastNatural
    <2> QED BY <2>2 DEF T
  <1>2. x \in Nat /\ x # 0
    BY <1>1
  <1>3. x - 1 \in Nat /\ ~(x <= x - 1)
    BY <1>2
  <1>4. x - 1 \in S
    BY <1>1, <1>3
  <1>5. (x - 1) + 1 \in S
    BY <1>3, <1>4
  <1> QED BY <1>1, <1>2, <1>5

\* A finite, non-empty set of naturals has a greatest element; here finite
\* means bounded.
LEMMA GreatestNatural ==
    ASSUME NEW S, S \subseteq Nat, S # {}, NEW b \in Nat, \A x \in S : x <= b
    PROVE  \E x \in S : \A y \in S : y <= x
  <1> DEFINE T == {n \in Nat : \A x \in S : x <= n}
  <1>1. T \subseteq Nat /\ T # {}
    OBVIOUS
  <1> HIDE DEF T
  <1>2. PICK n \in T : \A m \in T : n <= m
    BY <1>1, LeastNatural
  <1>3. n \in Nat /\ \A x \in S : x <= n
    BY <1>2 DEF T
  <1>4. CASE n \in S
    BY <1>3, <1>4
  <1>5. CASE n \notin S
    <2>1. PICK x \in S : TRUE
      OBVIOUS
    <2>2. x \in Nat /\ x <= n /\ x # n
      BY <1>3, <1>5, <2>1
    <2>3. n - 1 \in Nat /\ ~(n <= n - 1)
      BY <1>3, <2>2
    <2>4. \A y \in S : y <= n - 1
      <3> TAKE y \in S
      <3>1. y \in Nat /\ y <= n /\ y # n
        BY <1>3, <1>5
      <3> QED BY <1>3, <3>1
    <2> QED BY <1>2, <2>3, <2>4 DEF T
  <1> QED BY <1>4, <1>5

-----------------------------------------------------------------------------

\* g is the recursion from a by step, up to n.
Follows(g, n, a, step) ==
    g[0] = a /\ \A i \in 0..(n - 1) : g[i + 1] = step[i + 1][g[i]]

LEMMA FollowsAgree ==
    ASSUME NEW a, NEW step,
           NEW n \in Nat, NEW g, Follows(g, n, a, step),
           NEW m \in Nat, NEW h, Follows(h, m, a, step), n <= m
    PROVE  g[n] = h[n]
  <1> DEFINE A == {k \in Nat : k <= n => g[k] = h[k]}
  <1>1. 0 \in A
    BY DEF Follows
  <1>2. ASSUME NEW k \in Nat, k \in A PROVE k + 1 \in A
    <2> SUFFICES ASSUME k + 1 <= n PROVE g[k + 1] = h[k + 1]
      OBVIOUS
    <2>1. k \in 0..(n - 1) /\ k \in 0..(m - 1) /\ k <= n
      OBVIOUS
    <2>2. g[k] = h[k]
      BY <1>2, <2>1
    <2>3. g[k + 1] = step[k + 1][g[k]] /\ h[k + 1] = step[k + 1][h[k]]
      BY <2>1 DEF Follows
    <2> QED BY <2>2, <2>3
  <1> HIDE DEF A
  <1>3. n \in A
    BY <1>1, <1>2, Induction
  <1> QED BY <1>3 DEF A

\* f starts at a and goes from one number to the next by step, which is a
\* function of the number and the value before it.
Recursive(f, a, step) ==
    f[0] = a /\ \A n \in Nat : f[n + 1] = step[n + 1][f[n]]

Steps(S) == [Nat -> [S -> S]]

\* There is such a function.
LEMMA Recursion ==
    ASSUME NEW S, NEW a \in S, NEW step \in Steps(S)
    PROVE  \E f \in [Nat -> S] : Recursive(f, a, step)
  <1> USE DEF Steps
  <1> DEFINE Prefix(n) == {g \in [0..n -> S] : Follows(g, n, a, step)}
             N == {n \in Nat : Prefix(n) # {}}
  <1>1. 0 \in N
    <2>1. [i \in 0..0 |-> a] \in Prefix(0)
      BY DEF Follows
    <2> QED BY <2>1
  <1>2. ASSUME NEW n \in Nat, n \in N PROVE n + 1 \in N
    <2>1. PICK g \in [0..n -> S] : Follows(g, n, a, step)
      BY <1>2
    <2> DEFINE h == [i \in 0..(n + 1) |-> IF i = n + 1 THEN step[n + 1][g[n]] ELSE g[i]]
    <2>2. h \in [0..(n + 1) -> S]
      BY <2>1
    <2>3. \A i \in 0..n : h[i] = g[i]
      OBVIOUS
    <2>4. h[n + 1] = step[n + 1][h[n]]
      <3>1. n \in 0..n /\ n + 1 \in 0..(n + 1)
        OBVIOUS
      <3>2. h[n + 1] = step[n + 1][g[n]]
        BY <3>1
      <3>3. h[n] = g[n]
        BY <2>3, <3>1
      <3> QED BY <3>2, <3>3
    <2>5. h[0] = a
      BY <2>1, <2>3 DEF Follows
    <2> HIDE DEF h
    <2>6. \A i \in 0..n : h[i + 1] = step[i + 1][h[i]]
      <3> TAKE i \in 0..n
      <3>1. CASE i = n
        BY <2>4, <3>1
      <3>2. CASE i # n
        <4>1. i \in 0..(n - 1) /\ i + 1 \in 0..n
          BY <3>2
        <4>2. g[i + 1] = step[i + 1][g[i]]
          BY <2>1, <4>1 DEF Follows
        <4> QED BY <2>3, <4>1, <4>2
      <3> QED BY <3>1, <3>2
    <2>7. Follows(h, n + 1, a, step)
      <3>1. (n + 1) - 1 = n
        OBVIOUS
      <3> QED BY <2>5, <2>6, <3>1 DEF Follows
    <2> QED BY <2>2, <2>7
  <1>3. \A n \in Nat : n \in N
    <2> HIDE DEF N
    <2> QED BY <1>1, <1>2, Induction
  <1> DEFINE Pick(n) == CHOOSE g \in Prefix(n) : TRUE
             f == [n \in Nat |-> Pick(n)[n]]
  <1>4. \A n \in Nat : Pick(n) \in [0..n -> S] /\ Follows(Pick(n), n, a, step)
    BY <1>3
  <1> HIDE DEF Prefix, N, Pick
  <1>5. f \in [Nat -> S]
    BY <1>4
  <1>6. f[0] = a
    BY <1>4 DEF Follows
  <1>7. ASSUME NEW n \in Nat PROVE f[n + 1] = step[n + 1][f[n]]
    <2>1. Pick(n)[n] = Pick(n + 1)[n]
      <3>1. n + 1 \in Nat /\ n <= n + 1
        OBVIOUS
      <3>2. Follows(Pick(n), n, a, step) /\ Follows(Pick(n + 1), n + 1, a, step)
        BY <1>4, <3>1
      <3> QED BY <3>1, <3>2, FollowsAgree
    <2>2. n \in 0..((n + 1) - 1)
      OBVIOUS
    <2>3. Pick(n + 1)[n + 1] = step[n + 1][Pick(n + 1)[n]]
      BY <1>4, <2>2 DEF Follows
    <2> QED BY <2>1, <2>3
  <1> QED BY <1>5, <1>6, <1>7 DEF Recursive
=============================================================================
