------------------------ MODULE RetrySchedule_proofs ------------------------
(***************************************************************************)
(* The retry policy, for every base delay and cap that a duration of any   *)
(* width can double, and for every number of attempts.                     *)
(***************************************************************************)
EXTENDS RetrySchedule, NatRecursion

LEMMA Pow2Unfolds ==
    /\ Pow2[0] = 1
    /\ \A n \in Nat : Pow2[n] \in Nat \ {0} /\ Pow2[n + 1] = 2 * Pow2[n]
  <1> DEFINE step == [n \in Nat |-> [x \in Int |-> 2 * x]]
             Def(g) == g = [n \in Nat |-> IF n = 0 THEN 1 ELSE 2 * g[n - 1]]
  <1>1. PICK f \in [Nat -> Int] : Recursive(f, 1, step)
    <2>1. 1 \in Int /\ step \in Steps(Int)
      BY DEF Steps
    <2> HIDE DEF step
    <2> QED BY Zenon, <2>1, Recursion
  <1>2. \A n \in Nat : f[n + 1] = 2 * f[n]
    <2> TAKE n \in Nat
    <2>1. f[n] \in Int /\ n + 1 \in Nat
      OBVIOUS
    <2>2. step[n + 1][f[n]] = 2 * f[n]
      BY <2>1
    <2> HIDE DEF step
    <2> QED BY <1>1, <2>2 DEF Recursive
  <1>3. Def(f)
    <2>1. \A n \in Nat : f[n] = IF n = 0 THEN 1 ELSE 2 * f[n - 1]
      <3> TAKE n \in Nat
      <3>1. CASE n = 0
        BY <1>1, <3>1 DEF Recursive
      <3>2. CASE n # 0
        <4>1. n - 1 \in Nat /\ (n - 1) + 1 = n
          BY <3>2
        <4>2. f[(n - 1) + 1] = 2 * f[n - 1]
          BY <1>2, <4>1
        <4> QED BY <3>2, <4>1, <4>2
      <3> QED BY <3>1, <3>2
    <2> QED BY <1>1, <2>1
  <1>4. Pow2 = CHOOSE g : Def(g)
    BY DEF Pow2
  <1>5. Def(Pow2)
    <2> HIDE DEF Def
    <2> QED BY <1>3, <1>4
  <1>6. Pow2[0] = 1 /\ \A n \in Nat : Pow2[n + 1] = 2 * Pow2[n]
    <2>1. \A n \in Nat : Pow2[n] = IF n = 0 THEN 1 ELSE 2 * Pow2[n - 1]
      BY <1>5
    <2>2. \A n \in Nat : n + 1 \in Nat /\ n + 1 # 0 /\ (n + 1) - 1 = n
      OBVIOUS
    <2> QED BY <2>1, <2>2
  <1> DEFINE N == {n \in Nat : Pow2[n] \in Nat \ {0}}
  <1>7. \A n \in Nat : n \in N
    <2>1. 0 \in N
      BY <1>6
    <2>2. \A n \in Nat : n \in N => n + 1 \in N
      BY <1>6
    <2> HIDE DEF N
    <2> QED BY <2>1, <2>2, Induction
  <1> QED BY <1>6, <1>7

LEMMA HalfPositive == Half \in Nat \ {0}
  <1>1. DurationBits - 1 \in Nat
    BY DurationAssumption
  <1> QED BY <1>1, Pow2Unfolds DEF Half

\* A number that a duration can hold is not changed.
LEMMA WrapKeeps ==
    ASSUME NEW d \in Int
    PROVE  /\ WrapDuration(d) \in Int
           /\ d >= 0 /\ d < Half => WrapDuration(d) = d
  <1>1. PICK h \in Nat \ {0} : h = Half
    BY HalfPositive
  <1>2. ((d + h) % (2 * h)) - h \in Int
    OBVIOUS
  <1>3. d >= 0 /\ d < h => ((d + h) % (2 * h)) - h = d
    OBVIOUS
  <1> QED BY <1>1, <1>2, <1>3 DEF WrapDuration

LEMMA DoubledUnfolds ==
    ASSUME NEW base \in Int
    PROVE  /\ Doubled(base)[0] = base
           /\ \A n \in Nat : /\ Doubled(base)[n] \in Int
                             /\ Doubled(base)[n + 1] = WrapDuration(2 * Doubled(base)[n])
  <1> DEFINE step == [n \in Nat |-> [x \in Int |-> WrapDuration(2 * x)]]
             Def(g) == g = [n \in Nat |-> IF n = 0 THEN base ELSE WrapDuration(2 * g[n - 1])]
  <1>0. \A x \in Int : WrapDuration(2 * x) \in Int
    BY WrapKeeps
  <1>1. PICK f \in [Nat -> Int] : Recursive(f, base, step)
    <2>1. step \in Steps(Int)
      BY <1>0 DEF Steps
    <2> HIDE DEF step
    <2> QED BY Zenon, <2>1, Recursion
  <1>2. \A n \in Nat : f[n + 1] = WrapDuration(2 * f[n])
    <2> TAKE n \in Nat
    <2>1. f[n] \in Int /\ n + 1 \in Nat
      OBVIOUS
    <2>2. step[n + 1][f[n]] = WrapDuration(2 * f[n])
      BY <2>1
    <2> HIDE DEF step
    <2> QED BY <1>1, <2>2 DEF Recursive
  <1>3. Def(f)
    <2>1. \A n \in Nat : f[n] = IF n = 0 THEN base ELSE WrapDuration(2 * f[n - 1])
      <3> TAKE n \in Nat
      <3>1. CASE n = 0
        BY <1>1, <3>1 DEF Recursive
      <3>2. CASE n # 0
        <4>1. n - 1 \in Nat /\ (n - 1) + 1 = n
          BY <3>2
        <4>2. f[(n - 1) + 1] = WrapDuration(2 * f[n - 1])
          BY <1>2, <4>1
        <4> QED BY <3>2, <4>1, <4>2
      <3> QED BY <3>1, <3>2
    <2> QED BY <1>1, <2>1
  <1> DEFINE D == Doubled(base)
  <1>4. D = CHOOSE g : Def(g)
    BY DEF Doubled
  <1> HIDE DEF D
  <1>5. Def(D)
    <2> HIDE DEF Def
    <2> QED BY <1>3, <1>4
  <1>6. D[0] = base /\ \A n \in Nat : D[n + 1] = WrapDuration(2 * D[n])
    <2>1. \A n \in Nat : D[n] = IF n = 0 THEN base ELSE WrapDuration(2 * D[n - 1])
      BY <1>5
    <2>2. \A n \in Nat : n + 1 \in Nat /\ n + 1 # 0 /\ (n + 1) - 1 = n
      OBVIOUS
    <2> QED BY <2>1, <2>2
  <1> DEFINE N == {n \in Nat : D[n] \in Int}
  <1>7. \A n \in Nat : n \in N
    <2>1. 0 \in N
      BY <1>6
    <2>2. \A n \in Nat : n \in N => n + 1 \in N
      BY <1>0, <1>6
    <2> HIDE DEF N
    <2> QED BY <2>1, <2>2, Induction
  <1> QED BY <1>6, <1>7 DEF D

-----------------------------------------------------------------------------
(***************************************************************************)
(* The delay of a policy.                                                  *)
(***************************************************************************)

\* base * 2^i: doubled each time, and growing.
LEMMA ExactGrows ==
    ASSUME NEW base \in Nat \ {0}
    PROVE  /\ base * Pow2[0] = base
           /\ \A i \in Nat : /\ base * Pow2[i] \in Nat \ {0}
                             /\ base * Pow2[i + 1] = 2 * (base * Pow2[i])
           /\ \A i, j \in Nat : i <= j => base * Pow2[i] <= base * Pow2[j]
  <1> DEFINE e(i) == base * Pow2[i]
  <1>1. e(0) = base
    BY Pow2Unfolds
  <1>2. ASSUME NEW i \in Nat
        PROVE  e(i) \in Nat \ {0} /\ e(i + 1) = 2 * e(i)
    <2>1. PICK x \in Nat \ {0} : x = Pow2[i] /\ Pow2[i + 1] = 2 * x
      BY Pow2Unfolds
    <2>2. base * x \in Nat \ {0} /\ base * (2 * x) = 2 * (base * x)
      OBVIOUS
    <2> QED BY <2>1, <2>2
  <1> HIDE DEF e
  <1>3. ASSUME NEW i \in Nat
        PROVE  \A j \in Nat : i <= j => e(i) <= e(j)
    <2> DEFINE N == {j \in Nat : i <= j => e(i) <= e(j)}
    <2>1. 0 \in N
      BY <1>2
    <2>2. ASSUME NEW j \in Nat, j \in N PROVE j + 1 \in N
      <3>1. e(i) \in Nat /\ e(j) \in Nat /\ e(j + 1) = 2 * e(j)
        BY <1>2
      <3>2. i <= j + 1 => i <= j \/ i = j + 1
        OBVIOUS
      <3> QED BY <2>2, <3>1, <3>2
    <2>3. \A j \in Nat : j \in N
      <3> HIDE DEF N
      <3> QED BY <2>1, <2>2, Induction
    <2> QED BY <2>3
  <1> QED BY <1>1, <1>2, <1>3 DEF e

\* Until the cap is reached, no doubling overflows.
LEMMA DoubledExactly ==
    ASSUME NEW base \in Nat \ {0}, NEW cap \in Nat, 2 * cap <= Half,
           NEW n \in Nat, \A j \in 0..(n - 1) : base * Pow2[j] < cap
    PROVE  Doubled(base)[n] = base * Pow2[n]
  <1> DEFINE e(i) == base * Pow2[i]
             D == Doubled(base)
             N == {i \in Nat : i <= n => D[i] = e(i)}
  <1>1. e(0) = base /\ \A i \in Nat : e(i) \in Nat /\ e(i + 1) = 2 * e(i)
    BY ExactGrows
  <1>2. D[0] = base /\ \A i \in Nat : D[i + 1] = WrapDuration(2 * D[i])
    BY DoubledUnfolds
  <1>3. \A j \in 0..(n - 1) : e(j) < cap
    OBVIOUS
  <1> HIDE DEF e, D
  <1>4. 0 \in N
    BY <1>1, <1>2
  <1>5. ASSUME NEW i \in Nat, i \in N PROVE i + 1 \in N
    <2> SUFFICES ASSUME i + 1 <= n PROVE D[i + 1] = e(i + 1)
      OBVIOUS
    <2>1. i \in 0..(n - 1) /\ i <= n
      OBVIOUS
    <2>2. D[i] = e(i) /\ e(i) < cap /\ e(i) \in Nat
      BY <1>1, <1>3, <1>5, <2>1
    <2>3. 2 * e(i) \in Int /\ 2 * e(i) >= 0 /\ 2 * e(i) < Half
      BY <2>2, HalfPositive
    <2>4. WrapDuration(2 * e(i)) = 2 * e(i)
      BY <2>3, WrapKeeps
    <2> QED BY <1>1, <1>2, <2>2, <2>4
  <1>6. n \in N
    <2> HIDE DEF N
    <2> QED BY <1>4, <1>5, Induction
  <1> QED BY <1>6 DEF e, D

\* The loop returns the capped exponential.
LEMMA DelayExact ==
    ASSUME NEW p \in Policies, NEW n \in Nat \ {0}
    PROVE  delay(p, n) = CappedExponential(p, n)
  <1> DEFINE base == WithDefaults(p).BaseDelay
             cap  == WithDefaults(p).MaxDelay
             D    == Doubled(base)
             e(i) == base * Pow2[i]
             k    == n - 1
  <1>0. k \in Nat
    OBVIOUS
  <1>1. /\ base \in Nat \ {0} /\ cap \in Nat \ {0}
        /\ base <= cap /\ 2 * base < Half /\ 2 * cap <= Half
    <2>1. p.BaseDelay \in Int /\ p.MaxDelay \in Int
      BY ScheduleAssumption
    <2>2. base \in Nat \ {0} /\ cap \in Nat \ {0}
      BY <2>1 DEF WithDefaults
    <2> QED BY <2>2, ScheduleAssumption
  <1>2. delay(p, n) = IF \E i \in 1..k : D[i] >= cap THEN cap ELSE D[k]
    BY DEF delay
  <1>3. CappedExponential(p, n) = IF e(k) < cap THEN e(k) ELSE cap
    BY DEF CappedExponential
  <1> HIDE DEF base, cap
  <1>4. /\ e(0) = base
        /\ \A i \in Nat : e(i) \in Nat /\ e(i + 1) = 2 * e(i)
        /\ \A i, j \in Nat : i <= j => e(i) <= e(j)
    BY <1>1, ExactGrows
  <1>5. \A m \in Nat : (\A j \in 0..(m - 1) : e(j) < cap) => D[m] = e(m)
    BY <1>1, DoubledExactly
  <1>6. D[0] = base /\ D[1] = WrapDuration(2 * base)
    <2>1. D[0] = base /\ D[0 + 1] = WrapDuration(2 * D[0])
      BY <1>1, DoubledUnfolds
    <2> QED BY <2>1
  <1> HIDE DEF D, e, k
  <1>7. CASE \A j \in 0..(k - 1) : e(j) < cap
    <2>1. \A i \in 0..k : D[i] = e(i)
      <3> TAKE i \in 0..k
      <3>1. i \in Nat /\ \A j \in 0..(i - 1) : j \in 0..(k - 1)
        BY <1>0
      <3> QED BY <1>5, <1>7, <3>1
    <2>2. CASE k = 0
      <3>1. ~\E i \in 1..k : D[i] >= cap
        <4>1. 1..0 = {}
          OBVIOUS
        <4> QED BY <2>2, <4>1
      <3>2. D[k] = base /\ e(k) = base
        BY <1>4, <1>6, <2>2
      <3>3. delay(p, n) = base
        BY <1>2, <3>1, <3>2
      <3>4. CappedExponential(p, n) = base
        BY <1>1, <1>3, <3>2
      <3> QED BY <3>3, <3>4
    <2>3. CASE k # 0
      <3>1. k \in 0..k /\ k \in 1..k
        BY <1>0, <2>3
      <3>2. D[k] = e(k) /\ e(k) \in Nat
        BY <1>0, <1>4, <2>1, <3>1
      <3>3. CASE e(k) < cap
        <4>1. \A i \in 1..k : ~(D[i] >= cap)
          <5> TAKE i \in 1..k
          <5>1. i \in 0..k /\ i \in Nat /\ i <= k
            BY <1>0
          <5>2. D[i] = e(i) /\ e(i) \in Nat /\ e(i) <= e(k)
            BY <1>0, <1>4, <2>1, <5>1
          <5> QED BY <1>1, <3>2, <3>3, <5>2
        <4> QED BY <1>2, <1>3, <3>2, <3>3, <4>1
      <3>4. CASE ~(e(k) < cap)
        <4>1. D[k] >= cap
          BY <1>1, <3>2, <3>4
        <4> QED BY <1>2, <1>3, <3>1, <3>4, <4>1
      <3> QED BY <3>3, <3>4
    <2> QED BY <2>2, <2>3
  <1>8. CASE ~\A j \in 0..(k - 1) : e(j) < cap
    <2> DEFINE T == {j \in 0..(k - 1) : ~(e(j) < cap)}
    <2>1. T \subseteq Nat /\ T # {}
      BY <1>0, <1>8
    <2>2. PICK j \in T : \A i \in T : j <= i
      <3> HIDE DEF T
      <3> QED BY <2>1, LeastNatural
    <2>3. j \in 0..(k - 1) /\ j \in Nat /\ j <= k /\ ~(e(j) < cap)
      BY <1>0, <2>2
    <2>4. ~(e(k) < cap)
      <3>1. e(j) \in Nat /\ e(k) \in Nat /\ e(j) <= e(k)
        BY <1>0, <1>4, <2>3
      <3> QED BY <1>1, <2>3, <3>1
    <2>5. \A i \in 0..(j - 1) : e(i) < cap
      <3> TAKE i \in 0..(j - 1)
      <3>1. i \in 0..(k - 1) /\ ~(j <= i)
        BY <1>0, <2>3
      <3> QED BY <2>2, <3>1
    <2>6. D[j] = e(j)
      BY <1>5, <2>3, <2>5
    <2>7. \E i \in 1..k : D[i] >= cap
      <3>1. CASE j = 0
        <4>1. WrapDuration(2 * base) = 2 * base
          BY <1>1, WrapKeeps, HalfPositive
        <4>2. base = cap
          BY <1>1, <1>4, <2>3, <3>1
        <4>3. 1 \in 1..k /\ D[1] >= cap
          BY <1>0, <1>1, <1>6, <2>3, <4>1, <4>2
        <4> QED BY <4>3
      <3>2. CASE j # 0
        <4>1. j \in 1..k /\ e(j) \in Nat
          BY <1>0, <1>4, <2>3, <3>2
        <4>2. D[j] >= cap
          BY <1>1, <2>3, <2>6, <4>1
        <4> QED BY <4>1, <4>2
      <3> QED BY <3>1, <3>2
    <2> QED BY <1>2, <1>3, <2>4, <2>7
  <1> QED BY <1>7, <1>8

\* The capped exponential is positive and does not shrink.
LEMMA CappedGrows ==
    ASSUME NEW p \in Policies, NEW n \in Nat \ {0}
    PROVE  /\ CappedExponential(p, n) \in Nat \ {0}
           /\ CappedExponential(p, n) <= CappedExponential(p, n + 1)
  <1> DEFINE base == WithDefaults(p).BaseDelay
             cap  == WithDefaults(p).MaxDelay
             e(i) == base * Pow2[i]
  <1>1. base \in Nat \ {0} /\ cap \in Nat \ {0}
    <2>1. p.BaseDelay \in Int /\ p.MaxDelay \in Int
      BY ScheduleAssumption
    <2> QED BY <2>1 DEF WithDefaults
  <1>2. /\ CappedExponential(p, n) = IF e(n - 1) < cap THEN e(n - 1) ELSE cap
        /\ CappedExponential(p, n + 1) = IF e(n) < cap THEN e(n) ELSE cap
    <2>1. (n + 1) - 1 = n
      OBVIOUS
    <2> QED BY <2>1 DEF CappedExponential
  <1> HIDE DEF base, cap
  <1>3. /\ \A i \in Nat : e(i) \in Nat \ {0}
        /\ \A i, j \in Nat : i <= j => e(i) <= e(j)
    BY <1>1, ExactGrows
  <1> HIDE DEF e
  <1>4. n - 1 \in Nat /\ n \in Nat /\ n - 1 <= n
    OBVIOUS
  <1>5. e(n - 1) \in Nat \ {0} /\ e(n) \in Nat \ {0} /\ e(n - 1) <= e(n)
    BY <1>3, <1>4
  <1> QED BY <1>1, <1>2, <1>5

-----------------------------------------------------------------------------
(***************************************************************************)
(* The schedule of one notification.  The delay before attempt n is the    *)
(* capped exponential of n - 1, which makes the next delay comparable to   *)
(* the one before.                                                         *)
(***************************************************************************)

Waited(p, n) == IF n = 1 THEN 0 ELSE CappedExponential(p, n - 1)

ScheduleInv ==
    /\ policy \in Policies
    /\ max \in MaxAttempts
    /\ result \in Results
    /\ number \in Nat \ {0}
    /\ number <= max
    /\ waited = Waited(policy, number)

LEMMA DecisionFields ==
    /\ Decision.Retry = (/\ ~(number >= max)
                         /\ result.Err \/ isRetryableStatus(result.StatusCode))
    /\ Decision.Terminal = (\/ number >= max
                            \/ /\ ~(result.Err \/ isRetryableStatus(result.StatusCode))
                               /\ ~Is2xx(result.StatusCode))
    /\ Decision.Retry => Decision.Delay = delay(policy, number)
  BY DEF Decision, Decide

\* A step to the next attempt: one more, still within the limit, and after
\* the capped exponential of the attempt that failed.
LEMMA NextAttemptWaits ==
    ASSUME ScheduleInv, NextAttempt
    PROVE  /\ number' = number + 1 /\ number' <= max
           /\ waited' = CappedExponential(policy, number)
  <1>1. number \in Nat \ {0} /\ max \in Nat \ {0} /\ policy \in Policies
    BY ScheduleAssumption DEF ScheduleInv
  <1>2. Decision.Retry /\ number' = number + 1 /\ waited' = Decision.Delay
    BY DEF NextAttempt
  <1>3. ~(number >= max)
    BY <1>2, DecisionFields
  <1>4. waited' = CappedExponential(policy, number)
    BY <1>1, <1>2, DecisionFields, DelayExact
  <1> QED BY <1>1, <1>2, <1>3, <1>4

LEMMA ScheduleInvInit == Init => ScheduleInv
  <1> SUFFICES ASSUME Init PROVE ScheduleInv
    OBVIOUS
  <1>1. max \in Nat \ {0} /\ number = 1
    BY ScheduleAssumption DEF Init
  <1> QED BY <1>1 DEF Init, ScheduleInv, Waited

LEMMA ScheduleInvNext ==
    ScheduleInv /\ [Next]_vars => ScheduleInv'
  <1> SUFFICES ASSUME ScheduleInv, [Next]_vars PROVE ScheduleInv'
    OBVIOUS
  <1>1. CASE NextAttempt
    <2>1. number' = number + 1 /\ number' <= max /\ waited' = CappedExponential(policy, number)
      BY <1>1, NextAttemptWaits
    <2>2. policy' = policy /\ max' = max /\ result' \in Results
      BY <1>1 DEF NextAttempt
    <2>3. number \in Nat \ {0} /\ policy \in Policies /\ max \in MaxAttempts
      BY DEF ScheduleInv
    <2>4. number' \in Nat \ {0} /\ number' # 1 /\ number' - 1 = number
      BY <2>1, <2>3
    <2>5. Waited(policy, number)' = CappedExponential(policy, number)
      BY <2>2, <2>4 DEF Waited
    <2> QED BY <2>1, <2>2, <2>3, <2>4, <2>5 DEF ScheduleInv
  <1>2. CASE UNCHANGED vars
    BY <1>2 DEF vars, ScheduleInv, Waited
  <1> QED BY <1>1, <1>2 DEF Next

THEOREM ScheduleInvariant == Spec => []ScheduleInv
  <1> QED BY ScheduleInvInit, ScheduleInvNext, PTL DEF Spec

\* For every policy whose delays can be doubled without overflow, the loop
\* of retry.go's delay returns base * 2^(n-1) capped at the maximum, however
\* many attempts are made: the cap is applied before a doubling can wrap.
THEOREM DelayCapped == Spec => []DelayIsCappedExponential
  <1>1. ScheduleInv => DelayIsCappedExponential
    <2> SUFFICES ASSUME ScheduleInv, Decision.Retry
                 PROVE  Decision.Delay = CappedExponential(policy, number)
      BY DEF DelayIsCappedExponential
    <2>1. number \in Nat \ {0} /\ policy \in Policies
      BY DEF ScheduleInv
    <2> QED BY <2>1, DecisionFields, DelayExact
  <1> QED BY <1>1, ScheduleInvariant, PTL

\* Every failed attempt is retried or terminal and never both: terminal when
\* the limit is reached, or the answer is one Decide does not retry.
THEOREM EveryFailureDecided == Spec => []FailureDecided
  <1>1. ScheduleInv => FailureDecided
    <2> SUFFICES ASSUME ScheduleInv, ~Succeeded
                 PROVE  /\ Decision.Retry # Decision.Terminal
                        /\ Decision.Terminal <=>
                               \/ number = max
                               \/ ~result.Err /\ ~( \/ result.StatusCode \in 500..599
                                                    \/ result.StatusCode \in {408, 409, 425, 429} )
      BY DEF FailureDecided
    <2> DEFINE worth == \/ result.StatusCode \in 500..599
                        \/ result.StatusCode \in {408, 409, 425, 429}
    <2>1. number \in Nat /\ max \in Nat /\ number <= max /\ result.Err \in BOOLEAN
      BY ScheduleAssumption DEF ScheduleInv
    <2>2. number >= max <=> number = max
      BY <2>1
    <2>3. isRetryableStatus(result.StatusCode) <=> worth
      BY DEF isRetryableStatus
    <2>4. result.Err \/ ~Is2xx(result.StatusCode)
      BY DEF Succeeded
    <2> HIDE DEF worth
    <2>5. Decision.Retry = (~(number = max) /\ (result.Err \/ worth))
      BY Zenon, <2>2, <2>3, DecisionFields
    <2>6. Decision.Terminal = (number = max \/ (~(result.Err \/ worth) /\ ~Is2xx(result.StatusCode)))
      BY Zenon, <2>2, <2>3, DecisionFields
    <2>7. Decision.Terminal <=> (number = max \/ (~result.Err /\ ~worth))
      BY Zenon, <2>4, <2>6
    <2>8. Decision.Retry # Decision.Terminal
      BY Zenon, <2>4, <2>5, <2>6
    <2> QED BY <2>7, <2>8 DEF worth
  <1> QED BY <1>1, ScheduleInvariant, PTL

\* No attempt comes sooner after its predecessor than that one did, and
\* Process never makes more than max_attempts of them.
THEOREM BackoffNeverShrinks == Spec => BackoffGrows
  <1>1. ScheduleInv /\ [Next]_vars
            => [waited' >= waited /\ waited' > 0 /\ number' <= max]_vars
    <2> SUFFICES ASSUME ScheduleInv, NextAttempt
                 PROVE  waited' >= waited /\ waited' > 0 /\ number' <= max
      BY DEF Next
    <2>1. number' <= max /\ waited' = CappedExponential(policy, number)
      BY NextAttemptWaits
    <2>2. number \in Nat \ {0} /\ policy \in Policies /\ waited = Waited(policy, number)
      BY DEF ScheduleInv
    <2>3. CappedExponential(policy, number) \in Nat \ {0}
      BY <2>2, CappedGrows
    <2>4. CASE number = 1
      BY <2>1, <2>2, <2>3, <2>4 DEF Waited
    <2>5. CASE number # 1
      <3>1. number - 1 \in Nat \ {0} /\ (number - 1) + 1 = number
        BY <2>2, <2>5
      <3>2. /\ waited \in Nat
            /\ waited <= CappedExponential(policy, number)
        BY <2>2, <2>5, <3>1, CappedGrows DEF Waited
      <3> QED BY <2>1, <2>3, <3>2
    <2> QED BY <2>4, <2>5
  <1> QED BY <1>1, ScheduleInvariant, PTL DEF Spec, BackoffGrows
=============================================================================
