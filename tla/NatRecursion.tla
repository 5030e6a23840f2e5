---------------------------- MODULE NatRecursion ----------------------------
(***************************************************************************)
(* Induction on the natural numbers, and functions defined by recursion on *)
(* them, stated with sets: what the proofs about the models' recursive      *)
(* functions rest on.                                                      *)
(***************************************************************************)
EXTENDS Integers, WellFoundedInduction, TLAPS

Less == {ss \in Nat \X Nat : ss[1] < ss[2]}

LEMMA LessIsWellFounded == IsWellFoundedOn(Less, Nat)
  BY NatLessThanWellFounded DEF OpToRel, Less

LEMMA LeastElement ==
  ASSUME NEW T, T \subseteq Nat, T # {}
  PROVE  \E n \in T : \A m \in T : n <= m
  <1>1. PICK n \in T : \A m \in T : <<m, n>> \notin Less
    BY LessIsWellFounded, WFMin
  <1>2. ASSUME NEW m \in T
        PROVE  n <= m
    <2>1. m \in Nat /\ n \in Nat /\ <<m, n>> \notin Less
      BY <1>1
    <2>2. <<m, n>> \in Nat \X Nat => ~(m < n)
      BY <2>1 DEF Less
    <2>3. QED
      BY <2>1, <2>2
  <1>3. QED
    BY <1>2

\* A set that holds 0, and the successor of each of its elements below n, holds
\* every number up to n.
LEMMA SetInduction ==
  ASSUME NEW n \in Nat, NEW T, 0 \in T,
         \A m \in 0..(n - 1) : m \in T => m + 1 \in T
  PROVE  \A m \in 0..n : m \in T
  <1> SUFFICES ASSUME (0..n) \ T # {}
               PROVE  FALSE
    OBVIOUS
  <1>1. PICK m \in (0..n) \ T : \A i \in (0..n) \ T : m <= i
    <2>1. (0..n) \ T \subseteq Nat
      OBVIOUS
    <2>2. QED
      BY <2>1, LeastElement
  <1>2. m # 0 /\ m - 1 \in 0..(n - 1) /\ ~(m <= m - 1) /\ (m - 1) + 1 = m
    BY <1>1
  <1>3. m - 1 \in 0..n
    BY <1>2
  <1>4. m - 1 \in T
    BY <1>1, <1>2, <1>3
  <1>5. QED
    BY <1>2, <1>4

\* f starts with a, and each of its values is a step from the one before.
Steps(f, a, step, n) ==
  f = [i \in 0..n |-> IF i = 0 THEN a ELSE step[i][f[i - 1]]]

\* A recursion over 0..n whose steps stay in a set has a solution.
LEMMA Recursion ==
  ASSUME NEW V, NEW a \in V, NEW n \in Nat, NEW step \in [1..n -> [V -> V]]
  PROVE  \E f \in [0..n -> V] : Steps(f, a, step, n)
  <1> DEFINE T == {m \in Nat : \E f \in [0..m -> V] : Steps(f, a, step, m)}
  <1>1. 0 \in T
    <2> DEFINE f == [i \in 0..0 |-> a]
    <2>1. f \in [0..0 -> V] /\ Steps(f, a, step, 0)
      BY DEF Steps
    <2>2. QED
      BY <2>1
  <1>2. ASSUME NEW m \in 0..(n - 1), m \in T
        PROVE  m + 1 \in T
    <2>1. PICK f \in [0..m -> V] : Steps(f, a, step, m)
      BY <1>2
    <2> DEFINE g == [i \in 0..(m + 1) |->
                       IF i = m + 1 THEN step[m + 1][f[m]] ELSE f[i]]
    <2>2. m + 1 \in 1..n /\ f[m] \in V /\ step[m + 1][f[m]] \in V
      BY <2>1
    <2>3. g \in [0..(m + 1) -> V]
      BY <2>2
    <2>4. ASSUME NEW i \in 0..(m + 1)
          PROVE  g[i] = IF i = 0 THEN a ELSE step[i][g[i - 1]]
      <3>1. CASE i = m + 1
        <4>1. i # 0 /\ i - 1 = m /\ m \in 0..(m + 1) /\ m # m + 1
          BY <3>1
        <4>2. g[m] = f[m]
          BY <4>1
        <4>3. QED
          BY <3>1, <4>1, <4>2
      <3>2. CASE i # m + 1 /\ i # 0
        <4>1. i \in 0..m /\ i - 1 \in 0..(m + 1) /\ i - 1 # m + 1
          BY <3>2
        <4>2. g[i] = f[i] /\ g[i - 1] = f[i - 1]
          BY <3>2, <4>1
        <4>3. f[i] = step[i][f[i - 1]]
          BY <2>1, <3>2, <4>1 DEF Steps
        <4>4. QED
          BY <3>2, <4>2, <4>3
      <3>3. CASE i = 0
        <4>1. i # m + 1 /\ 0 \in 0..m
          BY <3>3
        <4>2. QED
          BY <2>1, <3>3, <4>1 DEF Steps
      <3>4. QED
        BY <3>1, <3>2, <3>3
    <2>5. Steps(g, a, step, m + 1)
      BY <2>4 DEF Steps
    <2>6. m + 1 \in Nat
      OBVIOUS
    <2>7. QED
      BY <2>3, <2>5, <2>6
  <1> HIDE DEF T
  <1>3. n \in T
    <2>1. \A m \in 0..n : m \in T
      BY <1>1, <1>2, SetInduction
    <2>2. QED
      BY <2>1
  <1>4. QED
    BY <1>3 DEF T

=============================================================================
