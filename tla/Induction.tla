----------------------------- MODULE Induction -----------------------------
(***************************************************************************)
(* Induction and recursion on the natural numbers, stated with sets in the *)
(* place of predicates and functions in the place of operators, the form   *)
(* in which the provers can use them: to show P(n) for every n, show that  *)
(* {n \in Nat : P(n)} contains every n.                                    *)
(***************************************************************************)
EXTENDS Integers, WellFoundedInduction, TLAPS

\* A set of natural numbers that is not empty has a least element.
LEMMA Least ==
  ASSUME NEW T, T \subseteq Nat, T # {}
  PROVE  \E m \in T : \A k \in T : m <= k
<1> DEFINE R == {ss \in Nat \X Nat : ss[1] < ss[2]}
<1>1. IsWellFoundedOn(R, Nat)
  BY NatLessThanWellFounded DEF OpToRel
<1> HIDE DEF R
<1>2. PICK m \in T : \A k \in T : ~(<<k, m>> \in R)
  BY <1>1, WFMin, Zenon
<1>3. ASSUME NEW k \in T PROVE m <= k
  <2>1. m \in Nat /\ k \in Nat /\ <<k, m>> \notin R
    BY <1>2, <1>3
  <2>2. ~(k < m)
    BY <2>1 DEF R
  <2> QED
    BY <2>1, <2>2
<1> QED
  BY <1>3

\* What holds of 0 and passes from each number to the next holds of all.
LEMMA Induction ==
  ASSUME NEW T, 0 \in T, \A n \in Nat : n \in T => n + 1 \in T
  PROVE  \A n \in Nat : n \in T
<1> SUFFICES ASSUME NEW x \in Nat, x \notin T PROVE FALSE
  OBVIOUS
<1> DEFINE D == {n \in Nat : n \notin T}
<1>1. PICK m \in D : \A k \in D : m <= k
  <2>1. D \subseteq Nat /\ D # {}
    OBVIOUS
  <2> HIDE DEF D
  <2> QED
    BY <2>1, Least
<1>2. m \in Nat /\ m \notin T /\ m # 0
  BY <1>1
<1>3. m - 1 \in Nat /\ m - 1 + 1 = m /\ ~(m <= m - 1)
  BY <1>2
<1>4. m - 1 \in T
  BY <1>1, <1>3
<1> QED
  BY <1>2, <1>3, <1>4

\* What holds of a number when it holds of all the smaller ones holds of all.
LEMMA StrongInduction ==
  ASSUME NEW T, \A n \in Nat : (\A k \in Nat : k < n => k \in T) => n \in T
  PROVE  \A n \in Nat : n \in T
<1> SUFFICES ASSUME NEW x \in Nat, x \notin T PROVE FALSE
  OBVIOUS
<1> DEFINE D == {n \in Nat : n \notin T}
<1>1. PICK m \in D : \A k \in D : m <= k
  <2>1. D \subseteq Nat /\ D # {}
    OBVIOUS
  <2> HIDE DEF D
  <2> QED
    BY <2>1, Least
<1>2. m \in Nat /\ m \notin T
  BY <1>1
<1>3. ASSUME NEW k \in Nat, k < m PROVE k \in T
  BY <1>1, <1>2, <1>3
<1> QED
  BY <1>2, <1>3

\* f is what the definition f[n \in Nat] == IF n = 0 THEN base ELSE step[<<n, f[n - 1]>>]
\* means, and its values are in V.
Recurs(f, V, base, step) ==
  /\ f \in [Nat -> V]
  /\ f = [n \in Nat |-> IF n = 0 THEN base ELSE step[<<n, f[n - 1]>>]]

\* A function on the natural numbers that is defined by its first value and by a
\* step from each value to the next exists, and all its values are of the kind that
\* the steps keep to.
LEMMA RecursiveFunction ==
  ASSUME NEW V, NEW base \in V, NEW step \in [(Nat \ {0}) \X V -> V]
  PROVE  \E f : Recurs(f, V, base, step)
<1> DEFINE Grown(m, f) == /\ f \in [0..m -> V]
                          /\ f[0] = base
                          /\ \A n \in 1..m : f[n] = step[<<n, f[n - 1]>>]
           T == {m \in Nat : \E f : Grown(m, f)}
<1>1. 0 \in T
  <2> DEFINE f == [n \in 0..0 |-> base]
  <2>1. Grown(0, f)
    OBVIOUS
  <2> QED
    BY <2>1
<1>2. ASSUME NEW m \in Nat, m \in T PROVE m + 1 \in T
  <2>1. PICK f : Grown(m, f)
    BY <1>2
  <2> DEFINE g == [n \in 0..m + 1 |-> IF n <= m THEN f[n] ELSE step[<<m + 1, f[m]>>]]
  <2>2. f[m] \in V /\ step[<<m + 1, f[m]>>] \in V
    <3>1. f[m] \in V
      BY <2>1
    <3>2. <<m + 1, f[m]>> \in (Nat \ {0}) \X V
      BY <3>1
    <3> QED
      BY <3>1, <3>2
  <2>3. g \in [0..m + 1 -> V]
    BY <2>1, <2>2
  <2>4. \A n \in 0..m : g[n] = f[n]
    OBVIOUS
  <2>5. g[m + 1] = step[<<m + 1, f[m]>>]
    OBVIOUS
  <2> HIDE DEF g
  <2>6. ASSUME NEW n \in 1..m + 1 PROVE g[n] = step[<<n, g[n - 1]>>]
    <3>1. CASE n \in 1..m
      <4>1. n \in 0..m /\ n - 1 \in 0..m
        BY <3>1
      <4>2. g[n] = f[n] /\ g[n - 1] = f[n - 1] /\ f[n] = step[<<n, f[n - 1]>>]
        BY <2>1, <2>4, <3>1, <4>1
      <4> QED
        BY <4>2
    <3>2. CASE n = m + 1
      <4>1. n - 1 = m /\ m \in 0..m
        BY <3>2
      <4>2. g[n - 1] = f[m]
        BY <2>4, <4>1
      <4> QED
        BY <2>5, <3>2, <4>2
    <3> QED
      BY <2>6, <3>1, <3>2
  <2>7. Grown(m + 1, g)
    BY <2>1, <2>3, <2>4, <2>6
  <2> HIDE DEF Grown
  <2> QED
    BY <2>7
<1>3. \A m \in Nat : m \in T
  <2> HIDE DEF T
  <2> QED
    BY <1>1, <1>2, Induction
<1> DEFINE F(m) == CHOOSE f : Grown(m, f)
<1>4. \A m \in Nat : Grown(m, F(m))
  <2> HIDE DEF Grown
  <2> QED
    BY <1>3
<1> HIDE DEF F, T
\* two of them agree where both are defined
<1>5. ASSUME NEW k \in Nat, NEW l \in Nat PROVE \A n \in Nat : n <= k /\ n <= l => F(k)[n] = F(l)[n]
  <2> DEFINE S == {n \in Nat : n <= k /\ n <= l => F(k)[n] = F(l)[n]}
  <2>1. 0 \in S
    BY <1>4
  <2>2. ASSUME NEW n \in Nat, n \in S PROVE n + 1 \in S
    <3> SUFFICES ASSUME n + 1 <= k, n + 1 <= l PROVE F(k)[n + 1] = F(l)[n + 1]
      OBVIOUS
    <3>1. F(k)[n] = F(l)[n] /\ n + 1 \in 1..k /\ n + 1 \in 1..l /\ n + 1 - 1 = n
      BY <2>2
    <3>2. F(k)[n + 1] = step[<<n + 1, F(k)[n]>>] /\ F(l)[n + 1] = step[<<n + 1, F(l)[n]>>]
      BY <1>4, <3>1
    <3> QED
      BY <3>1, <3>2
  <2>3. \A n \in Nat : n \in S
    <3> HIDE DEF S
    <3> QED
      BY <2>1, <2>2, Induction
  <2> QED
    BY <2>3
<1> DEFINE h == [n \in Nat |-> F(n)[n]]
<1>6. h \in [Nat -> V]
  BY <1>4
<1>7. ASSUME NEW n \in Nat PROVE h[n] = IF n = 0 THEN base ELSE step[<<n, h[n - 1]>>]
  <2>1. CASE n = 0
    BY <1>4, <2>1
  <2>2. CASE n # 0
    <3>1. n \in 1..n /\ n - 1 \in Nat /\ n - 1 <= n /\ n - 1 <= n - 1
      BY <2>2
    <3>2. h[n] = step[<<n, F(n)[n - 1]>>]
      <4> HIDE DEF h
      <4>1. F(n)[n] = step[<<n, F(n)[n - 1]>>]
        BY <1>4, <3>1
      <4> QED
        BY <4>1 DEF h
    <3>3. F(n)[n - 1] = F(n - 1)[n - 1]
      BY <1>5, <3>1
    <3>4. h[n - 1] = F(n - 1)[n - 1]
      BY <3>1
    <3> HIDE DEF h
    <3> QED
      BY <2>2, <3>2, <3>3, <3>4
  <2> QED
    BY <2>1, <2>2
<1> HIDE DEF h
<1>8. h = [n \in Nat |-> IF n = 0 THEN base ELSE step[<<n, h[n - 1]>>]]
  BY <1>6, <1>7
<1> QED
  BY <1>6, <1>8 DEF Recurs

\* The same, for the numbers up to N.
LEMMA InductionUpTo ==
  ASSUME NEW N \in Nat, NEW T, 0 \in T, \A n \in 0..N - 1 : n \in T => n + 1 \in T
  PROVE  \A n \in 0..N : n \in T
<1> DEFINE U == {n \in Nat : n <= N => n \in T}
<1>1. 0 \in U
  OBVIOUS
<1>2. ASSUME NEW n \in Nat, n \in U PROVE n + 1 \in U
  BY <1>2
<1>3. \A n \in Nat : n \in U
  <2> HIDE DEF U
  <2> QED
    BY <1>1, <1>2, Induction
<1> QED
  BY <1>3

RecursUpTo(f, N, V, base, step) ==
  /\ f \in [0..N -> V]
  /\ f = [n \in 0..N |-> IF n = 0 THEN base ELSE step[<<n, f[n - 1]>>]]

LEMMA RecursionUpTo ==
  ASSUME NEW N \in Nat, NEW V, NEW base \in V, NEW step \in [(1..N) \X V -> V]
  PROVE  \E f : RecursUpTo(f, N, V, base, step)
<1> DEFINE more == [x \in (Nat \ {0}) \X V |-> IF x[1] <= N THEN step[x] ELSE x[2]]
<1>1. more \in [(Nat \ {0}) \X V -> V]
  <2> SUFFICES ASSUME NEW n \in Nat \ {0}, NEW v \in V
               PROVE  (IF n <= N THEN step[<<n, v>>] ELSE v) \in V
    OBVIOUS
  <2>1. n <= N => <<n, v>> \in (1..N) \X V
    OBVIOUS
  <2> QED
    BY <2>1
<1>2. \A n \in 1..N, v \in V : more[<<n, v>>] = step[<<n, v>>]
  OBVIOUS
<1> HIDE DEF more
<1>3. PICK f : Recurs(f, V, base, more)
  BY <1>1, RecursiveFunction
<1>4. f \in [Nat -> V] /\ \A n \in Nat : f[n] = IF n = 0 THEN base ELSE more[<<n, f[n - 1]>>]
  BY <1>3 DEF Recurs
<1> DEFINE g == [n \in 0..N |-> f[n]]
<1>5. g \in [0..N -> V] /\ \A n \in 0..N : g[n] = f[n]
  BY <1>4
<1> HIDE DEF g
<1>6. ASSUME NEW n \in 0..N PROVE g[n] = IF n = 0 THEN base ELSE step[<<n, g[n - 1]>>]
  <2>1. CASE n = 0
    BY <1>4, <1>5, <2>1
  <2>2. CASE n # 0
    <3>1. n \in 1..N /\ n - 1 \in 0..N /\ n - 1 \in Nat
      BY <2>2
    <3>2. g[n] = more[<<n, f[n - 1]>>] /\ g[n - 1] = f[n - 1] /\ f[n - 1] \in V
      BY <1>4, <1>5, <2>2, <3>1
    <3> QED
      BY <1>2, <2>2, <3>1, <3>2
  <2> QED
    BY <2>1, <2>2
<1>7. g = [n \in 0..N |-> IF n = 0 THEN base ELSE step[<<n, g[n - 1]>>]]
  BY <1>5, <1>6
<1> QED
  BY <1>5, <1>7 DEF RecursUpTo
=============================================================================
