---------------------------- MODULE GrammarProofs ----------------------------
(***************************************************************************)
(* Proofs about Grammar::LoadBuffer and Grammar::SetSingleLexemeSymbol,    *)
(* for every file and every DFA.                                           *)
(*   - A name's bytes are decoded to the units it was made of.             *)
(*   - A row is what the file says of it: a record writes a row no other   *)
(*     has, and of v it reads only the entries it has just written.        *)
(*   - When the search has ended, the count of a state is 0 if no walk     *)
(*     along the edges leads there from the initial state, 1 if one does,  *)
(*     and 2 if there are several.  The argument goes by the edges that    *)
(*     have been followed: a state counted once is reached by one of them  *)
(*     at most, and the others begin in states that still wait.            *)
(*   - An ID is found again: two texts of IDs have the same first ID,      *)
(*     since none stands before a space at the beginning of another.       *)
(***************************************************************************)
EXTENDS LexemeCount, Induction, SequenceTheorems, FiniteSetTheorems

\* what the search needs of the tables
TargetsThere == /\ DfaInit \in DfaStates
                /\ \A s \in DfaStates : Targets(s) \in Seq(DfaStates)
-----------------------------------------------------------------------------
(* Names: what convert_utf16_to_utf8_string makes of 16-bit units.          *)

Bytes == 0..255

LEMMA UnitRange == \A c \in Units : c \in Int /\ c \in Nat /\ c <= 65535
  BY SMTT(40) DEF Units

LEMMA UnitBytes ==
  ASSUME NEW c \in Units
  PROVE  /\ Utf8Bytes(c) \in Seq(Bytes) /\ Len(Utf8Bytes(c)) = Utf8Length(c)
         /\ Utf8Length(c) \in 1..3
         /\ c < 128 => Utf8Bytes(c) = <<c>>
         /\ c >= 128 /\ c < 2048 => Utf8Bytes(c) = <<192 + (c \div 64), 128 + (c % 64)>>
         /\ c >= 2048 => Utf8Bytes(c) = <<224 + (c \div 4096), 128 + ((c \div 64) % 64), 128 + (c % 64)>>
<1>1. c \in Nat /\ c <= 65535
  BY UnitRange
<1>2. CASE c < 128
  BY <1>1, <1>2 DEF Utf8Bytes, Utf8Length, Bytes
<1>3. CASE c >= 128 /\ c < 2048
  <2> DEFINE a == 192 + (c \div 64)
             b == 128 + (c % 64)
  <2>1. Utf8Bytes(c) = <<a, b>> /\ Utf8Length(c) = 2
    BY <1>1, <1>3 DEF Utf8Bytes, Utf8Length
  <2>2. c \div 64 \in 0..31
    BY <1>1, <1>3
  <2>3. c % 64 \in 0..63
    BY <1>1, <1>3
  <2>4. a \in Bytes /\ b \in Bytes
    BY <2>2, <2>3 DEF Bytes
  <2> HIDE DEF a, b
  <2>5. <<a, b>> \in Seq(Bytes) /\ Len(<<a, b>>) = 2
    BY <2>4
  <2> QED
    BY <1>1, <1>3, <2>1, <2>5 DEF a, b
<1>4. CASE c >= 2048
  <2> DEFINE a == 224 + (c \div 4096)
             b == 128 + ((c \div 64) % 64)
             d == 128 + (c % 64)
  <2>1. Utf8Bytes(c) = <<a, b, d>> /\ Utf8Length(c) = 3
    BY <1>1, <1>4 DEF Utf8Bytes, Utf8Length
  <2>2. c \div 4096 \in 0..15
    BY <1>1, <1>4
  <2>3. c % 64 \in 0..63 /\ (c \div 64) % 64 \in 0..63
    BY <1>1, <1>4
  <2>4. a \in Bytes /\ b \in Bytes /\ d \in Bytes
    BY <2>2, <2>3 DEF Bytes
  <2> HIDE DEF a, b, d
  <2>5. <<a, b, d>> \in Seq(Bytes) /\ Len(<<a, b, d>>) = 3
    BY <2>4
  <2> QED
    BY <1>1, <1>4, <2>1, <2>5 DEF a, b, d
<1> QED
  BY <1>1, <1>2, <1>3, <1>4

\* the recursive functions are what their equations say
LEMMA ReservedIs ==
  ASSUME NEW u \in Seq(Units)
  PROVE  /\ ReservedBytes(u) \in [0..Len(u) -> Nat]
         /\ ReservedBytes(u)[0] = 0
         /\ \A n \in 1..Len(u) : ReservedBytes(u)[n] = ReservedBytes(u)[n - 1] + Utf8Length(u[n])
<1> DEFINE N == Len(u)
           Turn(n, m) == m + Utf8Length(u[n])
           step == [x \in (1..N) \X Nat |-> Turn(x[1], x[2])]
           Is(g) == g = [n \in 0..N |-> IF n = 0 THEN 0 ELSE Turn(n, g[n - 1])]
           g0 == CHOOSE g : Is(g)
<1>1. N \in Nat /\ \A n \in 1..N : \A m \in Nat : Turn(n, m) \in Nat
  BY UnitBytes, LenProperties, ElementOfSeq
<1>2. ReservedBytes(u) = g0
  BY DEF ReservedBytes
<1> HIDE DEF N, Turn
<1>3. step \in [(1..N) \X Nat -> Nat]
  BY <1>1
<1>4. \A n \in 1..N, m \in Nat : step[<<n, m>>] = Turn(n, m)
  OBVIOUS
<1> HIDE DEF step
<1>5. PICK f : RecursUpTo(f, N, Nat, 0, step)
  BY <1>1, <1>3, RecursionUpTo
<1>6. \A n \in 0..N : n # 0 => step[<<n, f[n - 1]>>] = Turn(n, f[n - 1])
  <2> TAKE n \in 0..N
  <2> HAVE n # 0
  <2>1. n \in 1..N /\ n - 1 \in 0..N
    BY <1>1
  <2> QED
    BY <1>4, <1>5, <2>1 DEF RecursUpTo
<1>7. f = [n \in 0..N |-> IF n = 0 THEN 0 ELSE Turn(n, f[n - 1])]
  BY <1>5, <1>6 DEF RecursUpTo
<1>8. Is(f)
  BY <1>7
<1> HIDE DEF Is
<1>9. Is(g0)
  BY <1>8
<1> HIDE DEF g0
<1>10. /\ DOMAIN g0 = 0..N /\ g0[0] = 0
       /\ \A n \in 1..N : g0[n] = Turn(n, g0[n - 1])
       /\ g0 = [n \in 0..N |-> g0[n]]
  BY <1>1, <1>9 DEF Is
<1>11. \A n \in 0..N : g0[n] \in Nat
  <2> DEFINE T == {n \in 0..N : g0[n] \in Nat}
  <2>1. 0 \in T
    BY <1>1, <1>10
  <2>2. \A n \in 0..N - 1 : n \in T => n + 1 \in T
    <3> TAKE n \in 0..N - 1
    <3>1. n + 1 \in 1..N /\ (n + 1) - 1 = n
      BY <1>1
    <3> HAVE n \in T
    <3>2. g0[n + 1] = Turn(n + 1, g0[(n + 1) - 1])
      BY <1>10, <3>1
    <3>3. g0[n + 1] = Turn(n + 1, g0[n]) /\ n + 1 \in 0..N
      BY <1>1, <3>1, <3>2
    <3> QED
      BY <1>1, <3>1, <3>3
  <2> HIDE DEF T
  <2>3. \A n \in 0..N : n \in T
    BY <1>1, <2>1, <2>2, InductionUpTo
  <2> QED
    BY <2>3 DEF T
<1> QED
  BY <1>2, <1>10, <1>11 DEF N, Turn

LEMMA WrittenIs ==
  ASSUME NEW u \in Seq(Units)
  PROVE  /\ WrittenBytes(u) \in [0..Len(u) -> Seq(Bytes)]
         /\ WrittenBytes(u)[0] = <<>>
         /\ \A n \in 1..Len(u) : WrittenBytes(u)[n] = WrittenBytes(u)[n - 1] \o Utf8Bytes(u[n])
<1> DEFINE N == Len(u)
           V == Seq(Bytes)
           Turn(n, b) == b \o Utf8Bytes(u[n])
           step == [x \in (1..N) \X V |-> Turn(x[1], x[2])]
           Is(g) == g = [n \in 0..N |-> IF n = 0 THEN <<>> ELSE Turn(n, g[n - 1])]
           g0 == CHOOSE g : Is(g)
<1>1. N \in Nat /\ <<>> \in V /\ \A n \in 1..N : \A b \in V : Turn(n, b) \in V
  BY UnitBytes, LenProperties, ElementOfSeq, EmptySeq, ConcatProperties
<1>2. WrittenBytes(u) = g0
  BY DEF WrittenBytes
<1> HIDE DEF N, V, Turn
<1>3. step \in [(1..N) \X V -> V]
  BY <1>1
<1>4. \A n \in 1..N, b \in V : step[<<n, b>>] = Turn(n, b)
  OBVIOUS
<1> HIDE DEF step
<1>5. PICK f : RecursUpTo(f, N, V, <<>>, step)
  BY <1>1, <1>3, RecursionUpTo
<1>6. \A n \in 0..N : n # 0 => step[<<n, f[n - 1]>>] = Turn(n, f[n - 1])
  <2> TAKE n \in 0..N
  <2> HAVE n # 0
  <2>1. n \in 1..N /\ n - 1 \in 0..N
    BY <1>1
  <2> QED
    BY <1>4, <1>5, <2>1 DEF RecursUpTo
<1>7. f = [n \in 0..N |-> IF n = 0 THEN <<>> ELSE Turn(n, f[n - 1])]
  BY <1>5, <1>6 DEF RecursUpTo
<1>8. Is(f)
  BY <1>7
<1> HIDE DEF Is
<1>9. Is(g0)
  BY <1>8
<1> HIDE DEF g0
<1>10. /\ DOMAIN g0 = 0..N /\ g0[0] = <<>>
       /\ \A n \in 1..N : g0[n] = Turn(n, g0[n - 1])
       /\ g0 = [n \in 0..N |-> g0[n]]
  BY <1>1, <1>9 DEF Is
<1>11. \A n \in 0..N : g0[n] \in V
  <2> DEFINE T == {n \in 0..N : g0[n] \in V}
  <2>1. 0 \in T
    BY <1>1, <1>10
  <2>2. \A n \in 0..N - 1 : n \in T => n + 1 \in T
    <3> TAKE n \in 0..N - 1
    <3>1. n + 1 \in 1..N /\ (n + 1) - 1 = n
      BY <1>1
    <3> HAVE n \in T
    <3>2. g0[n + 1] = Turn(n + 1, g0[(n + 1) - 1])
      BY <1>10, <3>1
    <3>3. g0[n + 1] = Turn(n + 1, g0[n]) /\ n + 1 \in 0..N
      BY <1>1, <3>1, <3>2
    <3> QED
      BY <1>1, <3>1, <3>3
  <2> HIDE DEF T
  <2>3. \A n \in 0..N : n \in T
    BY <1>1, <2>1, <2>2, InductionUpTo
  <2> QED
    BY <2>3 DEF T
<1> QED
  BY <1>2, <1>10, <1>11 DEF N, V, Turn

LEMMA DecodedIs ==
  ASSUME NEW b \in Seq(Bytes)
  PROVE  /\ UnitsUpTo(b) \in [0..Len(b) -> Seq(Int)]
         /\ UnitsUpTo(b)[0] = <<>>
         /\ \A n \in 1..Len(b) :
              UnitsUpTo(b)[n] = IF b[n] \in 128..191 THEN UnitsUpTo(b)[n - 1]
                                ELSE Append(UnitsUpTo(b)[n - 1], UnitAt(b, n))
<1> DEFINE N == Len(b)
           V == Seq(Int)
           Turn(n, x) == IF b[n] \in 128..191 THEN x ELSE Append(x, UnitAt(b, n))
           step == [x \in (1..N) \X V |-> Turn(x[1], x[2])]
           Is(g) == g = [n \in 0..N |-> IF n = 0 THEN <<>>
                                        ELSE IF b[n] \in 128..191 THEN g[n - 1]
                                        ELSE Append(g[n - 1], UnitAt(b, n))]
           g0 == CHOOSE g : Is(g)
<1>1. N \in Nat /\ <<>> \in V
  BY LenProperties, EmptySeq
<1>2. \A n \in 1..N : \A x \in V : Turn(n, x) \in V
  <2>0. \A x \in Bytes : x \in Int /\ x % 64 \in Int /\ x % 32 \in Int /\ x % 16 \in Int
    BY DEF Bytes
  <2>1. \A i : LowBits(b, i) \in Int
    <3> TAKE i
    <3>1. i \in DOMAIN b => b[i] \in Bytes
      BY LenProperties, ElementOfSeq
    <3> QED
      BY <2>0, <3>1 DEF LowBits
  <2>2. \A n \in 1..N : UnitAt(b, n) \in Int
    <3> TAKE n \in 1..N
    <3>1. b[n] \in Int /\ b[n] % 32 \in Int /\ b[n] % 16 \in Int
      BY <2>0, ElementOfSeq
    <3>2. LowBits(b, n + 1) \in Int /\ LowBits(b, n + 2) \in Int
      BY <2>1
    <3> QED
      BY <3>1, <3>2 DEF UnitAt
  <2> QED
    BY <2>2, AppendProperties
<1>3. UnitsUpTo(b) = g0
  BY DEF UnitsUpTo
<1>4. \A g : Is(g) <=> g = [n \in 0..N |-> IF n = 0 THEN <<>> ELSE Turn(n, g[n - 1])]
  OBVIOUS
<1> HIDE DEF N, V, Turn, Is
<1>5. step \in [(1..N) \X V -> V]
  BY <1>2
<1>6. \A n \in 1..N, x \in V : step[<<n, x>>] = Turn(n, x)
  OBVIOUS
<1> HIDE DEF step
<1>7. PICK f : RecursUpTo(f, N, V, <<>>, step)
  BY <1>1, <1>5, RecursionUpTo
<1>8. \A n \in 0..N : n # 0 => step[<<n, f[n - 1]>>] = Turn(n, f[n - 1])
  <2> TAKE n \in 0..N
  <2> HAVE n # 0
  <2>1. n \in 1..N /\ n - 1 \in 0..N
    BY <1>1
  <2> QED
    BY <1>6, <1>7, <2>1 DEF RecursUpTo
<1>9. f = [n \in 0..N |-> IF n = 0 THEN <<>> ELSE Turn(n, f[n - 1])]
  BY <1>7, <1>8 DEF RecursUpTo
<1>10. Is(f)
  BY <1>4, <1>9
<1>11. Is(g0)
  BY <1>10
<1> HIDE DEF g0
<1>12. g0 = [n \in 0..N |-> IF n = 0 THEN <<>> ELSE Turn(n, g0[n - 1])]
  BY <1>4, <1>11
<1>13. /\ DOMAIN g0 = 0..N /\ g0[0] = <<>>
       /\ \A n \in 1..N : g0[n] = Turn(n, g0[n - 1])
       /\ g0 = [n \in 0..N |-> g0[n]]
  BY <1>1, <1>12
<1>14. \A n \in 0..N : g0[n] \in V
  <2> DEFINE T == {n \in 0..N : g0[n] \in V}
  <2>1. 0 \in T
    BY <1>1, <1>13
  <2>2. \A n \in 0..N - 1 : n \in T => n + 1 \in T
    <3> TAKE n \in 0..N - 1
    <3>1. n + 1 \in 1..N /\ (n + 1) - 1 = n
      BY <1>1
    <3> HAVE n \in T
    <3>2. g0[n + 1] = Turn(n + 1, g0[(n + 1) - 1])
      BY <1>13, <3>1
    <3>3. g0[n + 1] = Turn(n + 1, g0[n]) /\ n + 1 \in 0..N
      BY <1>1, <3>1, <3>2
    <3> QED
      BY <1>2, <3>1, <3>3
  <2> HIDE DEF T
  <2>3. \A n \in 0..N : n \in T
    BY <1>1, <2>1, <2>2, InductionUpTo
  <2> QED
    BY <2>3 DEF T
<1> QED
  BY <1>3, <1>13, <1>14 DEF N, V, Turn

LEMMA Joined ==
  ASSUME NEW a \in Seq(Bytes), NEW b \in Seq(Bytes)
  PROVE  /\ Len(a) \in Nat /\ Len(b) \in Nat /\ Len(a \o b) = Len(a) + Len(b)
         /\ \A i \in 1..Len(a) : (a \o b)[i] = a[i]
         /\ \A k \in 1..Len(b) : (a \o b)[Len(a) + k] = b[k]
<1> DEFINE c == a \o b
<1>1. Len(a) \in Nat /\ Len(b) \in Nat
  BY LenProperties
<1>2. /\ Len(c) = Len(a) + Len(b)
      /\ \A i \in 1 .. Len(a) + Len(b) : c[i] = IF i <= Len(a) THEN a[i] ELSE b[i - Len(a)]
  BY ConcatProperties
<1> HIDE DEF c
<1>3. \A i \in 1..Len(a) : c[i] = a[i]
  BY <1>1, <1>2
<1>4. ASSUME NEW k \in 1..Len(b) PROVE c[Len(a) + k] = b[k]
  <2>1. Len(a) + k \in 1 .. Len(a) + Len(b) /\ ~(Len(a) + k <= Len(a)) /\ (Len(a) + k) - Len(a) = k
    BY <1>1
  <2> QED
    BY <1>2, <2>1
<1> QED
  BY <1>1, <1>2, <1>3, <1>4 DEF c

\* the bytes of a name: as many as were reserved, those of each unit at their place
LEMMA NameBytes ==
  ASSUME NEW u \in Seq(Units)
  PROVE  /\ Utf8(u) \in Seq(Bytes) /\ Len(Utf8(u)) = ReservedBytes(u)[Len(u)]
         /\ \A n \in 1..Len(u) : \A k \in 1..Utf8Length(u[n]) :
              /\ ReservedBytes(u)[n - 1] + k \in 1..Len(Utf8(u))
              /\ Utf8(u)[ReservedBytes(u)[n - 1] + k] = Utf8Bytes(u[n])[k]
<1> DEFINE N == Len(u)
           R == ReservedBytes(u)
           W == WrittenBytes(u)
<1>1. N \in Nat /\ \A n \in 1..N : u[n] \in Units
  BY LenProperties, ElementOfSeq
<1>2. /\ R \in [0..N -> Nat] /\ R[0] = 0
      /\ \A n \in 1..N : R[n] = R[n - 1] + Utf8Length(u[n])
  BY ReservedIs
<1>3. /\ W \in [0..N -> Seq(Bytes)] /\ W[0] = <<>>
      /\ \A n \in 1..N : W[n] = W[n - 1] \o Utf8Bytes(u[n])
  BY WrittenIs
<1>4. \A n \in 1..N : /\ Utf8Bytes(u[n]) \in Seq(Bytes)
                       /\ Len(Utf8Bytes(u[n])) = Utf8Length(u[n]) /\ Utf8Length(u[n]) \in Nat
  BY <1>1, UnitBytes
<1>5. Utf8(u) = [i \in 1..R[N] |-> IF i <= Len(W[N]) THEN W[N][i] ELSE 0]
  BY DEF Utf8
<1> HIDE DEF N, R, W
<1>6. ASSUME NEW n \in 1..N
      PROVE  /\ n - 1 \in 0..N /\ W[n - 1] \in Seq(Bytes) /\ Len(W[n - 1]) \in Nat
             /\ Len(W[n]) = Len(W[n - 1]) + Utf8Length(u[n])
             /\ \A i \in 1..Len(W[n - 1]) : W[n][i] = W[n - 1][i]
             /\ \A k \in 1..Utf8Length(u[n]) : W[n][Len(W[n - 1]) + k] = Utf8Bytes(u[n])[k]
  <2>1. n - 1 \in 0..N
    BY <1>1
  <2>2. W[n - 1] \in Seq(Bytes)
    BY <1>3, <2>1
  <2>3. W[n] = W[n - 1] \o Utf8Bytes(u[n])
    BY <1>3
  <2>4. Utf8Bytes(u[n]) \in Seq(Bytes) /\ Len(Utf8Bytes(u[n])) = Utf8Length(u[n])
    BY <1>4
  <2> DEFINE a == W[n - 1]
             b == Utf8Bytes(u[n])
  <2>5. /\ Len(a) \in Nat /\ Len(a \o b) = Len(a) + Len(b)
        /\ \A i \in 1..Len(a) : (a \o b)[i] = a[i]
        /\ \A k \in 1..Len(b) : (a \o b)[Len(a) + k] = b[k]
    BY <2>2, <2>4, Joined
  <2>6. W[n] = a \o b
    BY <2>3
  <2> QED
    BY <2>1, <2>2, <2>4, <2>5, <2>6
<1>7. \A n \in 0..N : Len(W[n]) = R[n]
  <2> DEFINE T == {n \in 0..N : Len(W[n]) = R[n]}
  <2>1. 0 \in T
    BY <1>1, <1>2, <1>3
  <2>2. ASSUME NEW n \in 0..N - 1, n \in T PROVE n + 1 \in T
    <3>1. n + 1 \in 1..N /\ (n + 1) - 1 = n
      BY <1>1
    <3>2. Len(W[n + 1]) = Len(W[(n + 1) - 1]) + Utf8Length(u[n + 1])
      BY <1>6, <3>1
    <3>3. R[n + 1] = R[(n + 1) - 1] + Utf8Length(u[n + 1])
      BY <1>2, <3>1
    <3> QED
      BY <1>1, <2>2, <3>1, <3>2, <3>3
  <2> HIDE DEF T
  <2>3. \A n \in 0..N : n \in T
    BY <1>1, <2>1, <2>2, InductionUpTo
  <2> QED
    BY <2>3 DEF T
<1>8. /\ W[N] \in Seq(Bytes) /\ Len(W[N]) = R[N] /\ R[N] \in Nat
  BY <1>1, <1>2, <1>3, <1>7
<1>9. W[N] = [i \in 1..R[N] |-> W[N][i]]
  BY <1>8, LenProperties
<1>10. Utf8(u) = W[N]
  BY <1>5, <1>8, <1>9
<1>11. ASSUME NEW n \in 1..N
       PROVE  \A m \in n..N : R[n] <= R[m] /\ \A i \in 1..R[n] : W[m][i] = W[n][i]
  <2> DEFINE P(m) == R[n] <= R[m] /\ \A i \in 1..R[n] : W[m][i] = W[n][i]
             T == {d \in 0..N - n : P(n + d)}
  <2>1. N - n \in Nat /\ n \in Nat
    BY <1>1
  <2>2. 0 \in T
    <3>1. n + 0 = n /\ R[n] \in Nat
      BY <1>1, <1>2
    <3> QED
      BY <2>1, <3>1
  <2>3. ASSUME NEW d \in 0..(N - n) - 1, d \in T PROVE d + 1 \in T
    <3> DEFINE m == n + d
    <3>1. m \in 0..N /\ m + 1 \in 1..N /\ (m + 1) - 1 = m /\ n + (d + 1) = m + 1 /\ d + 1 \in 0..N - n
      BY <1>1, <2>1
    <3>2. P(m)
      BY <2>3
    <3> HIDE DEF m
    <3>3. /\ R[n] \in Nat /\ R[m] \in Nat /\ Len(W[m]) = R[m]
          /\ R[m + 1] = R[m] + Utf8Length(u[m + 1]) /\ Utf8Length(u[m + 1]) \in Nat
      BY <1>1, <1>2, <1>4, <1>7, <3>1, SMTT(40)
    <3>4. \A i \in 1..Len(W[m]) : W[m + 1][i] = W[m][i]
      BY <1>6, <3>1
    <3>5. R[n] <= R[m + 1]
      BY <3>2, <3>3
    <3>6. ASSUME NEW i \in 1..R[n] PROVE W[m + 1][i] = W[n][i]
      <4>1. i \in 1..Len(W[m])
        BY <3>2, <3>3
      <4> QED
        BY <3>2, <3>4, <4>1
    <3> QED
      BY <3>1, <3>5, <3>6
  <2> HIDE DEF T
  <2>4. \A d \in 0..N - n : d \in T
    BY <2>1, <2>2, <2>3, InductionUpTo
  <2> TAKE m \in n..N
  <2>5. m - n \in 0..N - n /\ n + (m - n) = m
    <3>1. m \in Int /\ n <= m /\ m <= N
      OBVIOUS
    <3> QED
      BY <1>1, <2>1, <3>1
  <2> QED
    BY <2>4, <2>5 DEF T
<1>12. ASSUME NEW n \in 1..N, NEW k \in 1..Utf8Length(u[n])
       PROVE  R[n - 1] + k \in 1..Len(Utf8(u)) /\ Utf8(u)[R[n - 1] + k] = Utf8Bytes(u[n])[k]
  <2>1. /\ n - 1 \in 0..N /\ n \in 0..N /\ N \in n..N /\ Utf8Length(u[n]) \in Nat
        /\ R[n - 1] \in Nat /\ R[n] \in Nat /\ R[n] = R[n - 1] + Utf8Length(u[n])
    BY <1>1, <1>2, <1>4
  <2>2. R[n - 1] + k \in 1..R[n] /\ R[n] <= R[N]
    BY <1>11, <2>1
  <2>3. R[n - 1] + k \in 1..R[N]
    BY <1>8, <2>1, <2>2
  <2>4. W[N][R[n - 1] + k] = W[n][R[n - 1] + k]
    BY <1>11, <2>1, <2>2
  <2>5. W[n][R[n - 1] + k] = Utf8Bytes(u[n])[k]
    BY <1>6, <1>7, <2>1
  <2> QED
    BY <1>8, <1>10, <2>3, <2>4, <2>5
<1> QED
  BY <1>8, <1>10, <1>12 DEF N, R

LEMMA TwiceDivided ==
  ASSUME NEW c \in Nat
  PROVE  (c \div 64) \div 64 = c \div 4096
<1> DEFINE q == c \div 64
           d == q \div 64
           e == c \div 4096
<1>1. q \in Int /\ 64 * q <= c /\ c < 64 * q + 64
  OBVIOUS
<1>2. e \in Int /\ 4096 * e <= c /\ c < 4096 * e + 4096
  OBVIOUS
<1> HIDE DEF q
<1>3. d \in Int /\ 64 * d <= q /\ q < 64 * d + 64
  BY <1>1
<1> HIDE DEF d, e
<1>4. d = e
  BY <1>1, <1>2, <1>3
<1> QED
  BY <1>4 DEF d, e, q

\* the parts of a unit, and what is left of them when the marks of UTF-8 are taken off
LEMMA UnitParts ==
  ASSUME NEW c \in Units
  PROVE  /\ c = 64 * (c \div 64) + (c % 64)
         /\ c = 4096 * (c \div 4096) + 64 * ((c \div 64) % 64) + (c % 64)
         /\ c \div 4096 \in 0..15 /\ (c \div 64) % 64 \in 0..63 /\ c % 64 \in 0..63
         /\ c < 2048 => c \div 64 \in 0..31
<1>1. c \in Nat /\ c <= 65535
  BY UnitRange
<1>6. (c \div 64) \div 64 = c \div 4096
  BY <1>1, TwiceDivided, SMTT(40)
<1>7. c \div 4096 \in 0..15
  <2>1. c \in Nat /\ c <= 65535
    BY <1>1, SMTT(40)
  <2>2. c \div 4096 \in Int /\ 4096 * (c \div 4096) <= c /\ c < 4096 * (c \div 4096) + 4096
    BY <2>1
  <2> QED
    BY <2>1, <2>2
<1> DEFINE q == c \div 64
<1>2. q \in 0..1023 /\ c = 64 * q + (c % 64) /\ c % 64 \in 0..63
  BY <1>1, SMTT(40)
<1>3. q \div 64 = c \div 4096 /\ c \div 4096 \in 0..15
  BY <1>6, <1>7
<1>4. c < 2048 => q \in 0..31
  BY <1>1, SMTT(40)
<1> HIDE DEF q
<1>5. q = 64 * (q \div 64) + (q % 64) /\ q % 64 \in 0..63
  BY <1>2
<1> QED
  BY <1>1, <1>2, <1>3, <1>4, <1>5, SMTT(40) DEF q

LEMMA Unmarked ==
  /\ \A a \in 0..15 : 224 + a \in 224..239 /\ (224 + a) % 16 = a
  /\ \A a \in 0..31 : 192 + a \in 192..223 /\ (192 + a) % 32 = a
  /\ \A a \in 0..63 : 128 + a \in 128..191 /\ (128 + a) % 64 = a
<1>1. \A a \in 0..15 : 224 + a \in 224..239 /\ (224 + a) % 16 = a
  OBVIOUS
<1>2. \A a \in 0..31 : 192 + a \in 192..223 /\ (192 + a) % 32 = a
  OBVIOUS
<1>3. \A a \in 0..63 : 128 + a \in 128..191 /\ (128 + a) % 64 = a
  OBVIOUS
<1> QED
  BY <1>1, <1>2, <1>3

\* how many bytes a unit has is told by the first
LEMMA UnitLength ==
  ASSUME NEW b, NEW i
  PROVE  /\ ~(b[i] < 128) /\ b[i] < 224 =>
              UnitAt(b, i) = ((b[i] % 32) * 64) + LowBits(b, i + 1)
         /\ ~(b[i] < 128) /\ ~(b[i] < 224) =>
              UnitAt(b, i) = ((b[i] % 16) * 4096) + (LowBits(b, i + 1) * 64) + LowBits(b, i + 2)
  BY DEF UnitAt

\* the bytes of c stand in b behind p
Stands(c, b, p) == \A k \in 1..Utf8Length(c) : p + k \in 1..Len(b) /\ b[p + k] = Utf8Bytes(c)[k]

LEMMA UnitDecoded ==
  ASSUME NEW b \in Seq(Bytes), NEW c \in Units, NEW p \in Nat, Stands(c, b, p)
  PROVE  /\ b[p + 1] \notin 128..191 /\ UnitAt(b, p + 1) = c
         /\ \A k \in 2..Utf8Length(c) : b[p + k] \in 128..191
<1>1. c \in Nat /\ c <= 65535
  BY UnitRange
<1>2. DOMAIN b = 1..Len(b)
  BY LenProperties
<1>3. CASE c < 128
  <2>1. Utf8Length(c) = 1 /\ Utf8Bytes(c) = <<c>>
    BY <1>3, UnitBytes DEF Utf8Length
  <2>2. b[p + 1] = c
    BY <2>1 DEF Stands
  <2> QED
    BY <1>1, <1>3, <2>1, <2>2 DEF UnitAt
<1>4. CASE c >= 128 /\ c < 2048
  <2> DEFINE x == c \div 64
             y == c % 64
  <2>1. Utf8Length(c) = 2 /\ Utf8Bytes(c) = <<192 + x, 128 + y>>
    BY <1>1, <1>4, UnitBytes DEF Utf8Length
  <2>2. /\ p + 1 \in 1..Len(b) /\ b[p + 1] = 192 + x
        /\ p + 2 \in 1..Len(b) /\ b[p + 2] = 128 + y /\ (p + 1) + 1 = p + 2
    BY <2>1 DEF Stands
  <2>3. c = 64 * x + y /\ x \in 0..31 /\ y \in 0..63
    BY <1>4, UnitParts
  <2> HIDE DEF x, y
  <2>4. /\ 192 + x \in 192..223 /\ (192 + x) % 32 = x
        /\ 128 + y \in 128..191 /\ (128 + y) % 64 = y
    BY <2>3, Unmarked
  <2>5. LowBits(b, (p + 1) + 1) = y
    BY <1>2, <2>2, <2>4 DEF LowBits
  <2>6. UnitAt(b, p + 1) = ((b[p + 1] % 32) * 64) + LowBits(b, (p + 1) + 1)
    <3> DEFINE f == b[p + 1]
    <3>1. f \in 192..223
      BY <2>2, <2>4
    <3> HIDE DEF f
    <3>2. ~(f < 128) /\ f < 224
      BY <3>1
    <3> QED
      BY <3>2, UnitLength DEF f
  <2>7. UnitAt(b, p + 1) = (x * 64) + y
    BY <2>2, <2>4, <2>5, <2>6
  <2>8. UnitAt(b, p + 1) = c
    BY <2>3, <2>7
  <2>9. b[p + 1] \in 192..223 /\ b[p + 2] \in 128..191
    BY <2>2, <2>4
  <2>10. b[p + 1] \notin 128..191
    <3> DEFINE f == b[p + 1]
    <3>1. f \in 192..223
      BY <2>9
    <3> HIDE DEF f
    <3>2. f \notin 128..191
      BY <3>1
    <3> QED
      BY <3>2 DEF f
  <2>11. \A k \in 2..Utf8Length(c) : k = 2
    <3>1. \A k \in 2..2 : k = 2
      OBVIOUS
    <3> QED
      BY <2>1, <3>1
  <2> QED
    <3>1. \A k \in 2..Utf8Length(c) : b[p + k] \in 128..191
      BY <2>9, <2>11
    <3> QED
      BY <2>8, <2>10, <3>1
<1>5. CASE c >= 2048
  <2> DEFINE x == c \div 4096
             y == (c \div 64) % 64
             z == c % 64
  <2>1. Utf8Length(c) = 3 /\ Utf8Bytes(c) = <<224 + x, 128 + y, 128 + z>>
    BY <1>1, <1>5, UnitBytes DEF Utf8Length
  <2>2. /\ p + 1 \in 1..Len(b) /\ b[p + 1] = 224 + x
        /\ p + 2 \in 1..Len(b) /\ b[p + 2] = 128 + y /\ (p + 1) + 1 = p + 2
        /\ p + 3 \in 1..Len(b) /\ b[p + 3] = 128 + z /\ (p + 1) + 2 = p + 3
    BY <2>1 DEF Stands
  <2>3. c = 4096 * x + 64 * y + z /\ x \in 0..15 /\ y \in 0..63 /\ z \in 0..63
    BY UnitParts
  <2> HIDE DEF x, y, z
  <2>4. /\ 224 + x \in 224..239 /\ (224 + x) % 16 = x
        /\ 128 + y \in 128..191 /\ (128 + y) % 64 = y
        /\ 128 + z \in 128..191 /\ (128 + z) % 64 = z
    <3>1. 224 + x \in 224..239 /\ (224 + x) % 16 = x
      BY <2>3, Unmarked
    <3>2. 128 + y \in 128..191 /\ (128 + y) % 64 = y
      BY <2>3, Unmarked
    <3>3. 128 + z \in 128..191 /\ (128 + z) % 64 = z
      BY <2>3, Unmarked
    <3> QED
      BY <3>1, <3>2, <3>3
  <2>5. LowBits(b, (p + 1) + 1) = y /\ LowBits(b, (p + 1) + 2) = z
    BY <1>2, <2>2, <2>4 DEF LowBits
  <2>6. UnitAt(b, p + 1) = ((b[p + 1] % 16) * 4096) + (LowBits(b, (p + 1) + 1) * 64)
                             + LowBits(b, (p + 1) + 2)
    <3> DEFINE f == b[p + 1]
    <3>1. f \in 224..239
      BY <2>2, <2>4
    <3> HIDE DEF f
    <3>2. ~(f < 128) /\ ~(f < 224)
      BY <3>1
    <3> QED
      BY <3>2, UnitLength DEF f
  <2>7. UnitAt(b, p + 1) = (x * 4096) + (y * 64) + z
    BY <2>2, <2>4, <2>5, <2>6
  <2>8. UnitAt(b, p + 1) = c
    BY <2>3, <2>7
  <2>9. b[p + 1] \in 224..239 /\ b[p + 2] \in 128..191 /\ b[p + 3] \in 128..191
    BY <2>2, <2>4
  <2>10. b[p + 1] \notin 128..191
    <3> DEFINE f == b[p + 1]
    <3>1. f \in 224..239
      BY <2>9
    <3> HIDE DEF f
    <3>2. f \notin 128..191
      BY <3>1
    <3> QED
      BY <3>2 DEF f
  <2>11. \A k \in 2..Utf8Length(c) : k = 2 \/ k = 3
    <3>1. \A k \in 2..3 : k = 2 \/ k = 3
      OBVIOUS
    <3> QED
      BY <2>1, <3>1
  <2> QED
    <3>1. \A k \in 2..Utf8Length(c) : b[p + k] \in 128..191
      <4> TAKE k \in 2..Utf8Length(c)
      <4>1. k = 2 \/ k = 3
        BY <2>11
      <4> QED
        BY <2>9, <4>1
    <3> QED
      BY <2>8, <2>10, <3>1
<1> QED
  BY <1>1, <1>3, <1>4, <1>5

\* No name is damaged: what convert_utf16_to_utf8_string makes of 16-bit units, in the room
\* that its first loop reserves, is decoded to these units, for every string of them.
THEOREM NamesKept == \A u \in Seq(Units) : Decode(Utf8(u)) = u
<1> SUFFICES ASSUME NEW u \in Seq(Units) PROVE Decode(Utf8(u)) = u
  OBVIOUS
<1> DEFINE N == Len(u)
           R == ReservedBytes(u)
           b == Utf8(u)
           D == UnitsUpTo(b)
<1>1. N \in Nat /\ \A n \in 1..N : u[n] \in Units
  BY LenProperties, ElementOfSeq
<1>2. /\ R \in [0..N -> Nat] /\ R[0] = 0
      /\ \A n \in 1..N : R[n] = R[n - 1] + Utf8Length(u[n])
  BY ReservedIs
<1>3. /\ b \in Seq(Bytes) /\ Len(b) = R[N]
      /\ \A n \in 1..N : \A k \in 1..Utf8Length(u[n]) :
           R[n - 1] + k \in 1..Len(b) /\ b[R[n - 1] + k] = Utf8Bytes(u[n])[k]
  BY NameBytes
<1>4. \A n \in 1..N : Utf8Length(u[n]) \in 1..3
  BY <1>1, UnitBytes
<1>5. Decode(b) = D[Len(b)]
  BY DEF Decode
<1> HIDE DEF N, R, b
<1>6. /\ D \in [0..Len(b) -> Seq(Int)] /\ D[0] = <<>>
      /\ \A n \in 1..Len(b) : D[n] = IF b[n] \in 128..191 THEN D[n - 1]
                                     ELSE Append(D[n - 1], UnitAt(b, n))
  BY <1>3, DecodedIs
<1> HIDE DEF D
<1> DEFINE P(n) == Len(D[R[n]]) = n /\ \A i \in 1..n : D[R[n]][i] = u[i]
           T == {n \in 0..N : R[n] \in 0..Len(b) /\ P(n)}
<1>7. 0 \in T
  <2>1. R[0] \in 0..Len(b)
    BY <1>1, <1>2, <1>3
  <2> QED
    BY <1>1, <1>2, <1>6, <2>1
<1>8. ASSUME NEW n \in 0..N - 1, n \in T PROVE n + 1 \in T
  <2> DEFINE p == R[n]
             c == u[n + 1]
  <2>1. n \in Nat /\ n + 1 \in 1..N /\ (n + 1) - 1 = n /\ n + 1 \in 0..N
    BY <1>1
  <2>2. /\ c \in Units /\ p \in Nat /\ R[n + 1] = p + Utf8Length(c) /\ Utf8Length(c) \in 1..3
        /\ \A k \in 1..Utf8Length(c) : p + k \in 1..Len(b) /\ b[p + k] = Utf8Bytes(c)[k]
    <3>1. R[n + 1] = R[(n + 1) - 1] + Utf8Length(u[n + 1])
      BY <1>2, <2>1
    <3>2. \A k \in 1..Utf8Length(u[n + 1]) : /\ R[(n + 1) - 1] + k \in 1..Len(b)
                                            /\ b[R[(n + 1) - 1] + k] = Utf8Bytes(u[n + 1])[k]
      BY <1>3, <2>1
    <3>3. R[n] \in Nat
      BY <1>1, <1>2, <2>1
    <3> QED
      BY <1>1, <1>4, <2>1, <3>1, <3>2, <3>3
  <2>3. P(n) /\ D[p] \in Seq(Int)
    BY <1>6, <1>8
  <2> HIDE DEF p, c
  <2>4. /\ b[p + 1] \notin 128..191 /\ UnitAt(b, p + 1) = c
        /\ \A k \in 2..Utf8Length(c) : b[p + k] \in 128..191
    <3>1. Stands(c, b, p)
      BY <2>2 DEF Stands
    <3> QED
      BY <1>3, <2>2, <3>1, UnitDecoded
  <2>5. D[p + 1] = Append(D[p], c)
    <3>1. p + 1 \in 1..Len(b) /\ (p + 1) - 1 = p
      BY <2>2
    <3> QED
      BY <1>6, <2>4, <3>1
  <2>6. \A k \in 2..Utf8Length(c) : D[p + k] = D[p + (k - 1)]
    <3> TAKE k \in 2..Utf8Length(c)
    <3>1. p + k \in 1..Len(b) /\ (p + k) - 1 = p + (k - 1)
      BY <2>2
    <3> QED
      BY <1>6, <2>4, <3>1
  <2>7. D[R[n + 1]] = D[p + 1]
    <3>1. CASE Utf8Length(c) = 1
      BY <2>2, <3>1
    <3>2. CASE Utf8Length(c) = 2
      <4>1. D[p + 2] = D[p + (2 - 1)]
        BY <2>6, <3>2
      <4> QED
        BY <2>2, <3>2, <4>1
    <3>3. CASE Utf8Length(c) = 3
      <4>1. D[p + 2] = D[p + (2 - 1)] /\ D[p + 3] = D[p + (3 - 1)]
        BY <2>6, <3>3
      <4> QED
        BY <2>2, <3>3, <4>1
    <3> QED
      BY <2>2, <3>1, <3>2, <3>3
  <2>8. R[n + 1] \in 0..Len(b)
    <3>1. p + Utf8Length(c) \in 1..Len(b)
      BY <2>2
    <3> QED
      BY <2>2, <3>1
  <2>9. P(n + 1)
    <3>1. Len(D[p]) = n /\ \A i \in 1..n : D[p][i] = u[i]
      BY <2>3 DEF p
    <3>2. c \in Int
      BY <2>2, UnitRange
    <3>3. /\ Len(Append(D[p], c)) = n + 1 /\ Append(D[p], c)[n + 1] = c
          /\ \A i \in 1..n : Append(D[p], c)[i] = D[p][i]
      BY <2>3, <3>1, <3>2, AppendProperties
    <3>4. \A i \in 1..n + 1 : i \in 1..n \/ i = n + 1
      BY <2>1
    <3>5. c = u[n + 1]
      BY DEF c
    <3> QED
      BY <2>5, <2>7, <3>1, <3>3, <3>4, <3>5
  <2> QED
    BY <2>1, <2>8, <2>9
<1> HIDE DEF T
<1>9. \A n \in 0..N : n \in T
  BY <1>1, <1>7, <1>8, InductionUpTo
<1>10. P(N)
  BY <1>1, <1>9 DEF T
<1>11. Decode(b) = u
  <2>1. D[R[N]] \in Seq(Int)
    BY <1>1, <1>3, <1>6, <1>9 DEF T
  <2>2. /\ DOMAIN D[R[N]] = 1..N /\ D[R[N]] = [i \in 1..N |-> D[R[N]][i]]
    BY <1>10, <2>1, LenProperties
  <2>3. u = [i \in 1..N |-> u[i]]
    BY LenProperties DEF N
  <2> QED
    BY <1>3, <1>5, <1>10, <2>2, <2>3
<1> QED
  BY <1>11 DEF b
-----------------------------------------------------------------------------
(* The records, and the part of the tables that the search reads.          *)

EntryFields == {"v_byte", "v_bool", "v_int", "v_str"}
DfaRows  == 0 .. DfaSize(file) - 1
EdgeRows == [charset : 0 .. CharsetCount(file) - 1, target : DfaRows]

Record(k)    == file.records[k]
CountsRead   == \E k \in 1..pos : KindOf(Record(k)) = "t"

EntriesTyped == \A i \in DOMAIN v : DOMAIN v[i] = EntryFields

\* the part of the tables that the search reads; d and init stand for two of its members
DfaTyped(d, init) ==
  /\ DOMAIN d \in {{}, DfaRows}
  /\ \A s \in DOMAIN d : d[s].edges \in Seq(EdgeRows)
  /\ init # Uninitialised => init \in DfaRows /\ DOMAIN d = DfaRows
  /\ CountsRead => DOMAIN d = DfaRows

LoadInv ==
  /\ file \in Files /\ pos \in 0 .. Len(file.records)
  /\ EntriesTyped
  /\ {"dfa_states", "dfa_init"} \subseteq DOMAIN grammar
  /\ DfaTyped(grammar.dfa_states, grammar.dfa_init)
  /\ verdict = "loading" => \A k \in 1..pos : Understood(Record(k))
  /\ Loaded => grammar.dfa_init # Uninitialised

LEMMA ValueRead ==
  ASSUME NEW old, NEW e, DOMAIN old = EntryFields
  PROVE  /\ DOMAIN ReadValue(old, e) = EntryFields
         /\ e.type = "I" => ReadValue(old, e).v_int = Int16(e.stored)
         /\ e.type = "b" => ReadValue(old, e).v_byte = e.stored
         /\ e.type = "S" => ReadValue(old, e).v_str = Utf8(e.stored)
         /\ e.type = "B" => ReadValue(old, e).v_bool = e.stored
<1> DEFINE a == [old EXCEPT !.v_byte = e.stored]
           b == [old EXCEPT !.v_bool = e.stored]
           c == [old EXCEPT !.v_int = Int16(e.stored)]
           d == [old EXCEPT !.v_str = Utf8(e.stored)]
<1>1. /\ DOMAIN a = EntryFields /\ a.v_byte = e.stored
      /\ DOMAIN b = EntryFields /\ b.v_bool = e.stored
      /\ DOMAIN c = EntryFields /\ c.v_int = Int16(e.stored)
      /\ DOMAIN d = EntryFields /\ d.v_str = Utf8(e.stored)
  BY DEF EntryFields
<1>2. ReadValue(old, e) = CASE e.type = "b" -> a [] e.type = "B" -> b [] e.type = "I" -> c
                            [] e.type = "S" -> d [] OTHER -> old
  BY DEF ReadValue
<1> HIDE DEF a, b, c, d
<1> QED
  BY <1>1, <1>2

LEMMA RecordThere ==
  ASSUME LoadInv, More
  PROVE  /\ pos \in Nat /\ pos + 1 \in 1..Len(file.records)
         /\ Record(pos + 1).mark = "M" /\ Entries = Record(pos + 1).entries
         /\ Len(Entries) \in Nat \ {0} /\ DOMAIN Entries = 1..Len(Entries)
         /\ Entries[1].type = "b" /\ KindOf(Record(pos + 1)) = Entries[1].stored
         /\ Understood(Record(pos + 1)) => DfaIndexed(file, Record(pos + 1))
         /\ KindOf(Record(pos + 1)) = "I" /\ (\A k \in 1..pos + 1 : Understood(Record(k))) =>
              CountsRead
<1>1. /\ DfaSize(file) \in Nat /\ Len(file.records) \in Nat
      /\ \A k \in 1..Len(file.records) :
           /\ Len(Record(k).entries) \in Nat \ {0}
           /\ DOMAIN Record(k).entries = 1..Len(Record(k).entries)
           /\ Record(k).entries[1].type = "b"
           /\ Understood(Record(k)) => DfaIndexed(file, Record(k))
           /\ KindOf(Record(k)) = "I" /\ (\A j \in 1..k : Understood(Record(j))) =>
                \E j \in 1 .. k - 1 : KindOf(Record(j)) = "t"
  BY FilesIndexed DEF LoadInv, Record
<1>2. pos \in Nat /\ pos + 1 \in 1..Len(file.records) /\ (pos + 1) - 1 = pos
  BY <1>1 DEF LoadInv, More
<1> QED
  BY <1>1, <1>2 DEF More, Entries, Record, KindOf, CountsRead

LEMMA EntriesRead ==
  ASSUME LoadInv, More, ReadEntries
  PROVE  /\ EntriesTyped'
         /\ v'[0].v_byte = KindOf(Record(pos + 1))
         /\ \A i \in 0 .. Len(Entries) - 1 :
              Entries[i + 1].type = "I" => num(i) = Int16(Entries[i + 1].stored)
<1> DEFINE old(i) == IF i \in DOMAIN v THEN v[i] ELSE ZeroEntry
           D == (0 .. Len(Entries) - 1) \cup DOMAIN v
<1>1. Len(Entries) \in Nat \ {0}
  BY RecordThere
<1>2. \A i : DOMAIN old(i) = EntryFields
  BY DEF LoadInv, EntriesTyped, ZeroEntry, EntryFields
<1>3. v' = [i \in D |-> IF i < Len(Entries) THEN ReadValue(old(i), Entries[i + 1]) ELSE v[i]]
  BY DEF ReadEntries
<1>4. \A i \in 0 .. Len(Entries) - 1 : v'[i] = ReadValue(old(i), Entries[i + 1])
  BY <1>1, <1>3
<1>5. \A i \in D : v'[i] = ReadValue(old(i), Entries[i + 1]) \/ (i \in DOMAIN v /\ v'[i] = v[i])
  BY <1>1, <1>3
<1> HIDE DEF old
<1>6. EntriesTyped'
  BY <1>2, <1>3, <1>5, ValueRead DEF LoadInv, EntriesTyped
<1>7. v'[0].v_byte = KindOf(Record(pos + 1))
  <2>1. 0 \in 0 .. Len(Entries) - 1
    BY <1>1
  <2>2. v'[0] = ReadValue(old(0), Entries[1])
    BY <1>4, <2>1
  <2> QED
    BY <1>2, <2>2, ValueRead, RecordThere
<1>8. \A i \in 0 .. Len(Entries) - 1 :
        Entries[i + 1].type = "I" => num(i) = Int16(Entries[i + 1].stored)
  BY <1>2, <1>4, ValueRead DEF num
<1> QED
  BY <1>6, <1>7, <1>8

\* A record that is read makes the vector, and nothing else, what the steps below need.
LEMMA ReadsRecord ==
  ASSUME LoadInv, NEW kind \in Kinds, Reads(kind)
  PROVE  /\ verdict = "loading" /\ UNCHANGED <<file, verdict>> /\ pos' \in 0 .. Len(file.records)
         /\ EntriesTyped'
         /\ \A k \in 1..pos' : Understood(Record(k)')
         /\ CountsRead' <=> CountsRead \/ kind = "t"
         /\ kind = "I" => CountsRead
         /\ KindOf(Record(pos + 1)) = kind /\ DfaIndexed(file, Record(pos + 1))
         /\ Entries = Record(pos + 1).entries /\ Len(Entries) \in Nat \ {0}
         /\ \A i \in 0 .. Len(Entries) - 1 :
              Entries[i + 1].type = "I" => num(i) = Int16(Entries[i + 1].stored)
<1>1. /\ verdict = "loading" /\ UNCHANGED <<file, verdict>> /\ pos' = pos + 1
      /\ More /\ AllRead /\ ReadEntries /\ v'[0].v_byte = kind
  BY DEF Reads
<1>2. Understood(Record(pos + 1)) /\ KindOf(Record(pos + 1)) = kind
  BY <1>1, RecordThere, EntriesRead DEF Understood, AllRead
<1>3. \A k : Record(k)' = Record(k)
  BY <1>1 DEF Record
<1>4. pos \in Nat /\ pos + 1 \in 1..Len(file.records)
  BY <1>1, RecordThere
<1>5. \A k \in 1..pos + 1 : Understood(Record(k))
  BY <1>1, <1>2, <1>4 DEF LoadInv
<1>6. CountsRead' <=> CountsRead \/ kind = "t"
  <2>1. CountsRead' <=> \E k \in 1..pos + 1 : KindOf(Record(k)) = "t"
    BY <1>1, <1>3 DEF CountsRead
  <2> QED
    BY <1>2, <1>4, <2>1 DEF CountsRead
<1>7. \A k \in 1..pos' : Understood(Record(k)')
  BY <1>1, <1>3, <1>5
<1> QED
  BY <1>1, <1>2, <1>4, <1>5, <1>6, <1>7, RecordThere, EntriesRead

\* Records that are not about the DFA leave what the search reads as it was.
LEMMA OtherRecord ==
  ASSUME LoadInv, NEW kind \in Kinds \ {"t"}, Reads(kind),
         DOMAIN grammar' = DOMAIN grammar,
         grammar'.dfa_states = grammar.dfa_states, grammar'.dfa_init = grammar.dfa_init
  PROVE  LoadInv'
<1>1. DfaRows' = DfaRows /\ EdgeRows' = EdgeRows
  BY ReadsRecord DEF DfaRows, EdgeRows
<1>2. DfaTyped(grammar.dfa_states, grammar.dfa_init)'
  BY <1>1, ReadsRecord DEF LoadInv, DfaTyped
<1>3. file' = file /\ Loaded' = FALSE
  BY ReadsRecord DEF Loaded
<1>4. \A k \in 1..pos' : Understood(Record(k))'
  BY <1>3, ReadsRecord DEF Understood, KindOf, Record
<1> QED
  BY <1>2, <1>3, <1>4, ReadsRecord DEF LoadInv

\* A record of the DFA leads to the tables d and init.
LEMMA DfaRecord ==
  ASSUME LoadInv, NEW kind \in Kinds, Reads(kind),
         DOMAIN grammar' = DOMAIN grammar,
         DfaTyped(grammar.dfa_states, grammar.dfa_init)'
  PROVE  LoadInv'
<1>1. file' = file /\ Loaded' = FALSE
  BY ReadsRecord DEF Loaded
<1>2. \A k \in 1..pos' : Understood(Record(k))'
  BY <1>1, ReadsRecord DEF Understood, KindOf, Record
<1> QED
  BY <1>1, <1>2, ReadsRecord DEF LoadInv

LEMMA CountsKeep ==
  ASSUME LoadInv, ReadCounts
  PROVE  LoadInv'
<1> DEFINE d == grammar.dfa_states
           e == Resize("dfa_states", num(4))
<1>1. Reads("t") /\ "t" \in Kinds
  BY DEF ReadCounts, Kinds
<1>2. num(4) = DfaSize(file)
  <2>1. /\ Len(Entries) >= 5 /\ Entries[5].type = "I"
        /\ Int16(Entries[5].stored) = DfaSize(file)
    <3>1. Number(Record(pos + 1), 4) = Int16(Record(pos + 1).entries[5].stored)
      BY DEF Number, Stored
    <3> QED
      BY <1>1, <3>1, ReadsRecord DEF DfaIndexed
  <2>2. 4 \in 0 .. Len(Entries) - 1 /\ 4 + 1 = 5
    BY <1>1, <2>1, ReadsRecord
  <2> QED
    BY <1>1, <2>1, <2>2, ReadsRecord
<1>3. /\ DOMAIN grammar' = DOMAIN grammar
      /\ grammar'.dfa_states = e /\ grammar'.dfa_init = grammar.dfa_init
  BY DEF ReadCounts, LoadInv
<1>4. e = [i \in DfaRows |-> IF i \in DOMAIN d THEN d[i] ELSE Zero["dfa_states"]]
  BY <1>2 DEF Resize, DfaRows
<1>5. \A i \in DfaRows : e[i].edges \in Seq(EdgeRows)
  <2>1. Zero["dfa_states"].edges \in Seq(EdgeRows)
    BY EmptySeq DEF Zero
  <2> QED
    BY <1>4, <2>1 DEF LoadInv, DfaTyped
<1>6. DfaRows' = DfaRows /\ EdgeRows' = EdgeRows
  BY <1>1, ReadsRecord DEF DfaRows, EdgeRows
<1>7. DfaTyped(grammar.dfa_states, grammar.dfa_init)'
  <2>1. DOMAIN e = DfaRows
    BY <1>4
  <2> HIDE DEF e
  <2> QED
    BY <1>3, <1>5, <1>6, <2>1 DEF DfaTyped, LoadInv
<1> QED
  BY <1>1, <1>3, <1>7, DfaRecord

LEMMA InitialKeeps ==
  ASSUME LoadInv, ReadInitial
  PROVE  LoadInv'
<1>1. Reads("I") /\ "I" \in Kinds
  BY DEF ReadInitial, Kinds
<1>2. num(1) \in DfaRows
  <2>1. IndexAt(Record(pos + 1), 1, DfaSize(file))
    BY <1>1, ReadsRecord DEF DfaIndexed
  <2>2. /\ 2 <= Len(Entries) /\ Entries[2].type = "I"
        /\ Int16(Entries[2].stored) \in DfaRows
    BY <1>1, <2>1, ReadsRecord DEF IndexAt, DfaRows, Number, Stored
  <2>3. 1 \in 0 .. Len(Entries) - 1 /\ 1 + 1 = 2
    BY <1>1, <2>2, ReadsRecord
  <2> QED
    BY <1>1, <2>2, <2>3, ReadsRecord
<1>3. /\ DOMAIN grammar' = DOMAIN grammar
      /\ grammar'.dfa_states = grammar.dfa_states /\ grammar'.dfa_init = num(1)
  BY DEF ReadInitial, LoadInv
<1>4. DfaRows' = DfaRows /\ EdgeRows' = EdgeRows /\ CountsRead
  BY <1>1, ReadsRecord DEF DfaRows, EdgeRows
<1>5. DfaTyped(grammar.dfa_states, grammar.dfa_init)'
  BY <1>2, <1>3, <1>4 DEF DfaTyped, LoadInv
<1> QED
  BY <1>1, <1>3, <1>5, DfaRecord

LEMMA StateKeeps ==
  ASSUME LoadInv, ReadDfaState
  PROVE  LoadInv'
<1> DEFINE d == grammar.dfa_states
           n == (value_count - 5) \div 3
           read == Several(n, LAMBDA i : [charset |-> num(5 + 3 * i), target |-> num(6 + 3 * i)])
           row == [index |-> num(1), accept_symbol |-> IF v'[2].v_bool THEN num(3) ELSE -1,
                   edges |-> d[num(1)].edges \o read]
<1>1. Reads("D") /\ "D" \in Kinds
  BY DEF ReadDfaState, Kinds
<1>2. /\ Len(Entries) \in Nat /\ Len(Entries) >= 5 /\ n \in Nat /\ 3 * n <= Len(Entries) - 5
      /\ \A i \in 0 .. n - 1 : /\ IndexAt(Record(pos + 1), 5 + 3 * i, CharsetCount(file))
                               /\ IndexAt(Record(pos + 1), 6 + 3 * i, DfaSize(file))
  <2>1. /\ Len(Entries) \in Nat /\ Len(Entries) >= 5
        /\ \A i \in 0 .. ((Len(Entries) - 5) \div 3) - 1 :
             /\ IndexAt(Record(pos + 1), 5 + 3 * i, CharsetCount(file))
             /\ IndexAt(Record(pos + 1), 6 + 3 * i, DfaSize(file))
    BY <1>1, ReadsRecord DEF DfaIndexed
  <2>2. \A a \in Nat : a \div 3 \in Nat /\ 3 * (a \div 3) <= a
    OBVIOUS
  <2>3. Len(Entries) - 5 \in Nat
    BY <2>1
  <2> QED
    BY <2>1, <2>2, <2>3 DEF value_count
<1>3. \A i \in 0 .. n - 1 : /\ num(5 + 3 * i) \in 0 .. CharsetCount(file) - 1
                            /\ num(6 + 3 * i) \in DfaRows
  <2> SUFFICES ASSUME NEW i \in 0 .. n - 1
               PROVE  /\ num(5 + 3 * i) \in 0 .. CharsetCount(file) - 1
                      /\ num(6 + 3 * i) \in DfaRows
    OBVIOUS
  <2>1. ASSUME NEW j \in Nat, NEW m, j <= Len(Entries) - 1, IndexAt(Record(pos + 1), j, m)
        PROVE  num(j) \in 0 .. m - 1
    <3>1. Entries[j + 1].type = "I" /\ Int16(Entries[j + 1].stored) \in 0 .. m - 1
      BY <1>1, <2>1, ReadsRecord DEF IndexAt, Number, Stored
    <3>2. j \in 0 .. Len(Entries) - 1
      BY <1>2, <2>1
    <3> QED
      BY <1>1, <3>1, <3>2, ReadsRecord
  <2>2. /\ 5 + 3 * i \in Nat /\ 6 + 3 * i \in Nat
        /\ 5 + 3 * i <= Len(Entries) - 1 /\ 6 + 3 * i <= Len(Entries) - 1
    BY <1>2
  <2>3. num(5 + 3 * i) \in 0 .. CharsetCount(file) - 1
    BY <1>2, <2>1, <2>2
  <2>4. num(6 + 3 * i) \in 0 .. DfaSize(file) - 1
    BY <1>2, <2>1, <2>2
  <2> QED
    BY <2>3, <2>4 DEF DfaRows
<1>4. read \in Seq(EdgeRows)
  <2>1. read = [j \in 1..n |-> [charset |-> num(5 + 3 * (j - 1)), target |-> num(6 + 3 * (j - 1))]]
    BY DEF Several
  <2>2. \A j \in 1..n : [charset |-> num(5 + 3 * (j - 1)), target |-> num(6 + 3 * (j - 1))]
                          \in EdgeRows
    <3>1. \A j \in 1..n : j - 1 \in 0 .. n - 1
      BY <1>2
    <3> QED
      BY <1>3, <3>1 DEF EdgeRows
  <2> HIDE DEF n, read
  <2> QED
    BY <1>2, <2>1, <2>2, IsASeq
<1> HIDE DEF n, read
<1>5. /\ DOMAIN grammar' = DOMAIN grammar
      /\ grammar'.dfa_states = [d EXCEPT ![num(1)] = row]
      /\ grammar'.dfa_init = grammar.dfa_init
  BY DEF ReadDfaState, LoadInv, n, read
<1>6. num(1) \in DOMAIN d => row.edges \in Seq(EdgeRows)
  <2> SUFFICES ASSUME num(1) \in DOMAIN d
               PROVE  d[num(1)].edges \o read \in Seq(EdgeRows)
    OBVIOUS
  <2>1. d[num(1)].edges \in Seq(EdgeRows)
    BY DEF LoadInv, DfaTyped
  <2> QED
    BY <1>4, <2>1, ConcatProperties
<1> DEFINE e == [d EXCEPT ![num(1)] = row]
<1>7. /\ DOMAIN e = DOMAIN d
      /\ \A s \in DOMAIN e : e[s].edges \in Seq(EdgeRows)
  <2> HIDE DEF row
  <2> QED
    BY <1>6 DEF LoadInv, DfaTyped
<1> HIDE DEF e, row
<1>8. DfaRows' = DfaRows /\ EdgeRows' = EdgeRows /\ (CountsRead' <=> CountsRead)
  BY <1>1, ReadsRecord DEF DfaRows, EdgeRows
<1>9. DfaTyped(grammar.dfa_states, grammar.dfa_init)'
  BY <1>5, <1>7, <1>8 DEF DfaTyped, LoadInv, e
<1> QED
  BY <1>1, <1>5, <1>9, DfaRecord

LEMMA ReadKeepsLoad ==
  ASSUME LoadInv, ReadRecord
  PROVE  LoadInv'
<1> DEFINE Same == /\ DOMAIN grammar' = DOMAIN grammar
                   /\ grammar'.dfa_states = grammar.dfa_states
                   /\ grammar'.dfa_init = grammar.dfa_init
<1>1. ASSUME NEW kind \in Kinds \ {"t"}, Reads(kind), Same
      PROVE  LoadInv'
  BY <1>1, OtherRecord
<1>2. CASE ReadProperty
  <2>1. Reads("p") /\ "p" \in Kinds \ {"t"} /\ Same
    BY <1>2 DEF ReadProperty, Kinds, LoadInv
  <2> QED
    BY <1>1, <2>1
<1>3. CASE ReadCharset
  <2>1. Reads("c") /\ "c" \in Kinds \ {"t"} /\ Same
    BY <1>3 DEF ReadCharset, Kinds, LoadInv
  <2> QED
    BY <1>1, <2>1
<1>4. CASE ReadSymbol
  <2>1. Reads("S") /\ "S" \in Kinds \ {"t"} /\ Same
    BY <1>4 DEF ReadSymbol, Kinds, LoadInv
  <2> QED
    BY <1>1, <2>1
<1>5. CASE ReadGroup
  <2>1. Reads("g") /\ "g" \in Kinds \ {"t"} /\ Same
    BY <1>5 DEF ReadGroup, Kinds, LoadInv
  <2> QED
    BY <1>1, <2>1
<1>6. CASE ReadProduction
  <2>1. Reads("R") /\ "R" \in Kinds \ {"t"} /\ Same
    BY <1>6 DEF ReadProduction, Kinds, LoadInv
  <2> QED
    BY <1>1, <2>1
<1>7. CASE ReadLalrState
  <2>1. Reads("L") /\ "L" \in Kinds \ {"t"} /\ Same
    BY <1>7 DEF ReadLalrState, Kinds, LoadInv
  <2> QED
    BY <1>1, <2>1
<1> QED
  BY <1>2, <1>3, <1>4, <1>5, <1>6, <1>7, CountsKeep, InitialKeeps, StateKeeps DEF ReadRecord

\* A step that reads no record.
LEMMA OtherStep ==
  ASSUME LoadInv, UNCHANGED <<file, pos, grammar>>, EntriesTyped',
         verdict' = "loading" => verdict = "loading", Loaded' => grammar.dfa_init # Uninitialised
  PROVE  LoadInv'
<1>1. DfaRows' = DfaRows /\ EdgeRows' = EdgeRows /\ \A k : Record(k)' = Record(k)
  BY DEF DfaRows, EdgeRows, Record
<1>2. CountsRead' <=> CountsRead
  BY <1>1 DEF CountsRead
<1>3. DfaTyped(grammar.dfa_states, grammar.dfa_init)'
  BY <1>1, <1>2 DEF LoadInv, DfaTyped
<1>4. verdict' = "loading" => \A k \in 1..pos : Understood(Record(k)')
  BY <1>1 DEF LoadInv
<1> QED
  BY <1>3, <1>4 DEF LoadInv

LEMMA LoadKeeps == LoadInv /\ [Next]_vars => LoadInv'
<1> SUFFICES ASSUME LoadInv, [Next]_vars PROVE LoadInv'
  OBVIOUS
<1>1. CASE ReadRecord
  BY <1>1, ReadKeepsLoad
<1>2. CASE Refuse
  <2>1. EntriesTyped'
    <3>1. CASE UNCHANGED v
      BY <3>1 DEF LoadInv, EntriesTyped
    <3>2. CASE ReadEntries
      BY <1>2, <3>2, EntriesRead DEF Refuse
    <3> QED
      BY <1>2, <3>1, <3>2 DEF Refuse
  <2> QED
    BY <1>2, <2>1, OtherStep DEF Refuse, Loaded
<1>3. CASE StartSearch
  <2>1. EntriesTyped'
    BY <1>3 DEF StartSearch, Stop, LoadInv, EntriesTyped
  <2> QED
    BY <1>3, <2>1, OtherStep DEF StartSearch, Stop, Loaded
<1>4. CASE UNCHANGED loader_vars
  <2>1. EntriesTyped' /\ (Loaded' <=> Loaded)
    BY <1>4 DEF loader_vars, LoadInv, EntriesTyped, Loaded
  <2> QED
    BY <1>4, <2>1, OtherStep DEF loader_vars, LoadInv
<1>5. CASE SetSingleLexemes
  <2>1. EntriesTyped' /\ Loaded /\ verdict' = "accepted"
    BY <1>5 DEF SetSingleLexemes, LoadInv, EntriesTyped, Loaded
  <2> QED
    BY <1>5, <2>1, OtherStep DEF SetSingleLexemes, LoadInv
<1> QED
  BY <1>1, <1>2, <1>3, <1>4, <1>5 DEF Next, vars

LEMMA LoadBegins == Init => LoadInv
<1> SUFFICES ASSUME Init PROVE LoadInv
  OBVIOUS
<1>1. /\ file \in Files /\ pos = 0 /\ v = <<>> /\ verdict \in {"loading", "refused"}
      /\ {"dfa_states", "dfa_init"} \subseteq DOMAIN grammar
      /\ grammar.dfa_states = <<>> /\ grammar.dfa_init = Uninitialised
  BY DEF Init, LoaderInit, Tables, Zero
<1>2. DOMAIN grammar.dfa_states = {} /\ DOMAIN v = {}
  BY <1>1
<1>3. pos \in 0 .. Len(file.records)
  BY <1>1, FilesIndexed
<1>4. DfaTyped(grammar.dfa_states, grammar.dfa_init)
  BY <1>1, <1>2 DEF DfaTyped, CountsRead
<1> QED
  BY <1>1, <1>2, <1>3, <1>4 DEF LoadInv, EntriesTyped, Loaded

\* The loader does not hand over a DFA but with its initial state and with edges that
\* all lead to states of it.
LEMMA DfaThere == LoadInv /\ Loaded => TargetsThere
<1> SUFFICES ASSUME LoadInv, Loaded PROVE TargetsThere
  OBVIOUS
<1> DEFINE d == grammar.dfa_states
<1>1. DfaInit \in DfaRows /\ DfaStates = DfaRows
  BY DEF LoadInv, DfaTyped, DfaInit, DfaStates
<1>2. ASSUME NEW s \in DfaStates PROVE Targets(s) \in Seq(DfaStates)
  <2>1. d[s].edges \in Seq(EdgeRows)
    BY <1>2 DEF LoadInv, DfaTyped, DfaStates
  <2>2. /\ Len(d[s].edges) \in Nat /\ DOMAIN d[s].edges = 1..Len(d[s].edges)
        /\ \A i \in 1..Len(d[s].edges) : d[s].edges[i] \in EdgeRows
    BY <2>1, LenProperties, ElementOfSeq
  <2>3. Targets(s) = [i \in 1..Len(d[s].edges) |-> d[s].edges[i].target]
    BY <2>2 DEF Targets
  <2>4. \A i \in 1..Len(d[s].edges) : d[s].edges[i].target \in DfaStates
    BY <1>1, <2>2 DEF EdgeRows
  <2> HIDE DEF d
  <2> QED
    BY <2>2, <2>3, <2>4, IsASeq
<1> QED
  BY <1>1, <1>2 DEF TargetsThere

\* What Grammar::LoadBuffer hands over to ProcessAfterLoad is a DFA with its initial state
\* and with edges that all lead to states of it, whatever the order of its records, for
\* every file whose indices are those of its counts, a file cut short included.
THEOREM DfaAlwaysThere == Spec => [](Loaded => TargetsThere)
<1> QED
  BY LoadBegins, LoadKeeps, DfaThere, PTL DEF Spec
-----------------------------------------------------------------------------
(* What a record of a row leaves in v, and the row that is built of it.    *)

LEMMA WordBack == \A x \in Units : Word(Int16(x)) = x
<1> SUFFICES ASSUME NEW x \in Units PROVE Word(Int16(x)) = x
  OBVIOUS
<1>0. x \in Nat /\ x <= 65535
  BY UnitRange
<1>3. \A y \in Nat : y <= 65535 => y % 65536 = y
  OBVIOUS
<1>4. \A y \in Nat : 32768 <= y /\ y <= 65535 => (y - 65536) % 65536 = y
  OBVIOUS
<1>1. CASE x < 32768
  BY <1>0, <1>1, <1>3 DEF Word, Int16
<1>2. CASE ~(x < 32768)
  <2>1. Int16(x) = x - 65536 /\ 32768 <= x
    BY <1>0, <1>2 DEF Int16
  <2> HIDE DEF Int16
  <2>2. (x - 65536) % 65536 = x
    BY <1>0, <2>1, <1>4
  <2> QED
    BY <2>1, <2>2 DEF Word
<1> QED
  BY <1>1, <1>2

LEMMA Whole16 == \A x \in Units : Int16(x) \in Int
BY SMTT(40) DEF Units, Int16

LEMMA NothingBefore ==
  ASSUME NEW n \in Nat, NEW f, DOMAIN f = 1..n, f = [i \in 1..n |-> f[i]]
  PROVE  <<>> \o f = f
<1> DEFINE S == {f[i] : i \in 1..n}
<1>1. \A i \in 1..n : f[i] \in S
  OBVIOUS
<1> HIDE DEF S
<1>2. f \in Seq(S)
  BY <1>1, IsASeq
<1> QED
  BY <1>2, ConcatEmptySeq

\* The entries of the record that is read, one by one.
LEMMA RecordRead ==
  ASSUME LoadInv, NEW kind \in Kinds, Reads(kind)
  PROVE  LET r == Record(pos + 1)
         IN /\ KindOf(r) = kind /\ Understood(r) /\ pos + 1 \in 1..Len(file.records)
            /\ value_count = Last_(r) + 1 /\ Last_(r) \in Nat
            /\ \A i \in 0..Last_(r) :
                 /\ r.entries[i + 1].type = "I" => num(i) = Number(r, i)
                 /\ r.entries[i + 1].type = "S" => v'[i].v_str = Utf8(Stored(r, i))
                 /\ r.entries[i + 1].type = "B" => v'[i].v_bool = Stored(r, i)
<1> DEFINE r == Record(pos + 1)
           old(i) == IF i \in DOMAIN v THEN v[i] ELSE ZeroEntry
           D == (0 .. Len(Entries) - 1) \cup DOMAIN v
<1>1. /\ KindOf(r) = kind /\ Entries = r.entries /\ Len(Entries) \in Nat \ {0}
      /\ \A i \in 0 .. Len(Entries) - 1 :
           Entries[i + 1].type = "I" => num(i) = Int16(Entries[i + 1].stored)
  BY ReadsRecord
<1>2. More /\ ReadEntries /\ AllRead
  BY DEF Reads
<1>3. pos + 1 \in 1..Len(file.records) /\ Understood(r)
  BY <1>1, <1>2, RecordThere DEF Understood, AllRead
<1>4. Last_(r) = Len(Entries) - 1 /\ Last_(r) \in Nat /\ value_count = Last_(r) + 1
  BY <1>1 DEF Last_, value_count
<1>5. \A i : DOMAIN old(i) = EntryFields
  BY DEF LoadInv, EntriesTyped, ZeroEntry, EntryFields
<1>6. v' = [i \in D |-> IF i < Len(Entries) THEN ReadValue(old(i), Entries[i + 1]) ELSE v[i]]
  BY <1>2 DEF ReadEntries
<1>7. \A i \in 0 .. Len(Entries) - 1 : v'[i] = ReadValue(old(i), Entries[i + 1])
  BY <1>1, <1>6
<1> HIDE DEF old, r
<1>8. ASSUME NEW i \in 0..Last_(r)
      PROVE  /\ r.entries[i + 1].type = "I" => num(i) = Number(r, i)
             /\ r.entries[i + 1].type = "S" => v'[i].v_str = Utf8(Stored(r, i))
             /\ r.entries[i + 1].type = "B" => v'[i].v_bool = Stored(r, i)
  <2>1. i \in 0 .. Len(Entries) - 1 /\ Entries[i + 1] = r.entries[i + 1]
    BY <1>1, <1>4
  <2>2. v'[i] = ReadValue(old(i), r.entries[i + 1])
    BY <1>7, <2>1
  <2>3. /\ r.entries[i + 1].type = "S" => v'[i].v_str = Utf8(r.entries[i + 1].stored)
        /\ r.entries[i + 1].type = "B" => v'[i].v_bool = r.entries[i + 1].stored
    BY <1>5, <2>2, ValueRead
  <2>4. r.entries[i + 1].type = "I" => num(i) = Int16(r.entries[i + 1].stored)
    BY <1>1, <2>1
  <2> QED
    BY <2>3, <2>4 DEF Number, Stored
<1> QED
  BY <1>1, <1>3, <1>4, <1>8 DEF r

\* What its numbers are in the record that says a row.
LEMMA NumbersRead ==
  ASSUME LoadInv, NEW kind \in Kinds, Reads(kind), WellTyped(Record(pos + 1)),
         NEW i \in NumberPlaces(Record(pos + 1)) \cap Nat
  PROVE  num(i) = Number(Record(pos + 1), i) /\ Stored(Record(pos + 1), i) \in Units
<1> DEFINE r == Record(pos + 1)
<1>1. i <= Last_(r) /\ r.entries[i + 1].type = "I" /\ Stored(r, i) \in Units
  BY DEF WellTyped
<1>2. Last_(r) \in Nat
  BY DEF WellTyped
<1>3. i \in 0..Last_(r)
  BY <1>1, <1>2
<1> QED
  BY <1>1, <1>3, RecordRead

\* rows with their numbers, and with their names decoded
LEMMA RowForms ==
  /\ \A i, a, b : Numbered(i, [uniplane |-> a, ranges |-> b])
                    = [index |-> i, uniplane |-> a, ranges |-> b]
  /\ \A i, a, b : Numbered(i, [name |-> a, type |-> b]) = [index |-> i, name |-> a, type |-> b]
  /\ \A i, a, b : Numbered(i, [head |-> a, handles |-> b])
                    = [index |-> i, head |-> a, handles |-> b]
  /\ \A i, a, b : Numbered(i, [accept_symbol |-> a, edges |-> b])
                    = [index |-> i, accept_symbol |-> a, edges |-> b]
  /\ \A i, a : Numbered(i, [actions |-> a]) = [index |-> i, actions |-> a]
<1>1. \A i, a, b : Numbered(i, [uniplane |-> a, ranges |-> b])
                    = [index |-> i, uniplane |-> a, ranges |-> b]
  BY DEF Numbered
<1>2. \A i, a, b : Numbered(i, [name |-> a, type |-> b]) = [index |-> i, name |-> a, type |-> b]
  BY DEF Numbered
<1>3. \A i, a, b : Numbered(i, [head |-> a, handles |-> b])
                    = [index |-> i, head |-> a, handles |-> b]
  BY DEF Numbered
<1>4. \A i, a, b : Numbered(i, [accept_symbol |-> a, edges |-> b])
                    = [index |-> i, accept_symbol |-> a, edges |-> b]
  BY DEF Numbered
<1>5. \A i, a : Numbered(i, [actions |-> a]) = [index |-> i, actions |-> a]
  BY DEF Numbered
<1> QED
  BY <1>1, <1>2, <1>3, <1>4, <1>5

GroupRow(i, n, a, b, c, d, e, f) ==
  [index |-> i, name |-> n, container |-> a, start |-> b, end |-> c, advance_mode |-> d,
   ending_mode |-> e, nesting_groups |-> f]

LEMMA GroupForm ==
  \A i, n, a, b, c, d, e, f :
    Numbered(i, [name |-> n, container |-> a, start |-> b, end |-> c, advance_mode |-> d,
                 ending_mode |-> e, nesting_groups |-> f]) = GroupRow(i, n, a, b, c, d, e, f)
BY DEF Numbered, GroupRow

LEMMA DecodedForms ==
  /\ \A row : "name" \notin DOMAIN row => Decoded(row) = row
  /\ \A i, n, a : Decoded([index |-> i, name |-> n, type |-> a])
                    = [index |-> i, name |-> Decode(n), type |-> a]
  /\ \A i, n, a, b, c, d, e, f :
       Decoded(GroupRow(i, n, a, b, c, d, e, f)) = GroupRow(i, Decode(n), a, b, c, d, e, f)
<1>1. \A row : "name" \notin DOMAIN row => Decoded(row) = row
  BY DEF Decoded
<1>2. \A i, n, a : Decoded([index |-> i, name |-> n, type |-> a])
                    = [index |-> i, name |-> Decode(n), type |-> a]
  BY DEF Decoded
<1>3. \A i, n, a, b, c, d, e, f :
       Decoded(GroupRow(i, n, a, b, c, d, e, f)) = GroupRow(i, Decode(n), a, b, c, d, e, f)
  BY DEF Decoded, GroupRow
<1> QED
  BY <1>1, <1>2, <1>3

LEMMA CharsetIs ==
  ASSUME LoadInv, Reads("c"), WellTyped(Record(pos + 1))
  PROVE  Decoded([index |-> num(1), uniplane |-> num(2),
                  ranges |-> <<>> \o Several(num(3), LAMBDA i :
                                <<Word(num(5 + 2 * i)), Word(num(6 + 2 * i))>>)])
           = Numbered(num(1), RowSaid(Record(pos + 1)))
<1> DEFINE r == Record(pos + 1)
           n == num(3)
           read == Several(n, LAMBDA i : <<Word(num(5 + 2 * i)), Word(num(6 + 2 * i))>>)
<1>1. "c" \in Kinds /\ KindOf(r) = "c"
  BY RecordRead DEF Kinds
<1>2. Number(r, 3) \in Nat
  BY <1>1 DEF WellTyped
<1>3. NumberPlaces(r) = {1, 2, 3} \cup 5 .. (4 + 2 * Number(r, 3))
  BY <1>1 DEF NumberPlaces
<1>4. \A i \in {1, 2, 3} : num(i) = Number(r, i)
  BY <1>1, <1>3, NumbersRead
<1>5. n = Number(r, 3) /\ n \in Nat
  BY <1>2, <1>4
<1>6. read = [k \in 1..n |-> <<Word(num(5 + 2 * (k - 1))), Word(num(6 + 2 * (k - 1)))>>]
  BY DEF Several
<1> HIDE DEF n, read
<1>7. ASSUME NEW k \in 1..n
      PROVE  /\ Word(num(5 + 2 * (k - 1))) = Stored(r, 3 + 2 * k)
             /\ Word(num(6 + 2 * (k - 1))) = Stored(r, 4 + 2 * k)
  <2>1. /\ 5 + 2 * (k - 1) = 3 + 2 * k /\ 6 + 2 * (k - 1) = 4 + 2 * k
        /\ 3 + 2 * k \in 5 .. (4 + 2 * n) /\ 4 + 2 * k \in 5 .. (4 + 2 * n)
    BY <1>5
  <2>2. 3 + 2 * k \in NumberPlaces(r) \cap Nat /\ 4 + 2 * k \in NumberPlaces(r) \cap Nat
    BY <1>3, <1>5, <2>1
  <2>3. /\ num(3 + 2 * k) = Int16(Stored(r, 3 + 2 * k)) /\ Stored(r, 3 + 2 * k) \in Units
        /\ num(4 + 2 * k) = Int16(Stored(r, 4 + 2 * k)) /\ Stored(r, 4 + 2 * k) \in Units
    BY <1>1, <2>2, NumbersRead DEF Number
  <2> QED
    BY <2>1, <2>3, WordBack
<1>8. read = [k \in 1..n |-> <<Stored(r, 3 + 2 * k), Stored(r, 4 + 2 * k)>>]
  BY <1>6, <1>7
<1>9. <<>> \o read = read
  BY <1>5, <1>8, NothingBefore
<1>10. RowSaid(r) = [uniplane |-> num(2), ranges |-> read]
  BY <1>1, <1>4, <1>5, <1>8 DEF RowSaid, CharsetSaid
<1> DEFINE row == [index |-> num(1), uniplane |-> num(2), ranges |-> read]
<1>11. Decoded(row) = row
  <2>1. "name" \notin DOMAIN row
    OBVIOUS
  <2> QED
    BY <2>1, DecodedForms
<1>12. Numbered(num(1), RowSaid(r)) = row
  BY <1>10, RowForms
<1> QED
  BY <1>9, <1>11, <1>12 DEF read, n

LEMMA SymbolIs ==
  ASSUME LoadInv, Reads("S"), WellTyped(Record(pos + 1))
  PROVE  Decoded([index |-> num(1), name |-> v'[2].v_str, type |-> num(3)])
           = Numbered(num(1), RowSaid(Record(pos + 1)))
<1> DEFINE r == Record(pos + 1)
<1>1. "S" \in Kinds /\ KindOf(r) = "S"
  BY RecordRead DEF Kinds
<1>2. NumberPlaces(r) = {1, 3}
  BY <1>1 DEF NumberPlaces
<1>3. num(3) = Number(r, 3)
  BY <1>1, <1>2, NumbersRead
<1>4. /\ 2 \in 0..Last_(r) /\ r.entries[3].type = "S" /\ Stored(r, 2) \in Seq(Units)
  BY <1>1 DEF WellTyped
<1>5. v'[2].v_str = Utf8(Stored(r, 2))
  <2>1. r.entries[2 + 1].type = "S"
    BY <1>4
  <2> QED
    BY <1>1, <1>4, <2>1, RecordRead
<1>6. Decode(v'[2].v_str) = Stored(r, 2)
  BY <1>4, <1>5, NamesKept
<1>7. RowSaid(r) = [name |-> Stored(r, 2), type |-> num(3)]
  BY <1>1, <1>3 DEF RowSaid, SymbolSaid
<1>8. Numbered(num(1), RowSaid(r)) = [index |-> num(1), name |-> Stored(r, 2), type |-> num(3)]
  BY <1>7, RowForms
<1> QED
  BY <1>6, <1>8, DecodedForms

LEMMA ProductionIs ==
  ASSUME LoadInv, Reads("R"), WellTyped(Record(pos + 1))
  PROVE  Decoded([index |-> num(1), head |-> num(2), handles |-> <<>> \o HandlesRead])
           = Numbered(num(1), RowSaid(Record(pos + 1)))
<1> DEFINE r == Record(pos + 1)
           n == value_count - 4
<1>1. "R" \in Kinds /\ KindOf(r) = "R"
  BY RecordRead DEF Kinds
<1>2. Last_(r) \in Nat /\ Last_(r) >= 3
  BY <1>1 DEF WellTyped
<1>3. NumberPlaces(r) = {1, 2} \cup 4 .. Last_(r)
  BY <1>1 DEF NumberPlaces
<1>4. \A i \in {1, 2} : num(i) = Number(r, i)
  BY <1>1, <1>3, NumbersRead
<1>5. n = Last_(r) - 3 /\ n \in Nat
  <2>1. value_count = Last_(r) + 1
    BY <1>1, RecordRead
  <2> QED
    BY <1>2, <2>1
<1>6. HandlesRead = [k \in 1..n |-> num(4 + (k - 1))]
  BY DEF HandlesRead, Several
<1> HIDE DEF n
<1>7. ASSUME NEW k \in 1..n PROVE num(4 + (k - 1)) = Number(r, 3 + k)
  <2>1. 4 + (k - 1) = 3 + k /\ 3 + k \in 4 .. Last_(r) /\ 3 + k \in Nat
    BY <1>2, <1>5
  <2>2. 3 + k \in NumberPlaces(r) \cap Nat
    BY <1>3, <2>1
  <2> QED
    BY <1>1, <2>1, <2>2, NumbersRead
<1>8. HandlesRead = [k \in 1..n |-> Number(r, 3 + k)]
  BY <1>6, <1>7
<1>9. <<>> \o HandlesRead = HandlesRead
  BY <1>5, <1>8, NothingBefore
<1>10. RowSaid(r) = [head |-> num(2), handles |-> HandlesRead]
  BY <1>1, <1>4, <1>5, <1>8 DEF RowSaid, ProductionSaid
<1> DEFINE row == [index |-> num(1), head |-> num(2), handles |-> HandlesRead]
<1>11. Decoded(row) = row
  <2>1. "name" \notin DOMAIN row
    OBVIOUS
  <2> QED
    BY <2>1, DecodedForms
<1>12. Numbered(num(1), RowSaid(r)) = row
  BY <1>10, RowForms
<1> QED
  BY <1>9, <1>11, <1>12

LEMMA GroupIs ==
  ASSUME LoadInv, Reads("g"), WellTyped(Record(pos + 1))
  PROVE  Decoded([index |-> num(1), name |-> v'[2].v_str, container |-> num(3), start |-> num(4),
                  end |-> num(5), advance_mode |-> num(6), ending_mode |-> num(7),
                  nesting_groups |-> <<>> \o Several(num(9), LAMBDA i : num(10 + i))])
           = Numbered(num(1), RowSaid(Record(pos + 1)))
<1> DEFINE r == Record(pos + 1)
           n == num(9)
           read == Several(n, LAMBDA i : num(10 + i))
<1>1. "g" \in Kinds /\ KindOf(r) = "g"
  BY RecordRead DEF Kinds
<1>2. Number(r, 9) \in Nat
  BY <1>1 DEF WellTyped
<1>3. NumberPlaces(r) = {1, 3, 4, 5, 6, 7, 9} \cup 10 .. (9 + Number(r, 9))
  BY <1>1 DEF NumberPlaces
<1>4. \A i \in {1, 3, 4, 5, 6, 7, 9} : num(i) = Number(r, i)
  BY <1>1, <1>3, NumbersRead
<1>5. n = Number(r, 9) /\ n \in Nat
  BY <1>2, <1>4
<1>6. read = [k \in 1..n |-> num(10 + (k - 1))]
  BY DEF Several
<1> HIDE DEF n, read
<1>7. ASSUME NEW k \in 1..n PROVE num(10 + (k - 1)) = Number(r, 9 + k)
  <2>1. 10 + (k - 1) = 9 + k /\ 9 + k \in 10 .. (9 + n) /\ 9 + k \in Nat
    BY <1>5
  <2>2. 9 + k \in NumberPlaces(r) \cap Nat
    BY <1>3, <1>5, <2>1
  <2> QED
    BY <1>1, <2>1, <2>2, NumbersRead
<1>8. read = [k \in 1..n |-> Number(r, 9 + k)]
  BY <1>6, <1>7
<1>9. <<>> \o read = read
  BY <1>5, <1>8, NothingBefore
<1>10. /\ 2 \in 0..Last_(r) /\ r.entries[3].type = "S" /\ Stored(r, 2) \in Seq(Units)
  BY <1>1 DEF WellTyped
<1>11. v'[2].v_str = Utf8(Stored(r, 2))
  <2>1. r.entries[2 + 1].type = "S"
    BY <1>10
  <2> QED
    BY <1>1, <1>10, <2>1, RecordRead
<1>12. Decode(v'[2].v_str) = Stored(r, 2)
  BY <1>10, <1>11, NamesKept
<1>13. RowSaid(r) = [name |-> Stored(r, 2), container |-> num(3), start |-> num(4),
                     end |-> num(5), advance_mode |-> num(6), ending_mode |-> num(7),
                     nesting_groups |-> read]
  <2>1. RowSaid(r) = GroupSaid(r)
    BY <1>1 DEF RowSaid
  <2> QED
    BY <1>4, <1>5, <1>8, <2>1 DEF GroupSaid
<1>14. Numbered(num(1), RowSaid(r))
         = GroupRow(num(1), Stored(r, 2), num(3), num(4), num(5), num(6), num(7), read)
  BY <1>13, GroupForm
<1>15. Decoded(GroupRow(num(1), v'[2].v_str, num(3), num(4), num(5), num(6), num(7), read))
         = Numbered(num(1), RowSaid(r))
  BY <1>12, <1>14, DecodedForms
<1> QED
  BY <1>9, <1>15 DEF read, n, GroupRow

LEMMA DfaStateIs ==
  ASSUME LoadInv, Reads("D"), WellTyped(Record(pos + 1))
  PROVE  Decoded([index |-> num(1), accept_symbol |-> IF v'[2].v_bool THEN num(3) ELSE -1,
                  edges |-> <<>> \o Several((value_count - 5) \div 3, LAMBDA i :
                              [charset |-> num(5 + 3 * i), target |-> num(6 + 3 * i)])])
           = Numbered(num(1), RowSaid(Record(pos + 1)))
<1> DEFINE r == Record(pos + 1)
           n == (value_count - 5) \div 3
           read == Several(n, LAMBDA i : [charset |-> num(5 + 3 * i), target |-> num(6 + 3 * i)])
<1>1. "D" \in Kinds /\ KindOf(r) = "D"
  BY RecordRead DEF Kinds
<1>2. /\ Last_(r) \in Nat /\ Last_(r) >= 4 /\ r.entries[3].type = "B"
  BY <1>1 DEF WellTyped
<1>3. NumberPlaces(r) = {1, 3} \cup {i \in 5 .. Last_(r) : i % 3 # 1}
  BY <1>1 DEF NumberPlaces
<1>4. \A i \in {1, 3} : num(i) = Number(r, i)
  BY <1>1, <1>3, NumbersRead
<1>5. /\ n = (Last_(r) - 4) \div 3 /\ n \in Nat /\ 3 * n <= Last_(r) - 4
  <2>1. value_count - 5 = Last_(r) - 4 /\ Last_(r) - 4 \in Nat
    <3>1. value_count = Last_(r) + 1
      BY <1>1, RecordRead
    <3> QED
      BY <1>2, <3>1
  <2>2. \A a \in Nat : a \div 3 \in Nat /\ 3 * (a \div 3) <= a
    OBVIOUS
  <2> QED
    BY <2>1, <2>2
<1>6. read = [k \in 1..n |-> [charset |-> num(5 + 3 * (k - 1)), target |-> num(6 + 3 * (k - 1))]]
  BY DEF Several
<1> HIDE DEF n, read
<1>7. ASSUME NEW k \in 1..n
      PROVE  /\ num(5 + 3 * (k - 1)) = Number(r, 2 + 3 * k)
             /\ num(6 + 3 * (k - 1)) = Number(r, 3 + 3 * k)
  <2>1. /\ 5 + 3 * (k - 1) = 2 + 3 * k /\ 6 + 3 * (k - 1) = 3 + 3 * k
        /\ 2 + 3 * k \in 5 .. Last_(r) /\ 3 + 3 * k \in 5 .. Last_(r)
        /\ 2 + 3 * k \in Nat /\ 3 + 3 * k \in Nat
    BY <1>2, <1>5
  <2>2. (2 + 3 * k) % 3 # 1 /\ (3 + 3 * k) % 3 # 1
    <3>1. \A a \in Nat : (2 + 3 * a) % 3 = 2 /\ (3 + 3 * a) % 3 = 0
      OBVIOUS
    <3> QED
      BY <3>1, <1>5
  <2>3. 2 + 3 * k \in NumberPlaces(r) \cap Nat /\ 3 + 3 * k \in NumberPlaces(r) \cap Nat
    BY <1>3, <2>1, <2>2
  <2> QED
    BY <1>1, <2>1, <2>3, NumbersRead
<1>8. read = [k \in 1..n |-> [charset |-> Number(r, 2 + 3 * k), target |-> Number(r, 3 + 3 * k)]]
  BY <1>6, <1>7
<1>9. <<>> \o read = read
  BY <1>5, <1>8, NothingBefore
<1>10. v'[2].v_bool = Stored(r, 2)
  <2>1. r.entries[2 + 1].type = "B" /\ 2 \in 0..Last_(r)
    BY <1>2
  <2> QED
    BY <1>1, <2>1, RecordRead
<1> DEFINE accept == IF v'[2].v_bool THEN num(3) ELSE -1
           row == [index |-> num(1), accept_symbol |-> accept, edges |-> read]
<1>11. RowSaid(r) = [accept_symbol |-> accept, edges |-> read]
  <2>1. RowSaid(r) = DfaStateSaid(r)
    BY <1>1 DEF RowSaid
  <2> QED
    BY <1>4, <1>5, <1>8, <1>10, <2>1 DEF DfaStateSaid
<1> HIDE DEF accept
<1>12. Decoded(row) = row
  <2>1. "name" \notin DOMAIN row
    OBVIOUS
  <2> QED
    BY <2>1, DecodedForms
<1>13. Numbered(num(1), RowSaid(r)) = row
  BY <1>11, RowForms
<1> QED
  BY <1>9, <1>12, <1>13 DEF read, n, accept

LEMMA LargestOfOne == ASSUME NEW i \in Int PROVE Max({i}) = i
BY DEF Max

LEMMA LalrStateIs ==
  ASSUME LoadInv, Reads("L"), WellTyped(Record(pos + 1))
  PROVE  Decoded([index |-> num(1), actions |-> ActionsRead(<<>>)])
           = Numbered(num(1), RowSaid(Record(pos + 1)))
<1> DEFINE r == Record(pos + 1)
           n == (value_count - 3) \div 4
           read == 0 .. n - 1
           On(x) == {i \in read : num(3 + 4 * i) = x}
<1>1. "L" \in Kinds /\ KindOf(r) = "L"
  BY RecordRead DEF Kinds
<1>2. /\ Last_(r) \in Nat /\ Last_(r) >= 2
      /\ \A j, k \in ActionPlaces(r) : Number(r, 4 * j - 1) = Number(r, 4 * k - 1) => j = k
  BY <1>1 DEF WellTyped
<1>3. NumberPlaces(r) = {1} \cup {i \in 3 .. Last_(r) : i % 4 # 2}
  BY <1>1 DEF NumberPlaces
<1>4. num(1) = Number(r, 1)
  BY <1>1, <1>3, NumbersRead
<1>5. /\ n = (Last_(r) - 2) \div 4 /\ n \in Nat /\ 4 * n <= Last_(r) - 2
  <2>1. value_count - 3 = Last_(r) - 2 /\ Last_(r) - 2 \in Nat
    <3>1. value_count = Last_(r) + 1
      BY <1>1, RecordRead
    <3> QED
      BY <1>2, <3>1
  <2>2. \A a \in Nat : a \div 4 \in Nat /\ 4 * (a \div 4) <= a
    OBVIOUS
  <2> QED
    BY <2>1, <2>2
<1>6. ActionPlaces(r) = 1..n
  BY <1>5 DEF ActionPlaces
<1>7. ActionsRead(<<>>) =
        [x \in DOMAIN <<>> \cup {num(3 + 4 * i) : i \in read} |->
           IF On(x) = {} THEN <<>>[x]
           ELSE [type |-> num(4 + 4 * Max(On(x))), target |-> num(5 + 4 * Max(On(x)))]]
  BY DEF ActionsRead
<1> HIDE DEF n
<1>8. ASSUME NEW k \in 1..n
      PROVE  /\ k - 1 \in read
             /\ num(3 + 4 * (k - 1)) = Number(r, 4 * k - 1)
             /\ num(4 + 4 * (k - 1)) = Number(r, 4 * k)
             /\ num(5 + 4 * (k - 1)) = Number(r, 4 * k + 1)
  <2>1. /\ 3 + 4 * (k - 1) = 4 * k - 1 /\ 4 + 4 * (k - 1) = 4 * k /\ 5 + 4 * (k - 1) = 4 * k + 1
        /\ 4 * k - 1 \in 3 .. Last_(r) /\ 4 * k \in 3 .. Last_(r) /\ 4 * k + 1 \in 3 .. Last_(r)
        /\ 4 * k - 1 \in Nat /\ 4 * k \in Nat /\ 4 * k + 1 \in Nat /\ k - 1 \in read
    BY <1>2, <1>5
  <2>2. (4 * k - 1) % 4 # 2 /\ (4 * k) % 4 # 2 /\ (4 * k + 1) % 4 # 2
    <3>1. \A a \in Int : (4 * a - 1) % 4 = 3 /\ (4 * a) % 4 = 0 /\ (4 * a + 1) % 4 = 1
      OBVIOUS
    <3> QED
      BY <3>1, <1>5
  <2>3. /\ 4 * k - 1 \in NumberPlaces(r) \cap Nat /\ 4 * k \in NumberPlaces(r) \cap Nat
        /\ 4 * k + 1 \in NumberPlaces(r) \cap Nat
    BY <1>3, <2>1, <2>2
  <2> QED
    BY <1>1, <2>1, <2>3, NumbersRead
<1>9. \A i \in read : i + 1 \in 1..n /\ (i + 1) - 1 = i /\ i \in Int
  BY <1>5
<1>10. {num(3 + 4 * i) : i \in read} = {Number(r, 4 * k - 1) : k \in 1..n}
  <2>1. \A i \in read : num(3 + 4 * i) = Number(r, 4 * (i + 1) - 1)
    <3> TAKE i \in read
    <3>1. i + 1 \in 1..n /\ (i + 1) - 1 = i
      BY <1>9
    <3>2. num(3 + 4 * ((i + 1) - 1)) = Number(r, 4 * (i + 1) - 1)
      BY <1>8, <3>1
    <3> QED
      BY <3>1, <3>2
  <2>2. \A k \in 1..n : k - 1 \in read /\ num(3 + 4 * (k - 1)) = Number(r, 4 * k - 1)
    BY <1>8
  <2> HIDE DEF read, r
  <2> QED
    BY <1>9, <2>1, <2>2
<1>11. ASSUME NEW k \in 1..n
       PROVE  LET x == Number(r, 4 * k - 1)
              IN On(x) = {k - 1} /\ Max(On(x)) = k - 1 /\ ActionPlace(r, x) = k
  <2> DEFINE x == Number(r, 4 * k - 1)
  <2>1. k - 1 \in read /\ num(3 + 4 * (k - 1)) = x /\ k - 1 \in Int
    BY <1>8, <1>5
  <2>2. ASSUME NEW i \in read, num(3 + 4 * i) = x PROVE i = k - 1
    <3>1. i + 1 \in 1..n /\ (i + 1) - 1 = i /\ i \in Int
      BY <1>9
    <3>2. num(3 + 4 * ((i + 1) - 1)) = Number(r, 4 * (i + 1) - 1)
      BY <1>8, <3>1
    <3>3. Number(r, 4 * (i + 1) - 1) = Number(r, 4 * k - 1)
      BY <2>2, <3>1, <3>2
    <3>4. i + 1 = k
      BY <1>2, <1>6, <3>1, <3>3
    <3> QED
      BY <3>1, <3>4
  <2>3. \A j \in ActionPlaces(r) : Number(r, 4 * j - 1) = x => j = k
    BY <1>2, <1>6
  <2>4. k \in ActionPlaces(r) /\ Number(r, 4 * k - 1) = x
    BY <1>6
  <2> HIDE DEF x
  <2>5. On(x) = {k - 1}
    BY <2>1, <2>2
  <2>6. Max(On(x)) = k - 1
    BY <2>1, <2>5, LargestOfOne
  <2>7. ActionPlace(r, x) = k
    BY <2>3, <2>4 DEF ActionPlace
  <2> QED
    BY <2>5, <2>6, <2>7 DEF x
<1> DEFINE X == {Number(r, 4 * k - 1) : k \in 1..n}
<1>12. ASSUME NEW x \in X
       PROVE  (IF On(x) = {} THEN <<>>[x]
               ELSE [type |-> num(4 + 4 * Max(On(x))), target |-> num(5 + 4 * Max(On(x)))])
                = [type   |-> Number(r, 4 * ActionPlace(r, x)),
                   target |-> Number(r, 4 * ActionPlace(r, x) + 1)]
  <2>1. PICK k \in 1..n : x = Number(r, 4 * k - 1)
    OBVIOUS
  <2>2. On(x) # {} /\ Max(On(x)) = k - 1 /\ ActionPlace(r, x) = k
    BY <1>11, <2>1
  <2>3. num(4 + 4 * (k - 1)) = Number(r, 4 * k) /\ num(5 + 4 * (k - 1)) = Number(r, 4 * k + 1)
    BY <1>8
  <2> HIDE DEF On, r
  <2> QED
    BY <2>2, <2>3
<1>13. DOMAIN <<>> \cup {num(3 + 4 * i) : i \in read} = X
  BY <1>10
<1>14. LalrStateSaid(r) =
         [actions |-> [x \in X |-> [type   |-> Number(r, 4 * ActionPlace(r, x)),
                                    target |-> Number(r, 4 * ActionPlace(r, x) + 1)]]]
  BY <1>6 DEF LalrStateSaid
<1> HIDE DEF X, On, read, r
<1>15. RowSaid(r) = [actions |-> ActionsRead(<<>>)]
  <2>1. RowSaid(r) = LalrStateSaid(r)
    BY <1>1 DEF RowSaid
  <2> QED
    BY <1>7, <1>12, <1>13, <1>14, <2>1
<1> DEFINE row == [index |-> num(1), actions |-> ActionsRead(<<>>)]
<1>16. Decoded(row) = row
  <2>1. "name" \notin DOMAIN row
    OBVIOUS
  <2> QED
    BY <2>1, DecodedForms
<1>17. Numbered(num(1), RowSaid(r)) = row
  BY <1>15, RowForms
<1> QED
  BY <1>16, <1>17 DEF r
-----------------------------------------------------------------------------
(* The tables, row by row.                                                 *)

\* the records read so far: one that says row i of t, one of the initial states, and
\* how many properties
Said(t, i)    == \E k \in 1..pos : SaysRow(Record(k), t, i)
InitialRead   == \E k \in 1..pos : KindOf(Record(k)) = "I"
PropertiesRead == {k \in 1..pos : KindOf(Record(k)) = "p"}

RowRight(t, i, row) == Decoded(row) = Numbered(i, file.of[t][i])

Vector(s) == s \in Seq({s[i] : i \in DOMAIN s})

\* in any file a row is untouched or right, and in a whole one it is untouched only as
\* long as no record has said it
RowsInv ==
  \A t \in Tables : \A i \in DOMAIN grammar[t] :
    \/ grammar[t][i] = Zero[t] /\ (file.whole => ~Said(t, i))
    \/ Said(t, i) /\ RowRight(t, i, grammar[t][i])

WholeInv ==
  file.whole =>
    /\ verdict \notin {"refused", "undefined"}
    /\ Loaded => pos = Len(file.records)
    /\ CountsRead => \A t \in Tables : DOMAIN grammar[t] = DOMAIN file.of[t]
    /\ InitialRead => /\ grammar.dfa_init = file.of.dfa_init
                      /\ grammar.lalr_init = file.of.lalr_init
    /\ Vector(grammar.properties)
    /\ Len(grammar.properties) = Cardinality(PropertiesRead)

Members == Tables \cup {"properties", "dfa_init", "lalr_init"}

RowInv == LoadInv /\ DOMAIN grammar = Members /\ RowsInv /\ WholeInv

LEMMA TableNames ==
  /\ Tables = {"charsets", "symbols", "symbol_groups", "productions", "dfa_states", "lalr_states"}
  /\ DOMAIN TableOf = {"c", "S", "g", "R", "D", "L"}
  /\ \A x \in DOMAIN TableOf : TableOf[x] \in Tables /\ x \in Kinds /\ x # "t" /\ x # "I" /\ x # "p"
BY DEF Tables, Zero, TableOf, Kinds

\* what FilesWritten says of the records of this file
LEMMA RecordWritten ==
  ASSUME file \in Files, NEW k \in 1..Len(file.records), Understood(Record(k)),
         KindOf(Record(k)) \in DOMAIN TableOf
  PROVE  LET r == Record(k)  t == TableOf[KindOf(r)]  n == Number(r, 1)
         IN /\ WellTyped(r) /\ n \in DOMAIN file.of[t] /\ file.of[t][n] = RowSaid(r)
            /\ \A j \in 1 .. k - 1 : ~SaysRow(Record(j), t, n)
BY FilesWritten DEF Record

LEMMA WholeRecord ==
  ASSUME file \in Files, file.whole, NEW k \in 1..Len(file.records)
  PROVE  /\ Understood(Record(k))
         /\ KindOf(Record(k)) \in DOMAIN TableOf =>
              \E j \in 1 .. k - 1 : KindOf(Record(j)) = "t"
         /\ KindOf(Record(k)) = "t" => \A t \in Tables :
              /\ CountPlace[t] + 1 \in DOMAIN Record(k).entries
              /\ Record(k).entries[CountPlace[t] + 1].type = "I"
              /\ DOMAIN file.of[t] = 0 .. Number(Record(k), CountPlace[t]) - 1
         /\ KindOf(Record(k)) = "I" =>
              /\ Len(Record(k).entries) = 3 /\ Record(k).entries[2].type = "I"
              /\ Record(k).entries[3].type = "I"
              /\ Number(Record(k), 1) = file.of.dfa_init
              /\ Number(Record(k), 2) = file.of.lalr_init
<1>1. \A i \in 1..Len(file.records) :
        LET r == file.records[i]
        IN /\ Understood(r)
           /\ KindOf(r) \in DOMAIN TableOf =>
                \E j \in 1 .. i - 1 : KindOf(file.records[j]) = "t"
           /\ KindOf(r) = "t" => \A t \in Tables :
                /\ CountPlace[t] + 1 \in DOMAIN r.entries
                /\ r.entries[CountPlace[t] + 1].type = "I"
                /\ DOMAIN file.of[t] = 0 .. Number(r, CountPlace[t]) - 1
           /\ KindOf(r) = "I" =>
                /\ Len(r.entries) = 3 /\ r.entries[2].type = "I" /\ r.entries[3].type = "I"
                /\ Number(r, 1) = file.of.dfa_init /\ Number(r, 2) = file.of.lalr_init
  BY FilesWritten, ZenonT(40)
<1> QED
  BY <1>1 DEF Record

LEMMA WholeFile ==
  ASSUME file \in Files, file.whole
  PROVE  /\ file.header = Header
         /\ \A t \in Tables : \A n \in DOMAIN file.of[t] :
              \E k \in 1..Len(file.records) : SaysRow(Record(k), t, n)
         /\ \E k \in 1..Len(file.records) : KindOf(Record(k)) = "I"
         /\ Len(file.of.properties)
              = Cardinality({k \in 1..Len(file.records) : KindOf(Record(k)) = "p"})
BY FilesWritten DEF Record

\* in a whole file a row that has been said is there
LEMMA SaidThere ==
  ASSUME RowInv, file.whole, NEW t \in Tables, NEW i, Said(t, i)
  PROVE  CountsRead /\ i \in DOMAIN grammar[t]
<1>1. PICK k \in 1..pos : SaysRow(Record(k), t, i)
  BY DEF Said
<1>2. file \in Files /\ pos \in Nat /\ pos <= Len(file.records) /\ Len(file.records) \in Nat
  BY FilesIndexed DEF RowInv, LoadInv
<1>3. k \in 1..Len(file.records)
  BY <1>2
<1>4. /\ Understood(Record(k)) /\ KindOf(Record(k)) \in DOMAIN TableOf
      /\ TableOf[KindOf(Record(k))] = t /\ Number(Record(k), 1) = i
  BY <1>1 DEF SaysRow
<1>5. PICK j \in 1 .. k - 1 : KindOf(Record(j)) = "t"
  BY <1>2, <1>3, <1>4, WholeRecord
<1>6. j \in 1..pos
  BY <1>2
<1>7. CountsRead
  BY <1>5, <1>6 DEF CountsRead
<1>8. i \in DOMAIN file.of[t]
  BY <1>2, <1>3, <1>4, RecordWritten
<1> QED
  BY <1>7, <1>8 DEF RowInv, WholeInv

\* one record more
LEMMA OneMore ==
  ASSUME LoadInv, NEW kind \in Kinds, Reads(kind)
  PROVE  /\ file' = file /\ verdict = "loading" /\ verdict' = "loading" /\ ~Loaded' /\ pos' = pos + 1
         /\ pos \in Nat
         /\ \A k : Record(k)' = Record(k)
         /\ \A t, i : Said(t, i)' <=> Said(t, i) \/ SaysRow(Record(pos + 1), t, i)
         /\ CountsRead' <=> CountsRead \/ kind = "t"
         /\ InitialRead' <=> InitialRead \/ kind = "I"
         /\ PropertiesRead' = IF kind = "p" THEN PropertiesRead \cup {pos + 1} ELSE PropertiesRead
<1>1. file' = file /\ verdict = "loading" /\ verdict' = "loading" /\ pos' = pos + 1 /\ ~Loaded'
  BY DEF Reads, Loaded
<1>2. \A k : Record(k)' = Record(k)
  BY <1>1 DEF Record
<1>3. pos \in Nat /\ pos + 1 \in 1..Len(file.records) /\ KindOf(Record(pos + 1)) = kind
  BY RecordRead DEF LoadInv
<1>4. \A k : k \in 1..pos' <=> k \in 1..pos \/ k = pos + 1
  BY <1>1, <1>3
<1>5. \A t, i : Said(t, i)' <=> \E k \in 1..pos' : SaysRow(Record(k), t, i)
  BY <1>2 DEF Said, SaysRow, Understood, KindOf, Number, Stored
<1>6. /\ CountsRead' <=> \E k \in 1..pos' : KindOf(Record(k)) = "t"
      /\ InitialRead' <=> \E k \in 1..pos' : KindOf(Record(k)) = "I"
      /\ PropertiesRead' = {k \in 1..pos' : KindOf(Record(k)) = "p"}
  BY <1>2 DEF CountsRead, InitialRead, PropertiesRead, KindOf
<1>7. \A t, i : Said(t, i)' <=> Said(t, i) \/ SaysRow(Record(pos + 1), t, i)
  BY <1>4, <1>5 DEF Said
<1>8. CountsRead' <=> CountsRead \/ kind = "t"
  BY <1>3, <1>4, <1>6 DEF CountsRead
<1>9. InitialRead' <=> InitialRead \/ kind = "I"
  BY <1>3, <1>4, <1>6 DEF InitialRead
<1>10. PropertiesRead' = IF kind = "p" THEN PropertiesRead \cup {pos + 1} ELSE PropertiesRead
  BY <1>3, <1>4, <1>6 DEF PropertiesRead
<1> QED
  BY <1>1, <1>2, <1>3, <1>7, <1>8, <1>9, <1>10

\* A record of a row writes what it says into the row, and nothing else.
LEMMA RowKeeps ==
  ASSUME RowInv, NEW kind \in DOMAIN TableOf, Reads(kind), NEW row, LoadInv',
         grammar' = [grammar EXCEPT ![TableOf[kind]] = [@ EXCEPT ![num(1)] = row]],
         WellTyped(Record(pos + 1)) /\ grammar[TableOf[kind]][num(1)] = Zero[TableOf[kind]] =>
           Decoded(row) = Numbered(num(1), RowSaid(Record(pos + 1)))
  PROVE  RowInv'
<1> DEFINE r == Record(pos + 1)
           t == TableOf[kind]
           n == num(1)
<1>1. kind \in Kinds /\ t \in Tables /\ kind # "t" /\ kind # "I" /\ kind # "p"
  BY TableNames
<1>2. /\ KindOf(r) = kind /\ Understood(r) /\ pos + 1 \in 1..Len(file.records)
  BY <1>1, RecordRead DEF RowInv
<1>3. /\ WellTyped(r) /\ Number(r, 1) \in DOMAIN file.of[t]
      /\ file.of[t][Number(r, 1)] = RowSaid(r)
      /\ \A j \in 1 .. (pos + 1) - 1 : ~SaysRow(Record(j), t, Number(r, 1))
  BY <1>2, RecordWritten DEF RowInv, LoadInv
<1>4. n = Number(r, 1)
  <2>1. 1 \in NumberPlaces(r) \cap Nat
    BY DEF NumberPlaces
  <2> QED
    BY <1>1, <1>3, <2>1, NumbersRead DEF RowInv
<1>5. /\ file' = file /\ verdict' = "loading" /\ ~Loaded' /\ pos' = pos + 1 /\ pos \in Nat
      /\ \A u, i : Said(u, i)' <=> Said(u, i) \/ SaysRow(r, u, i)
      /\ (CountsRead' <=> CountsRead) /\ (InitialRead' <=> InitialRead)
      /\ PropertiesRead' = PropertiesRead
  BY <1>1, OneMore DEF RowInv
<1>6. \A u, i : SaysRow(r, u, i) <=> u = t /\ i = n
  BY <1>1, <1>2, <1>4 DEF SaysRow
<1>7. ~Said(t, n)
  <2>1. (pos + 1) - 1 = pos
    BY <1>5
  <2> QED
    BY <1>3, <1>4, <2>1 DEF Said
<1> HIDE DEF n, r
<1>8. /\ DOMAIN grammar' = Members
      /\ \A x \in Members \ {t} : grammar'[x] = grammar[x]
      /\ grammar'[t] = [grammar[t] EXCEPT ![n] = row]
  <2>1. t \in Members /\ DOMAIN grammar = Members
    BY <1>1 DEF Members, RowInv
  <2>2. grammar' = [grammar EXCEPT ![t] = [@ EXCEPT ![n] = row]]
    BY DEF n
  <2> HIDE DEF t
  <2> QED
    BY <2>1, <2>2
<1>9. \A u \in Tables : DOMAIN grammar'[u] = DOMAIN grammar[u]
  <2> HIDE DEF t
  <2> TAKE u \in Tables
  <2>1. CASE u = t
    BY <1>8, <2>1
  <2>2. CASE u # t
    BY <1>8, <2>2 DEF Members
  <2> QED
    BY <2>1, <2>2
<1>10. RowsInv'
  <2> SUFFICES ASSUME NEW u \in Tables, NEW i \in DOMAIN grammar'[u]
               PROVE  \/ grammar'[u][i] = Zero[u] /\ (file.whole => ~Said(u, i)')
                      \/ Said(u, i)' /\ Decoded(grammar'[u][i]) = Numbered(i, file.of[u][i])
    BY <1>5 DEF RowsInv, RowRight
  <2>0. /\ i \in DOMAIN grammar[u]
        /\ \/ grammar[u][i] = Zero[u] /\ (file.whole => ~Said(u, i))
           \/ Said(u, i) /\ Decoded(grammar[u][i]) = Numbered(i, file.of[u][i])
    BY <1>9 DEF RowInv, RowsInv, RowRight
  <2>1. CASE u = t /\ i = n
    <3>1. grammar'[t][n] = row
      BY <1>1, <1>8, <1>9, <2>1
    <3>2. grammar[t][n] = Zero[t]
      BY <1>7, <2>0, <2>1
    <3>3. Decoded(row) = Numbered(n, file.of[t][n])
      BY <1>3, <1>4, <3>2 DEF n, r
    <3>4. SaysRow(r, u, i)
      BY <1>6, <2>1
    <3>5. Said(u, i)'
      BY <1>5, <3>4
    <3>6. grammar'[u][i] = row /\ Decoded(row) = Numbered(i, file.of[u][i])
      <4> HIDE DEF t
      <4> QED
        BY <2>1, <3>1, <3>3
    <3> QED
      BY <3>5, <3>6
  <2>2. CASE ~(u = t /\ i = n)
    <3>1. grammar'[u][i] = grammar[u][i]
      <4>1. CASE u # t
        BY <1>8, <4>1 DEF Members
      <4>2. CASE u = t /\ i # n
        BY <1>8, <2>0, <4>2
      <4> QED
        BY <2>2, <4>1, <4>2
    <3>2. Said(u, i)' <=> Said(u, i)
      BY <1>5, <1>6, <2>2
    <3> QED
      BY <2>0, <3>1, <3>2
  <2> QED
    BY <2>1, <2>2
<1>11. WholeInv'
  <2>1. /\ grammar'.dfa_init = grammar.dfa_init /\ grammar'.lalr_init = grammar.lalr_init
        /\ grammar'.properties = grammar.properties
    <3>1. "dfa_init" \notin Tables /\ "lalr_init" \notin Tables /\ "properties" \notin Tables
      BY TableNames
    <3> QED
      BY <1>1, <1>8, <3>1 DEF Members
  <2>2. Vector(grammar.properties)' <=> Vector(grammar.properties)
    BY <2>1 DEF Vector
  <2> QED
    BY <1>5, <1>9, <2>1, <2>2 DEF RowInv, WholeInv
<1> QED
  BY <1>8, <1>10, <1>11 DEF RowInv

\* In each record of a row the row is built as the lemmas above say.
LEMMA RowRecordKeeps ==
  ASSUME RowInv, LoadInv',
         ReadCharset \/ ReadSymbol \/ ReadGroup \/ ReadProduction \/ ReadDfaState \/ ReadLalrState
  PROVE  RowInv'
<1> DEFINE n == num(1)
<1>0. LoadInv
  BY DEF RowInv
<1>1. CASE ReadCharset
  <2> DEFINE row == [index |-> num(1), uniplane |-> num(2),
                     ranges |-> grammar.charsets[n].ranges \o Several(num(3), LAMBDA i :
                                  <<Word(num(5 + 2 * i)), Word(num(6 + 2 * i))>>)]
  <2>1. Reads("c") /\ "c" \in DOMAIN TableOf /\ TableOf["c"] = "charsets"
    BY <1>1 DEF ReadCharset, TableOf
  <2>2. grammar' = [grammar EXCEPT !["charsets"] = [@ EXCEPT ![num(1)] = row]]
    BY <1>1 DEF ReadCharset
  <2>3. ASSUME WellTyped(Record(pos + 1)), grammar["charsets"][num(1)] = Zero["charsets"]
        PROVE  Decoded(row) = Numbered(num(1), RowSaid(Record(pos + 1)))
    <3>1. grammar.charsets[n].ranges = <<>>
      BY <2>3 DEF Zero
    <3> QED
      BY <1>0, <2>1, <2>3, <3>1, CharsetIs
  <2> HIDE DEF row
  <2> QED
    BY <2>1, <2>2, <2>3, RowKeeps
<1>2. CASE ReadSymbol
  <2> DEFINE row == [index |-> num(1), name |-> v'[2].v_str, type |-> num(3)]
  <2>1. Reads("S") /\ "S" \in DOMAIN TableOf /\ TableOf["S"] = "symbols"
    BY <1>2 DEF ReadSymbol, TableOf
  <2>2. grammar' = [grammar EXCEPT !["symbols"] = [@ EXCEPT ![num(1)] = row]]
    BY <1>2 DEF ReadSymbol
  <2>3. WellTyped(Record(pos + 1)) => Decoded(row) = Numbered(num(1), RowSaid(Record(pos + 1)))
    BY <1>0, <2>1, SymbolIs
  <2> HIDE DEF row
  <2> QED
    BY <2>1, <2>2, <2>3, RowKeeps
<1>3. CASE ReadGroup
  <2> DEFINE row == [index |-> num(1), name |-> v'[2].v_str, container |-> num(3),
                     start |-> num(4), end |-> num(5), advance_mode |-> num(6),
                     ending_mode |-> num(7),
                     nesting_groups |-> grammar.symbol_groups[n].nesting_groups
                                          \o Several(num(9), LAMBDA i : num(10 + i))]
  <2>1. Reads("g") /\ "g" \in DOMAIN TableOf /\ TableOf["g"] = "symbol_groups"
    BY <1>3 DEF ReadGroup, TableOf
  <2>2. grammar' = [grammar EXCEPT !["symbol_groups"] = [@ EXCEPT ![num(1)] = row]]
    BY <1>3 DEF ReadGroup
  <2>3. ASSUME WellTyped(Record(pos + 1)), grammar["symbol_groups"][num(1)] = Zero["symbol_groups"]
        PROVE  Decoded(row) = Numbered(num(1), RowSaid(Record(pos + 1)))
    <3>1. grammar.symbol_groups[n].nesting_groups = <<>>
      BY <2>3 DEF Zero
    <3> QED
      BY <1>0, <2>1, <2>3, <3>1, GroupIs
  <2> HIDE DEF row
  <2> QED
    BY <2>1, <2>2, <2>3, RowKeeps
<1>4. CASE ReadProduction
  <2> DEFINE row == [index |-> num(1), head |-> num(2),
                     handles |-> grammar.productions[n].handles \o HandlesRead]
  <2>1. Reads("R") /\ "R" \in DOMAIN TableOf /\ TableOf["R"] = "productions"
    BY <1>4 DEF ReadProduction, TableOf
  <2>2. grammar' = [grammar EXCEPT !["productions"] = [@ EXCEPT ![num(1)] = row]]
    BY <1>4 DEF ReadProduction
  <2>3. ASSUME WellTyped(Record(pos + 1)), grammar["productions"][num(1)] = Zero["productions"]
        PROVE  Decoded(row) = Numbered(num(1), RowSaid(Record(pos + 1)))
    <3>1. grammar.productions[n].handles = <<>>
      BY <2>3 DEF Zero
    <3> QED
      BY <1>0, <2>1, <2>3, <3>1, ProductionIs
  <2> HIDE DEF row
  <2> QED
    BY <2>1, <2>2, <2>3, RowKeeps
<1>5. CASE ReadDfaState
  <2> DEFINE row == [index |-> num(1), accept_symbol |-> IF v'[2].v_bool THEN num(3) ELSE -1,
                     edges |-> grammar.dfa_states[n].edges
                       \o Several((value_count - 5) \div 3, LAMBDA i :
                            [charset |-> num(5 + 3 * i), target |-> num(6 + 3 * i)])]
  <2>1. Reads("D") /\ "D" \in DOMAIN TableOf /\ TableOf["D"] = "dfa_states"
    BY <1>5 DEF ReadDfaState, TableOf
  <2>2. grammar' = [grammar EXCEPT !["dfa_states"] = [@ EXCEPT ![num(1)] = row]]
    BY <1>5 DEF ReadDfaState
  <2>3. ASSUME WellTyped(Record(pos + 1)), grammar["dfa_states"][num(1)] = Zero["dfa_states"]
        PROVE  Decoded(row) = Numbered(num(1), RowSaid(Record(pos + 1)))
    <3>1. grammar.dfa_states[n].edges = <<>>
      BY <2>3 DEF Zero
    <3> QED
      BY <1>0, <2>1, <2>3, <3>1, DfaStateIs
  <2> HIDE DEF row
  <2> QED
    BY <2>1, <2>2, <2>3, RowKeeps
<1>6. CASE ReadLalrState
  <2> DEFINE row == [index |-> num(1), actions |-> ActionsRead(grammar.lalr_states[n].actions)]
  <2>1. Reads("L") /\ "L" \in DOMAIN TableOf /\ TableOf["L"] = "lalr_states"
    BY <1>6 DEF ReadLalrState, TableOf
  <2>2. grammar' = [grammar EXCEPT !["lalr_states"] = [@ EXCEPT ![num(1)] = row]]
    BY <1>6 DEF ReadLalrState
  <2>3. ASSUME WellTyped(Record(pos + 1)), grammar["lalr_states"][num(1)] = Zero["lalr_states"]
        PROVE  Decoded(row) = Numbered(num(1), RowSaid(Record(pos + 1)))
    <3>1. grammar.lalr_states[n].actions = <<>>
      BY <2>3 DEF Zero
    <3> QED
      BY <1>0, <2>1, <2>3, <3>1, LalrStateIs
  <2> HIDE DEF row
  <2> QED
    BY <2>1, <2>2, <2>3, RowKeeps
<1> QED
  BY <1>1, <1>2, <1>3, <1>4, <1>5, <1>6

\* a record of another kind says no row
LEMMA NoRowSaid ==
  ASSUME LoadInv, NEW kind \in {"p", "t", "I"}, Reads(kind)
  PROVE  /\ \A t, i : Said(t, i)' <=> Said(t, i)
         /\ kind \in Kinds
<1>1. kind \in Kinds /\ kind \notin DOMAIN TableOf
  BY DEF Kinds, TableOf
<1>2. KindOf(Record(pos + 1)) = kind
  BY <1>1, RecordRead
<1>3. \A t, i : ~SaysRow(Record(pos + 1), t, i)
  BY <1>1, <1>2 DEF SaysRow
<1> QED
  BY <1>1, <1>3, OneMore

\* The counts make room for the rows, and those that have been read stay.
LEMMA CountsKeepRows ==
  ASSUME RowInv, ReadCounts, LoadInv'
  PROVE  RowInv'
<1> DEFINE r == Record(pos + 1)
           Sized(t) == Resize(t, num(CountPlace[t]))
<1>0. LoadInv /\ Reads("t") /\ "t" \in {"p", "t", "I"}
  BY DEF RowInv, ReadCounts
<1>1. /\ "t" \in Kinds /\ \A t, i : Said(t, i)' <=> Said(t, i)
  BY <1>0, NoRowSaid
<1>2. /\ file' = file /\ verdict' = "loading" /\ ~Loaded' /\ pos' = pos + 1 /\ pos \in Nat
      /\ (InitialRead' <=> InitialRead) /\ PropertiesRead' = PropertiesRead
  BY <1>0, <1>1, OneMore
<1>3. /\ KindOf(r) = "t" /\ Understood(r) /\ pos + 1 \in 1..Len(file.records)
      /\ value_count = Last_(r) + 1 /\ Last_(r) \in Nat
      /\ \A i \in 0..Last_(r) : r.entries[i + 1].type = "I" => num(i) = Number(r, i)
  BY <1>0, <1>1, RecordRead
<1>4. /\ DOMAIN grammar' = Members
      /\ \A t \in Tables : grammar'[t] = Sized(t)
      /\ grammar'.dfa_init = grammar.dfa_init /\ grammar'.lalr_init = grammar.lalr_init
      /\ grammar'.properties = grammar.properties
  <2>1. DOMAIN grammar = {"charsets", "symbols", "symbol_groups", "productions", "dfa_states",
                          "lalr_states", "properties", "dfa_init", "lalr_init"}
    BY TableNames DEF RowInv, Members
  <2>2. grammar' = [grammar EXCEPT !.symbols       = Sized("symbols"),
                                   !.charsets      = Sized("charsets"),
                                   !.productions   = Sized("productions"),
                                   !.dfa_states    = Sized("dfa_states"),
                                   !.lalr_states   = Sized("lalr_states"),
                                   !.symbol_groups = Sized("symbol_groups")]
    <3>1. /\ CountPlace["symbols"] = 1 /\ CountPlace["charsets"] = 2
          /\ CountPlace["productions"] = 3 /\ CountPlace["dfa_states"] = 4
          /\ CountPlace["lalr_states"] = 5 /\ CountPlace["symbol_groups"] = 6
      BY DEF CountPlace
    <3> QED
      BY <3>1 DEF ReadCounts
  <2> HIDE DEF Sized
  <2>3. DOMAIN grammar' = DOMAIN grammar
    BY <2>2
  <2>4. /\ grammar'.symbols = Sized("symbols") /\ grammar'.charsets = Sized("charsets")
        /\ grammar'.productions = Sized("productions")
        /\ grammar'.dfa_states = Sized("dfa_states")
        /\ grammar'.lalr_states = Sized("lalr_states")
        /\ grammar'.symbol_groups = Sized("symbol_groups")
    BY <2>1, <2>2
  <2>5. /\ grammar'.dfa_init = grammar.dfa_init /\ grammar'.lalr_init = grammar.lalr_init
        /\ grammar'.properties = grammar.properties
    BY <2>1, <2>2
  <2> QED
    BY <2>3, <2>4, <2>5, TableNames DEF RowInv
<1> HIDE DEF r
<1>5. ASSUME NEW t \in Tables
      PROVE  /\ DOMAIN grammar'[t] = 0 .. num(CountPlace[t]) - 1
             /\ \A i \in DOMAIN grammar'[t] :
                  grammar'[t][i] = IF i \in DOMAIN grammar[t] THEN grammar[t][i] ELSE Zero[t]
  BY <1>4 DEF Resize
<1> HIDE DEF Sized
<1>6. RowsInv'
  <2> SUFFICES ASSUME NEW t \in Tables, NEW i \in DOMAIN grammar'[t]
               PROVE  \/ grammar'[t][i] = Zero[t] /\ (file.whole => ~Said(t, i)')
                      \/ Said(t, i)' /\ Decoded(grammar'[t][i]) = Numbered(i, file.of[t][i])
    BY <1>2 DEF RowsInv, RowRight
  <2>1. CASE i \in DOMAIN grammar[t]
    <3>1. grammar'[t][i] = grammar[t][i]
      BY <1>5, <2>1
    <3> QED
      BY <1>1, <2>1, <3>1 DEF RowInv, RowsInv, RowRight
  <2>2. CASE i \notin DOMAIN grammar[t]
    <3>1. grammar'[t][i] = Zero[t]
      BY <1>5, <2>2
    <3>2. file.whole => ~Said(t, i)
      BY <2>2, SaidThere
    <3> QED
      BY <1>1, <3>1, <3>2
  <2> QED
    BY <2>1, <2>2
<1>7. ASSUME file.whole PROVE \A t \in Tables : DOMAIN grammar'[t] = DOMAIN file.of[t]
  <2> TAKE t \in Tables
  <2>1. /\ CountPlace[t] + 1 \in DOMAIN r.entries /\ r.entries[CountPlace[t] + 1].type = "I"
        /\ DOMAIN file.of[t] = 0 .. Number(r, CountPlace[t]) - 1
    BY <1>0, <1>3, <1>7, WholeRecord DEF r, LoadInv
  <2>2. CountPlace[t] \in 1..6
    BY TableNames DEF CountPlace
  <2>3. CountPlace[t] \in 0..Last_(r)
    <3>1. DOMAIN r.entries = 1..Len(r.entries) /\ Len(r.entries) = Last_(r) + 1
      BY <1>0, <1>3, RecordThere DEF Reads, r, value_count
    <3> QED
      BY <1>3, <2>1, <2>2, <3>1
  <2>4. num(CountPlace[t]) = Number(r, CountPlace[t])
    BY <1>3, <2>1, <2>3
  <2> QED
    BY <1>5, <2>1, <2>4
<1>8. WholeInv'
  <2>1. Vector(grammar.properties)' <=> Vector(grammar.properties)
    BY <1>4 DEF Vector
  <2> QED
    BY <1>2, <1>4, <1>7, <2>1 DEF RowInv, WholeInv
<1> QED
  BY <1>4, <1>6, <1>8 DEF RowInv

LEMMA OnePropertyMore ==
  ASSUME NEW s, NEW x, Vector(s)
  PROVE  Vector(Append(s, x)) /\ Len(Append(s, x)) = Len(s) + 1
<1> DEFINE a == Append(s, x)
           S == {s[i] : i \in DOMAIN s} \cup {x}
<1>1. s \in Seq(S) /\ DOMAIN s = 1..Len(s) /\ Len(s) \in Nat
  <2>1. s \in Seq({s[i] : i \in DOMAIN s})
    BY DEF Vector
  <2>2. DOMAIN s = 1..Len(s) /\ Len(s) \in Nat /\ s = [i \in 1..Len(s) |-> s[i]]
    BY <2>1, LenProperties
  <2>3. \A i \in 1..Len(s) : s[i] \in S
    BY <2>2
  <2> QED
    BY <2>2, <2>3, IsASeq
<1>2. x \in S
  OBVIOUS
<1> HIDE DEF S
<1>3. a \in Seq(S) /\ Len(a) = Len(s) + 1
  BY <1>1, <1>2, AppendProperties
<1>4. DOMAIN a = 1..Len(a) /\ Len(a) \in Nat /\ a = [i \in 1..Len(a) |-> a[i]]
  BY <1>3, LenProperties
<1> HIDE DEF a
<1> DEFINE A == {a[i] : i \in DOMAIN a}
<1>5. \A i \in 1..Len(a) : a[i] \in A
  BY <1>4
<1> HIDE DEF A
<1>6. a \in Seq(A)
  BY <1>4, <1>5, IsASeq
<1> QED
  BY <1>3, <1>6 DEF Vector, A, a

LEMMA PropertyKeepsRows ==
  ASSUME RowInv, ReadProperty, LoadInv'
  PROVE  RowInv'
<1> DEFINE x == [index |-> num(1), name |-> v'[2].v_str, value |-> v'[3].v_str]
<1>0. LoadInv /\ Reads("p") /\ "p" \in {"p", "t", "I"}
  BY DEF RowInv, ReadProperty
<1>1. /\ "p" \in Kinds /\ \A t, i : Said(t, i)' <=> Said(t, i)
  BY <1>0, NoRowSaid
<1>2. /\ file' = file /\ verdict' = "loading" /\ ~Loaded' /\ pos' = pos + 1 /\ pos \in Nat
      /\ (InitialRead' <=> InitialRead) /\ (CountsRead' <=> CountsRead)
      /\ PropertiesRead' = PropertiesRead \cup {pos + 1}
  BY <1>0, <1>1, OneMore
<1>3. /\ DOMAIN grammar' = Members
      /\ \A y \in Members \ {"properties"} : grammar'[y] = grammar[y]
      /\ grammar'.properties = Append(grammar.properties, x)
  <2>1. DOMAIN grammar = Members /\ "properties" \in Members
    BY DEF RowInv, Members
  <2>2. grammar' = [grammar EXCEPT !.properties = Append(@, x)]
    BY DEF ReadProperty
  <2> HIDE DEF x
  <2> QED
    BY <2>1, <2>2
<1> HIDE DEF x
<1>4. /\ \A t \in Tables : grammar'[t] = grammar[t]
      /\ grammar'.dfa_init = grammar.dfa_init /\ grammar'.lalr_init = grammar.lalr_init
  BY <1>3, TableNames DEF Members
<1>5. RowsInv'
  BY <1>1, <1>2, <1>4 DEF RowInv, RowsInv, RowRight
<1>6. Cardinality(PropertiesRead \cup {pos + 1}) = Cardinality(PropertiesRead) + 1
  <2>1. PropertiesRead \subseteq 1..pos /\ pos + 1 \notin 1..pos
    BY <1>2 DEF PropertiesRead
  <2>2. IsFiniteSet(PropertiesRead)
    <3>1. IsFiniteSet(1..pos)
      BY <1>2, FS_Interval
    <3>2. PropertiesRead \in SUBSET (1..pos)
      BY <2>1
    <3> QED
      BY <3>1, <3>2, FS_Subset
  <2> QED
    BY <2>1, <2>2, FS_AddElement
<1>7. WholeInv'
  <2>1. ASSUME file.whole
        PROVE  /\ Vector(grammar'.properties)
               /\ Len(grammar'.properties) = Cardinality(PropertiesRead) + 1
    BY <1>3, <2>1, OnePropertyMore DEF RowInv, WholeInv
  <2>2. Vector(grammar.properties)' <=> Vector(grammar'.properties)
    BY DEF Vector
  <2> QED
    BY <1>2, <1>4, <1>6, <2>1, <2>2 DEF RowInv, WholeInv
<1> QED
  BY <1>3, <1>5, <1>7 DEF RowInv

LEMMA InitialKeepsRows ==
  ASSUME RowInv, ReadInitial, LoadInv'
  PROVE  RowInv'
<1> DEFINE r == Record(pos + 1)
<1>0. LoadInv /\ Reads("I") /\ "I" \in {"p", "t", "I"}
  BY DEF RowInv, ReadInitial
<1>1. /\ "I" \in Kinds /\ \A t, i : Said(t, i)' <=> Said(t, i)
  BY <1>0, NoRowSaid
<1>2. /\ file' = file /\ verdict' = "loading" /\ ~Loaded' /\ pos' = pos + 1 /\ pos \in Nat
      /\ (CountsRead' <=> CountsRead) /\ PropertiesRead' = PropertiesRead
  BY <1>0, <1>1, OneMore
<1>3. /\ DOMAIN grammar' = Members
      /\ \A y \in Members \ {"dfa_init", "lalr_init"} : grammar'[y] = grammar[y]
      /\ grammar'.dfa_init = num(1) /\ grammar'.lalr_init = num(2)
  <2>1. DOMAIN grammar = Members /\ "dfa_init" \in Members /\ "lalr_init" \in Members
    BY DEF RowInv, Members
  <2>2. grammar' = [grammar EXCEPT !.dfa_init = num(1), !.lalr_init = num(2)]
    BY DEF ReadInitial
  <2> QED
    BY <2>1, <2>2
<1>4. /\ \A t \in Tables : grammar'[t] = grammar[t]
      /\ grammar'.properties = grammar.properties
  BY <1>3, TableNames DEF Members
<1>5. RowsInv'
  BY <1>1, <1>2, <1>4 DEF RowInv, RowsInv, RowRight
<1>6. ASSUME file.whole PROVE num(1) = file.of.dfa_init /\ num(2) = file.of.lalr_init
  <2>1. /\ KindOf(r) = "I" /\ pos + 1 \in 1..Len(file.records)
        /\ value_count = Last_(r) + 1 /\ Last_(r) \in Nat
        /\ \A i \in 0..Last_(r) : r.entries[i + 1].type = "I" => num(i) = Number(r, i)
    BY <1>0, <1>1, RecordRead
  <2>2. /\ Len(r.entries) = 3 /\ r.entries[2].type = "I" /\ r.entries[3].type = "I"
        /\ Number(r, 1) = file.of.dfa_init /\ Number(r, 2) = file.of.lalr_init
    BY <1>0, <1>6, <2>1, WholeRecord DEF LoadInv
  <2>3. 1 \in 0..Last_(r) /\ 2 \in 0..Last_(r) /\ 1 + 1 = 2 /\ 2 + 1 = 3
    BY <2>2 DEF Last_
  <2> HIDE DEF r
  <2>4. num(1) = Number(r, 1)
    BY <2>1, <2>2, <2>3
  <2>5. num(2) = Number(r, 2)
    BY <2>1, <2>2, <2>3
  <2> QED
    BY <2>2, <2>4, <2>5
<1>7. WholeInv'
  <2>1. Vector(grammar.properties)' <=> Vector(grammar.properties)
    BY <1>4 DEF Vector
  <2> QED
    BY <1>2, <1>3, <1>4, <1>6, <2>1 DEF RowInv, WholeInv
<1> QED
  BY <1>3, <1>5, <1>7 DEF RowInv

\* a step that reads no record and does not end the loading of a whole file badly
LEMMA OtherStepRows ==
  ASSUME RowInv, LoadInv', UNCHANGED <<file, pos, grammar>>,
         file.whole => /\ verdict' \notin {"refused", "undefined"}
                       /\ Loaded' => pos = Len(file.records)
  PROVE  RowInv'
<1>1. \A k : Record(k)' = Record(k)
  BY DEF Record
<1>2. /\ \A t, i : Said(t, i)' <=> Said(t, i)
      /\ (CountsRead' <=> CountsRead) /\ (InitialRead' <=> InitialRead)
      /\ PropertiesRead' = PropertiesRead
  BY <1>1 DEF Said, SaysRow, Understood, KindOf, Number, Stored, CountsRead, InitialRead,
              PropertiesRead
<1>3. RowsInv'
  BY <1>2 DEF RowInv, RowsInv, RowRight
<1>4. WholeInv'
  BY <1>2 DEF RowInv, WholeInv, Vector
<1> QED
  BY <1>3, <1>4 DEF RowInv

\* a whole file is not refused
LEMMA NotRefused ==
  ASSUME RowInv, file.whole
  PROVE  ~Refuse
<1> SUFFICES ASSUME Refuse PROVE FALSE
  OBVIOUS
<1>0. LoadInv /\ file \in Files
  BY DEF RowInv, LoadInv
<1>1. More
  BY DEF Refuse
<1>2. /\ pos + 1 \in 1..Len(file.records) /\ Entries = Record(pos + 1).entries
      /\ Understood(Record(pos + 1))
  BY <1>0, <1>1, RecordThere, WholeRecord
<1>3. AllRead /\ KindOf(Record(pos + 1)) \in Kinds
  BY <1>2 DEF AllRead, Understood
<1>4. ReadEntries /\ v'[0].v_byte \notin Kinds
  BY <1>3 DEF Refuse
<1> QED
  BY <1>0, <1>1, <1>3, <1>4, EntriesRead

\* at its end all has been read
LEMMA AllHasBeenRead ==
  ASSUME RowInv, file.whole, ~More
  PROVE  /\ pos = Len(file.records) /\ InitialRead /\ CountsRead
         /\ grammar.dfa_init # Uninitialised
<1>0. LoadInv /\ file \in Files /\ pos \in 0..Len(file.records) /\ Len(file.records) \in Nat
  BY FilesIndexed DEF RowInv, LoadInv
<1>1. pos = Len(file.records)
  <2> SUFFICES ASSUME pos # Len(file.records) PROVE FALSE
    OBVIOUS
  <2>1. pos < Len(file.records) /\ pos + 1 \in 1..Len(file.records)
    BY <1>0
  <2>2. Understood(Record(pos + 1))
    BY <1>0, <2>1, WholeRecord
  <2> QED
    BY <2>1, <2>2 DEF More, Understood, Record
<1>2. PICK k \in 1..Len(file.records) : KindOf(Record(k)) = "I"
  BY <1>0, WholeFile
<1>3. InitialRead
  BY <1>1, <1>2 DEF InitialRead
<1>4. /\ DfaSize(file) \in Nat /\ DfaIndexed(file, Record(k)) /\ Understood(Record(k))
      /\ \E j \in 1 .. k - 1 : KindOf(Record(j)) = "t"
  <2>1. \A j \in 1..Len(file.records) : Understood(Record(j))
    BY <1>0, WholeRecord
  <2>2. \A j \in 1..k : j \in 1..Len(file.records)
    BY <1>0
  <2> QED
    BY <1>0, <1>2, <2>1, <2>2, FilesIndexed DEF Record
<1>5. CountsRead
  <2>1. \A j \in 1 .. k - 1 : j \in 1..pos
    BY <1>0, <1>1
  <2> QED
    BY <1>4, <2>1 DEF CountsRead
<1>6. Number(Record(k), 1) \in 0 .. DfaSize(file) - 1
  BY <1>2, <1>4 DEF DfaIndexed, IndexAt
<1>7. grammar.dfa_init = Number(Record(k), 1)
  <2>1. Number(Record(k), 1) = file.of.dfa_init
    BY <1>0, <1>2, WholeRecord
  <2> QED
    BY <1>3, <2>1 DEF RowInv, WholeInv
<1>8. grammar.dfa_init # Uninitialised
  BY <1>4, <1>6, <1>7 DEF Uninitialised
<1> QED
  BY <1>1, <1>3, <1>5, <1>8

LEMMA RowsKept == RowInv /\ [Next]_vars => RowInv'
<1> SUFFICES ASSUME RowInv, [Next]_vars PROVE RowInv'
  OBVIOUS
<1>0. LoadInv'
  BY LoadKeeps DEF RowInv
<1>1. CASE ReadRecord
  BY <1>0, <1>1, RowRecordKeeps, CountsKeepRows, PropertyKeepsRows, InitialKeepsRows DEF ReadRecord
<1>2. CASE Refuse
  <2>1. ~file.whole
    BY <1>2, NotRefused
  <2> QED
    BY <1>0, <1>2, <2>1, OtherStepRows DEF Refuse
<1>3. CASE StartSearch
  <2>1. file.whole => verdict' = "processing" /\ pos = Len(file.records)
    BY <1>3, AllHasBeenRead DEF StartSearch, Stop
  <2> QED
    BY <1>0, <1>3, <2>1, OtherStepRows DEF StartSearch, Stop
<1>4. CASE UNCHANGED loader_vars
  BY <1>0, <1>4, OtherStepRows DEF loader_vars, RowInv, WholeInv, Loaded
<1>5. CASE SetSingleLexemes
  <2>1. Loaded /\ verdict' = "accepted" /\ UNCHANGED <<file, pos, grammar>>
    BY <1>5 DEF SetSingleLexemes, Loaded
  <2> QED
    BY <1>0, <2>1, OtherStepRows DEF RowInv, WholeInv
<1> QED
  BY <1>1, <1>2, <1>3, <1>4, <1>5 DEF Next, vars

LEMMA RowsBegin == Init => RowInv
<1> SUFFICES ASSUME Init PROVE RowInv
  OBVIOUS
<1>1. /\ file \in Files /\ pos = 0 /\ (file.header = Header => verdict = "loading")
      /\ verdict \in {"loading", "refused"} /\ LoadInv
  BY LoadBegins DEF Init, LoaderInit
<1>2. /\ DOMAIN grammar = Members
      /\ \A x \in Members \ {"dfa_init", "lalr_init"} : grammar[x] = <<>>
  BY DEF Init, LoaderInit, Members
<1>3. /\ \A t \in Tables : DOMAIN grammar[t] = {}
      /\ grammar.properties = <<>>
  BY <1>2, TableNames DEF Members
<1>4. RowsInv
  BY <1>3 DEF RowsInv
<1>5. ~CountsRead /\ ~InitialRead /\ PropertiesRead = {}
  BY <1>1 DEF CountsRead, InitialRead, PropertiesRead
<1>6. Vector(grammar.properties) /\ Len(grammar.properties) = Cardinality(PropertiesRead)
  BY <1>3, <1>5, EmptySeq, FS_EmptySet DEF Vector
<1>7. WholeInv
  BY <1>1, <1>5, <1>6, WholeFile DEF WholeInv, Loaded
<1> QED
  BY <1>1, <1>2, <1>4, <1>7 DEF RowInv

LEMMA ZeroDecoded == \A t \in Tables : Decoded(Zero[t]) = Zero[t]
<1>1. Decode(<<>>) = <<>>
  <2>1. <<>> \in Seq(Units) /\ Len(<<>>) = 0
    BY EmptySeq
  <2>2. Utf8(<<>>) \in Seq(Bytes) /\ Len(Utf8(<<>>)) = ReservedBytes(<<>>)[0]
    BY <2>1, NameBytes
  <2>3. ReservedBytes(<<>>)[0] = 0
    BY <2>1, ReservedIs
  <2>4. Utf8(<<>>) = <<>>
    BY <2>2, <2>3, EmptySeq
  <2> QED
    BY <2>1, <2>4, NamesKept
<1>2. Decoded(Zero["symbols"]) = Zero["symbols"]
  <2>1. Zero["symbols"] = [index |-> 0, name |-> <<>>, type |-> 0]
    BY DEF Zero
  <2> QED
    BY <1>1, <2>1, DecodedForms
<1>3. Decoded(Zero["symbol_groups"]) = Zero["symbol_groups"]
  <2>1. Zero["symbol_groups"] = GroupRow(0, <<>>, 0, 0, 0, 0, 0, <<>>)
    BY DEF Zero, GroupRow
  <2> QED
    BY <1>1, <2>1, DecodedForms
<1>4. \A t \in {"charsets", "productions", "dfa_states", "lalr_states"} :
        "name" \notin DOMAIN Zero[t]
  BY DEF Zero
<1>5. \A t \in {"charsets", "productions", "dfa_states", "lalr_states"} : Decoded(Zero[t]) = Zero[t]
  BY <1>4, DecodedForms
<1> QED
  BY <1>2, <1>3, <1>5, TableNames

\* At every moment of loading, in whatever order the records of a file stand and wherever
\* it ends, a row of a table is untouched or what the file says of it: nothing that
\* LoadBuffer's v keeps of an earlier record gets into it, and no name is damaged.
THEOREM RowsAlwaysWhole == Spec => []RowsWhole
<1>1. RowInv => RowsWhole
  BY ZeroDecoded DEF RowInv, RowsInv, RowsWhole, RowRight
<1> QED
  BY <1>1, RowsBegin, RowsKept, PTL DEF Spec

LEMMA ExactWhenLoaded == RowInv => LoadedExact
<1> SUFFICES ASSUME RowInv, file.whole PROVE LoadedExact
  BY DEF LoadedExact
<1>1. verdict \notin {"refused", "undefined"}
  BY DEF RowInv, WholeInv
<1>2. ASSUME Loaded
      PROVE  /\ \A t \in Tables :
                  /\ DOMAIN grammar[t] = DOMAIN file.of[t]
                  /\ \A i \in DOMAIN grammar[t] : RowRight(t, i, grammar[t][i])
             /\ grammar.dfa_init = file.of.dfa_init /\ grammar.lalr_init = file.of.lalr_init
             /\ Len(grammar.properties) = Len(file.of.properties)
  <2>1. /\ file \in Files /\ pos = Len(file.records) /\ Len(file.records) \in Nat
    BY <1>2, FilesIndexed DEF RowInv, LoadInv, WholeInv
  <2>2. ~More
    BY <2>1 DEF More
  <2>3. InitialRead /\ CountsRead
    BY <2>2, AllHasBeenRead
  <2>4. \A t \in Tables : DOMAIN grammar[t] = DOMAIN file.of[t]
    BY <2>3 DEF RowInv, WholeInv
  <2>5. ASSUME NEW t \in Tables, NEW i \in DOMAIN grammar[t]
        PROVE  RowRight(t, i, grammar[t][i])
    <3>1. PICK k \in 1..Len(file.records) : SaysRow(Record(k), t, i)
      BY <2>1, <2>4, WholeFile
    <3>2. Said(t, i)
      BY <2>1, <3>1 DEF Said
    <3> QED
      BY <3>2 DEF RowInv, RowsInv
  <2>6. Len(grammar.properties) = Len(file.of.properties)
    BY <2>1, WholeFile DEF RowInv, WholeInv, PropertiesRead
  <2> QED
    BY <2>3, <2>4, <2>5, <2>6 DEF RowInv, WholeInv
<1> QED
  BY <1>1, <1>2 DEF LoadedExact, RowRight

\* A whole file is loaded, with every row of every table, its initial states and as many
\* properties as it has, for every file.
THEOREM LoadedAlwaysExact == Spec => []LoadedExact
BY ExactWhenLoaded, RowsBegin, RowsKept, PTL DEF Spec
-----------------------------------------------------------------------------
(* Walks.                                                                  *)

\* an edge is its state and its place in the state's vector
EdgeSet == {e \in DfaStates \X Nat : e[2] \in 1..Len(Targets(e[1]))}
End(e)  == Targets(e[1])[e[2]]

IsWalk(w, t) ==
  /\ w \in Seq(EdgeSet)
  /\ \A i \in 1..Len(w) : w[i][1] = IF i = 1 THEN DfaInit ELSE End(w[i - 1])
  /\ t = IF w = <<>> THEN DfaInit ELSE End(w[Len(w)])

\* The counts are right: the invariant PathsCounted of LexemeCount, with walks in the
\* place of the sums that it takes over their lengths.
CountsRight ==
  \A s \in DfaStates :
    /\ path_counts[s] \in 0..2
    /\ path_counts[s] = 0 <=> ~\E w : IsWalk(w, s)
    /\ path_counts[s] = 2 <=> \E w1, w2 : IsWalk(w1, s) /\ IsWalk(w2, s) /\ w1 # w2

LEMMA EdgeFacts ==
  ASSUME TargetsThere, NEW e \in EdgeSet
  PROVE  e[1] \in DfaStates /\ e[2] \in Nat /\ End(e) \in DfaStates /\ e = <<e[1], e[2]>>
<1>1. e[1] \in DfaStates /\ e[2] \in Nat /\ e[2] \in 1..Len(Targets(e[1])) /\ e = <<e[1], e[2]>>
  BY DEF EdgeSet
<1>2. Targets(e[1]) \in Seq(DfaStates)
  BY <1>1 DEF TargetsThere
<1> QED
  BY <1>1, <1>2, ElementOfSeq DEF End

LEMMA NoWalk == IsWalk(<<>>, DfaInit)
<1>1. <<>> \in Seq(EdgeSet) /\ Len(<<>>) = 0
  BY EmptySeq
<1> QED
  BY <1>1 DEF IsWalk

LEMMA WalkOn ==
  ASSUME TargetsThere, NEW w, NEW e \in EdgeSet, IsWalk(w, e[1])
  PROVE  IsWalk(Append(w, e), End(e))
<1> DEFINE n == Len(w)
           back == Append(w, e)
<1>1. w \in Seq(EdgeSet) /\ n \in Nat
  BY LenProperties DEF IsWalk
<1>2. /\ back \in Seq(EdgeSet) /\ Len(back) = n + 1 /\ back[n + 1] = e /\ back # <<>>
      /\ \A i \in 1..n : back[i] = w[i]
  BY <1>1, AppendProperties
<1> HIDE DEF back
<1>3. ASSUME NEW i \in 1..n + 1
      PROVE  back[i][1] = IF i = 1 THEN DfaInit ELSE End(back[i - 1])
  <2>1. CASE i \in 1..n
    <3>1. back[i] = w[i] /\ (i # 1 => i - 1 \in 1..n)
      BY <1>1, <1>2, <2>1
    <3> QED
      BY <1>2, <2>1, <3>1 DEF IsWalk
  <2>2. CASE i = n + 1
    <3>1. CASE n = 0
      <4>1. w = <<>>
        BY <1>1, <3>1, EmptySeq
      <4> QED
        BY <1>2, <2>2, <3>1, <4>1 DEF IsWalk
    <3>2. CASE n # 0
      <4>1. n \in 1..n /\ i # 1 /\ i - 1 = n /\ w # <<>>
        BY <1>1, <2>2, <3>2, EmptySeq
      <4>2. e[1] = End(w[n])
        BY <4>1 DEF IsWalk
      <4> QED
        BY <1>2, <2>2, <4>1, <4>2
    <3> QED
      BY <3>1, <3>2
  <2> QED
    BY <1>1, <2>1, <2>2
<1>4. Len(back) = n + 1 /\ End(e) = End(back[Len(back)])
  BY <1>2
<1> HIDE DEF n
<1>5. \A i \in 1..Len(back) : back[i][1] = IF i = 1 THEN DfaInit ELSE End(back[i - 1])
  BY <1>3, <1>4
<1> QED
  BY <1>2, <1>4, <1>5 DEF IsWalk, back

LEMMA WalkBack ==
  ASSUME TargetsThere, NEW w, NEW t, IsWalk(w, t), w # <<>>
  PROVE  \E back, e : /\ e \in EdgeSet
                   /\ w = Append(back, e)
                   /\ back \in Seq(EdgeSet)
                   /\ Len(w) = Len(back) + 1
                   /\ e = w[Len(w)]
                   /\ End(e) = t
                   /\ IsWalk(back, e[1])
<1>1. w \in Seq(EdgeSet)
  BY DEF IsWalk
<1>2. PICK back \in Seq(EdgeSet), e \in EdgeSet : w = Append(back, e)
  BY <1>1, SequenceEmptyOrAppend
<1> DEFINE n == Len(back)
<1>3. /\ n \in Nat /\ Len(w) = n + 1 /\ w[n + 1] = e /\ \A i \in 1..n : w[i] = back[i]
  BY <1>2, AppendProperties, LenProperties
<1>4. End(e) = t
  BY <1>3 DEF IsWalk
<1>5. IsWalk(back, e[1])
  <2>1. ASSUME NEW i \in 1..n PROVE back[i][1] = IF i = 1 THEN DfaInit ELSE End(back[i - 1])
    <3>1. i \in 1..Len(w) /\ w[i] = back[i] /\ (i # 1 => i - 1 \in 1..n)
      BY <1>3
    <3>2. w[i][1] = IF i = 1 THEN DfaInit ELSE End(w[i - 1])
      BY <3>1 DEF IsWalk
    <3> QED
      BY <1>3, <3>1, <3>2
  <2>2. e[1] = IF back = <<>> THEN DfaInit ELSE End(back[n])
    <3>1. n + 1 \in 1..Len(w)
      BY <1>3
    <3>2. e[1] = IF n + 1 = 1 THEN DfaInit ELSE End(w[(n + 1) - 1])
      BY <1>3, <3>1 DEF IsWalk
    <3>3. back = <<>> <=> n = 0
      BY EmptySeq
    <3>4. n # 0 => (n + 1) - 1 = n /\ w[n] = back[n] /\ n + 1 # 1
      BY <1>3
    <3> QED
      BY <1>3, <3>2, <3>3, <3>4
  <2> QED
    BY <2>1, <2>2 DEF IsWalk
<1> QED
  BY <1>2, <1>3, <1>4, <1>5
-----------------------------------------------------------------------------
(* The work lists.                                                         *)

In(x, s) == \E i \in 1..Len(s) : s[i] = x

LEMMA InAppend ==
  ASSUME NEW S, NEW s \in Seq(S), NEW x \in S, NEW y
  PROVE  In(y, Append(s, x)) <=> In(y, s) \/ y = x
<1> DEFINE n == Len(s)
<1>1. /\ n \in Nat /\ Len(Append(s, x)) = n + 1 /\ Append(s, x)[n + 1] = x
      /\ \A i \in 1..n : Append(s, x)[i] = s[i]
  BY AppendProperties, LenProperties
<1> HIDE DEF n
<1>2. ASSUME In(y, Append(s, x)), y # x PROVE In(y, s)
  <2>1. PICK i \in 1..n + 1 : Append(s, x)[i] = y
    BY <1>1, <1>2 DEF In
  <2>2. i \in 1..n
    BY <1>1, <1>2, <2>1
  <2> QED
    BY <1>1, <2>1, <2>2 DEF In, n
<1>3. ASSUME In(y, s) PROVE In(y, Append(s, x))
  <2>1. PICK i \in 1..n : s[i] = y
    BY <1>3 DEF In, n
  <2>2. i \in 1..n + 1
    BY <1>1
  <2> QED
    BY <1>1, <2>1, <2>2 DEF In
<1>4. ASSUME y = x PROVE In(y, Append(s, x))
  <2>1. n + 1 \in 1..Len(Append(s, x))
    BY <1>1
  <2> QED
    BY <1>1, <1>4, <2>1 DEF In
<1> QED
  BY <1>2, <1>3, <1>4

LEMMA InConcat ==
  ASSUME NEW S, NEW s \in Seq(S), NEW t \in Seq(S), NEW y
  PROVE  In(y, s \o t) <=> In(y, s) \/ In(y, t)
<1> DEFINE n == Len(s)
           m == Len(t)
           u == s \o t
<1>1. /\ n \in Nat /\ m \in Nat /\ Len(u) = n + m
      /\ \A i \in 1..n + m : u[i] = IF i <= n THEN s[i] ELSE t[i - n]
  BY ConcatProperties, LenProperties
<1> HIDE DEF n, m, u
<1>2. ASSUME In(y, u) PROVE In(y, s) \/ In(y, t)
  <2>1. PICK i \in 1..n + m : u[i] = y
    BY <1>1, <1>2 DEF In
  <2>2. CASE i <= n
    <3>1. i \in 1..n /\ s[i] = y
      BY <1>1, <2>1, <2>2
    <3> QED
      BY <3>1 DEF In, n
  <2>3. CASE ~(i <= n)
    <3>1. i - n \in 1..m /\ t[i - n] = y
      BY <1>1, <2>1, <2>3
    <3> QED
      BY <3>1 DEF In, m
  <2> QED
    BY <2>2, <2>3
<1>3. ASSUME In(y, s) PROVE In(y, u)
  <2>1. PICK i \in 1..n : s[i] = y
    BY <1>3 DEF In, n
  <2>2. i \in 1..n + m /\ u[i] = y
    BY <1>1, <2>1
  <2> QED
    BY <1>1, <2>2 DEF In
<1>4. ASSUME In(y, t) PROVE In(y, u)
  <2>1. PICK i \in 1..m : t[i] = y
    BY <1>4 DEF In, m
  <2>2. n + i \in 1..n + m /\ u[n + i] = y
    <3>1. n + i \in 1..n + m /\ ~(n + i <= n) /\ (n + i) - n = i
      BY <1>1
    <3> QED
      BY <1>1, <2>1, <3>1
  <2> QED
    BY <1>1, <2>2 DEF In
<1> QED
  BY <1>2, <1>3, <1>4 DEF u

LEMMA TakenOff ==
  ASSUME NEW S, NEW s \in Seq(S), s # <<>>
  PROVE  /\ Last(s) \in S /\ Front(s) \in Seq(S) /\ In(Last(s), s)
         /\ Len(Front(s)) = Len(s) - 1
         /\ \A i \in 1..Len(s) - 1 : Front(s)[i] = s[i]
         /\ \A y : In(y, s) <=> In(y, Front(s)) \/ y = Last(s)
<1> DEFINE n == Len(s)
<1>1. n \in Nat /\ n \in 1..n /\ n - 1 \in Nat
  BY EmptySeq, LenProperties
<1>2. Last(s) \in S /\ Last(s) = s[n] /\ In(Last(s), s)
  BY <1>1, ElementOfSeq DEF Last, In
<1>3. /\ Front(s) \in Seq(S) /\ Len(Front(s)) = n - 1
      /\ \A i \in 1..n - 1 : Front(s)[i] = s[i]
  <2>1. \A i \in 1..n - 1 : s[i] \in S
    BY <1>1, ElementOfSeq
  <2>2. Front(s) = SubSeq(s, 1, n - 1)
    BY DEF Front
  <2> HIDE DEF n
  <2>3. /\ SubSeq(s, 1, n - 1) \in Seq(S)
        /\ Len(SubSeq(s, 1, n - 1)) = n - 1
        /\ \A i \in 1..n - 1 : SubSeq(s, 1, n - 1)[i] = s[i]
    <3>1. Len(SubSeq(s, 1, n - 1)) = IF 1 <= n - 1 THEN ((n - 1) - 1) + 1 ELSE 0
      BY <1>1, <2>1, SubSeqProperties
    <3>2. \A i \in 1..n - 1 : SubSeq(s, 1, n - 1)[i] = s[1 + i - 1]
      BY <1>1, <2>1, SubSeqProperties
    <3>3. SubSeq(s, 1, n - 1) \in Seq(S)
      BY <1>1, <2>1, SubSeqProperties
    <3> QED
      BY <1>1, <3>1, <3>2, <3>3
  <2> QED
    BY <2>2, <2>3
<1> HIDE DEF n
<1>4. ASSUME NEW y PROVE In(y, s) <=> In(y, Front(s)) \/ y = Last(s)
  <2>1. ASSUME In(y, s), y # Last(s) PROVE In(y, Front(s))
    <3>1. PICK i \in 1..n : s[i] = y
      BY <2>1 DEF In, n
    <3>2. i \in 1..n - 1
      BY <1>1, <1>2, <2>1, <3>1
    <3> QED
      BY <1>3, <3>1, <3>2 DEF In
  <2>2. ASSUME In(y, Front(s)) PROVE In(y, s)
    <3>1. PICK i \in 1..n - 1 : Front(s)[i] = y
      BY <1>3, <2>2 DEF In
    <3>2. i \in 1..n /\ s[i] = y
      BY <1>1, <1>3, <3>1
    <3> QED
      BY <3>2 DEF In, n
  <2> QED
    BY <1>2, <2>1, <2>2
<1> QED
  BY <1>2, <1>3, <1>4 DEF n

\* The marking goes on with the targets of m that are not m and not marked.
LEMMA BehindIs ==
  ASSUME TargetsThere, NEW m \in DfaStates
  PROVE  /\ Behind(m) \in Seq(DfaStates)
         /\ \A t : In(t, Behind(m)) <=> In(t, Targets(m)) /\ GoesOn(m, t)
<1> DEFINE next == Targets(m)
           N    == Len(next)
           V    == Seq(DfaStates)
           Turn(n, back) == IF GoesOn(m, next[n]) THEN Append(back, next[n]) ELSE back
           step == [x \in (1..N) \X V |-> Turn(x[1], x[2])]
           Is(g) == g = [n \in 0..N |-> IF n = 0 THEN <<>>
                                        ELSE IF GoesOn(m, next[n]) THEN Append(g[n - 1], next[n])
                                        ELSE g[n - 1]]
           All  == CHOOSE g : Is(g)
<1>1. next \in V /\ N \in Nat /\ <<>> \in V
  BY LenProperties, EmptySeq DEF TargetsThere
<1>2. ASSUME NEW n \in 1..N, NEW back \in V PROVE next[n] \in DfaStates /\ Turn(n, back) \in V
  BY <1>1, ElementOfSeq, AppendProperties
<1>3. Behind(m) = All[N]
  BY DEF Behind
<1> HIDE DEF next, N, V, Turn
<1>4. step \in [(1..N) \X V -> V]
  BY <1>2
<1>5. \A n \in 1..N, back \in V : step[<<n, back>>] = Turn(n, back)
  OBVIOUS
<1> HIDE DEF step
<1>6. PICK f : RecursUpTo(f, N, V, <<>>, step)
  BY <1>1, <1>4, RecursionUpTo
<1>7. Is(f)
  <2>1. \A n \in 0..N : n # 0 => step[<<n, f[n - 1]>>] = Turn(n, f[n - 1])
    <3> TAKE n \in 0..N
    <3> HAVE n # 0
    <3>1. n \in 1..N /\ n - 1 \in 0..N
      BY <1>1
    <3>2. f[n - 1] \in V
      BY <1>6, <3>1 DEF RecursUpTo
    <3> QED
      BY <1>5, <3>1, <3>2
  <2>2. f = [n \in 0..N |-> IF n = 0 THEN <<>> ELSE Turn(n, f[n - 1])]
    BY <1>6, <2>1 DEF RecursUpTo
  <2> QED
    BY <2>2 DEF Turn
<1> HIDE DEF Is
<1>8. Is(All)
  BY <1>7
<1> HIDE DEF All
<1>9. All = [n \in 0..N |-> IF n = 0 THEN <<>> ELSE Turn(n, All[n - 1])]
  BY <1>8 DEF Is, Turn
<1>10. All[0] = <<>> /\ \A n \in 1..N : All[n] = Turn(n, All[n - 1])
  <2>1. 0 \in 0..N /\ \A n \in 1..N : n \in 0..N /\ n # 0
    BY <1>1
  <2> QED
    BY <1>9, <2>1
<1> DEFINE Upto(t, n) == \E i \in 1..n : next[i] = t
           T == {n \in 0..N : /\ All[n] \in V
                              /\ \A t : In(t, All[n]) <=> Upto(t, n) /\ GoesOn(m, t)}
<1>11. 0 \in T
  <2>1. 0 \in 0..N /\ \A t : ~In(t, <<>>)
    BY <1>1, EmptySeq DEF In
  <2> QED
    BY <1>1, <1>10, <2>1
<1>12. ASSUME NEW n \in 0..N - 1, n \in T PROVE n + 1 \in T
  <2> DEFINE k == n + 1
             x == next[k]
             back == All[n]
  <2>1. k \in 1..N /\ k \in 0..N /\ k - 1 = n
    BY <1>1
  <2>2. back \in V /\ x \in DfaStates /\ All[k] = Turn(k, back) /\ All[k] \in V
    BY <1>2, <1>10, <1>12, <2>1
  <2>3. ASSUME NEW t PROVE Upto(t, k) <=> Upto(t, n) \/ t = x
    <3>1. \A i \in 1..k : i \in 1..n \/ i = k
      BY <1>1
    <3>2. \A i \in 1..n : i \in 1..k
      BY <1>1
    <3>3. k \in 1..k
      BY <2>1
    <3> HIDE DEF k
    <3> QED
      BY <3>1, <3>2, <3>3
  <2>4. ASSUME NEW t PROVE In(t, All[k]) <=> Upto(t, k) /\ GoesOn(m, t)
    <3>1. In(t, back) <=> Upto(t, n) /\ GoesOn(m, t)
      BY <1>12
    <3> HIDE DEF k, x, back, Upto
    <3>2. CASE GoesOn(m, x)
      <4>1. All[k] = Append(back, x)
        BY <2>2, <3>2 DEF Turn, x
      <4>2. In(t, Append(back, x)) <=> In(t, back) \/ t = x
        BY <2>2, InAppend DEF V
      <4> QED
        BY <2>3, <3>1, <3>2, <4>1, <4>2
    <3>3. CASE ~GoesOn(m, x)
      <4>1. All[k] = back
        BY <2>2, <3>3 DEF Turn, x
      <4> QED
        BY <2>3, <3>1, <3>3, <4>1
    <3> QED
      BY <3>2, <3>3
  <2> HIDE DEF k, Upto
  <2>5. k \in T
    BY <2>1, <2>2, <2>4
  <2> QED
    BY <2>5 DEF k
<1>13. \A n \in 0..N : n \in T
  <2> HIDE DEF T
  <2> QED
    BY <1>1, <1>11, <1>12, InductionUpTo
<1>14. N \in 0..N
  BY <1>1
<1>15. All[N] \in V /\ \A t : In(t, All[N]) <=> Upto(t, N) /\ GoesOn(m, t)
  BY <1>13, <1>14
<1> QED
  BY <1>3, <1>15 DEF V, In, N, next
-----------------------------------------------------------------------------
(* The invariant, of counts c, waiting states l, edges es of the state cur *)
(* that are still to be followed, and states ms still to be marked.  P are *)
(* the edges that have been followed.                                      *)

Several2(t) == \E w1, w2 : IsWalk(w1, t) /\ IsWalk(w2, t) /\ w1 # w2

\* how many edges of cur have been followed
Place(cur, es) == Len(Targets(cur)) - Len(es)

ListsTyped(c, l, es, ms) ==
  /\ c \in [DfaStates -> 0..2] /\ c[DfaInit] # 0
  /\ l \in Seq(DfaStates) /\ es \in Seq(DfaStates) /\ ms \in Seq(DfaStates)

\* es are the last edges of cur, and none of them has been followed
Current(cur, P, c, l, es) ==
  /\ cur \in DfaStates
  /\ Place(cur, es) \in Nat
  /\ \A i \in 1..Len(es) : /\ es[i] = Targets(cur)[Place(cur, es) + i]
                           /\ <<cur, Place(cur, es) + i>> \notin P
  /\ es # <<>> => c[cur] # 0 /\ ~In(cur, l)

\* followed edges join states that have been reached, and no waiting one
Followed(P, c, l) ==
  /\ P \subseteq EdgeSet
  /\ \A e \in P : c[e[1]] # 0 /\ c[End(e)] # 0 /\ ~In(e[1], l)

\* each edge behind a state counted once was followed or will be
Waiting(cur, P, c, l, es) ==
  \A e \in EdgeSet : c[e[1]] = 1 =>
    \/ e \in P
    \/ In(e[1], l)
    \/ e[1] = cur /\ e[2] > Place(cur, es)

\* each state behind a marked one is marked or will be
Marked(c, ms) == \A e \in EdgeSet : c[e[1]] = 2 => c[End(e)] = 2 \/ In(End(e), ms)

\* a state that is counted once was reached by one edge, the initial state by none
ReachedOnce(P, c, ms) ==
  \A t \in DfaStates : c[t] = 1 /\ ~In(t, ms) =>
    /\ \A e, f \in P : End(e) = t /\ End(f) = t => e = f
    /\ t = DfaInit => \A e \in P : End(e) # t

\* the counts are those of walks that exist
Witnessed(P, c, ms) ==
  \A t \in DfaStates :
    /\ c[t] = 1 => \E w : IsWalk(w, t) /\ (w # <<>> => w[Len(w)] \in P)
    /\ c[t] = 2 \/ In(t, ms) => Several2(t)

\* no state waits twice
WaitOnce(c, l) ==
  /\ \A i, j \in 1..Len(l) : l[i] = l[j] => i = j
  /\ \A t : In(t, l) => c[t] # 0

SearchInv(cur, P, c, l, es, ms) ==
  /\ ListsTyped(c, l, es, ms)
  /\ Current(cur, P, c, l, es)
  /\ Followed(P, c, l)
  /\ Waiting(cur, P, c, l, es)
  /\ Marked(c, ms)
  /\ ReachedOnce(P, c, ms)
  /\ Witnessed(P, c, ms)
  /\ WaitOnce(c, l)

-----------------------------------------------------------------------------
(* The turns of the loops keep it.                                         *)

LEMMA NotIn == \A x : ~In(x, <<>>)
BY EmptySeq DEF In

LEMMA WalkThere ==
  ASSUME NEW P, NEW c \in [DfaStates -> 0..2], NEW ms, Witnessed(P, c, ms), NEW t \in DfaStates, c[t] # 0
  PROVE  \E w : IsWalk(w, t)
<1>1. c[t] = 1 \/ c[t] = 2
  OBVIOUS
<1> QED
  BY <1>1 DEF Witnessed, Several2

\* pop a state from left_nodes
LEMMA TakeKeeps ==
  ASSUME TargetsThere, NEW cur, NEW P, NEW c, NEW l, l # <<>>, SearchInv(cur, P, c, l, <<>>, <<>>)
  PROVE  SearchInv(Last(l), P, c, Front(l), Targets(Last(l)), <<>>)
<1> DEFINE u == Last(l)
           k == Front(l)
           es == Targets(u)
<1>1. ListsTyped(c, l, <<>>, <<>>) /\ WaitOnce(c, l) /\ Followed(P, c, l)
  BY DEF SearchInv
<1>2. l \in Seq(DfaStates) /\ Len(l) \in Nat
  BY <1>1, LenProperties DEF ListsTyped
<1>3. /\ u \in DfaStates /\ k \in Seq(DfaStates) /\ In(u, l) /\ Len(k) = Len(l) - 1
      /\ \A i \in 1..Len(l) - 1 : k[i] = l[i]
      /\ \A y : In(y, l) <=> In(y, k) \/ y = u
  BY <1>2, TakenOff
<1>4. ~In(u, k)
  <2> SUFFICES ASSUME In(u, k) PROVE FALSE
    OBVIOUS
  <2>1. PICK i \in 1..Len(k) : k[i] = u
    BY DEF In
  <2>2. i \in 1..Len(l) - 1 /\ i \in 1..Len(l) /\ Len(l) \in 1..Len(l) /\ i # Len(l)
    BY <1>2, <1>3, <2>1
  <2>3. l[i] = u /\ l[Len(l)] = u
    BY <1>3, <2>1, <2>2 DEF Last
  <2> QED
    BY <1>1, <2>2, <2>3 DEF WaitOnce
<1>5. es \in Seq(DfaStates) /\ Len(es) \in Nat
  BY <1>3, LenProperties DEF TargetsThere
<1> HIDE DEF u, k
<1>6. Place(u, es) = 0
  BY <1>5 DEF Place
<1>7. ListsTyped(c, k, es, <<>>)
  BY <1>1, <1>3, <1>5 DEF ListsTyped
<1>8. Current(u, P, c, k, es)
  <2>1. \A i \in 1..Len(es) : Place(u, es) + i = i
    BY <1>5, <1>6
  <2>2. \A i \in 1..Len(es) : <<u, i>> \notin P
    BY <1>1, <1>3 DEF Followed
  <2>3. c[u] # 0
    BY <1>1, <1>3 DEF WaitOnce
  <2> QED
    BY <1>3, <1>4, <1>6, <2>1, <2>2, <2>3 DEF Current
<1>9. Followed(P, c, k)
  BY <1>1, <1>3 DEF Followed
<1>10. Waiting(u, P, c, k, es)
  <2> SUFFICES ASSUME NEW e \in EdgeSet, c[e[1]] = 1, e \notin P, ~In(e[1], k)
               PROVE  e[1] = u /\ e[2] > 0
    BY <1>6 DEF Waiting
  <2>1. e[1] \in DfaStates /\ e[2] \in 1..Len(Targets(e[1])) /\ Len(Targets(e[1])) \in Nat
    BY LenProperties DEF EdgeSet, TargetsThere
  <2>2. In(e[1], l) \/ (e[1] = cur /\ e[2] > Place(cur, <<>>))
    BY DEF SearchInv, Waiting
  <2>3. ~(e[1] = cur /\ e[2] > Place(cur, <<>>))
    BY <2>1, EmptySeq DEF Place
  <2> QED
    BY <1>3, <2>1, <2>2, <2>3
<1>11. Marked(c, <<>>) /\ ReachedOnce(P, c, <<>>) /\ Witnessed(P, c, <<>>)
  BY DEF SearchInv
<1>12. WaitOnce(c, k)
  <2>1. \A i \in 1..Len(k) : i \in 1..Len(l) /\ k[i] = l[i]
    BY <1>2, <1>3
  <2> QED
    BY <1>1, <1>3, <2>1 DEF WaitOnce
<1> QED
  BY <1>7, <1>8, <1>9, <1>10, <1>11, <1>12 DEF SearchInv, u, k
\* the next edge of cur, which is being followed
Next_(cur, es) == <<cur, Place(cur, es) + 1>>

EdgeIsNext(cur, P, c, l, es) ==
  /\ Next_(cur, es) \in EdgeSet /\ Next_(cur, es) \notin P
  /\ End(Next_(cur, es)) = Head(es) /\ Head(es) \in DfaStates /\ Tail(es) \in Seq(DfaStates)
  /\ Next_(cur, es)[1] = cur /\ cur \in DfaStates /\ c[cur] # 0 /\ ~In(cur, l)
  /\ Place(cur, es) \in Nat /\ Place(cur, Tail(es)) = Place(cur, es) + 1
  /\ \A i \in 1..Len(Tail(es)) :
       /\ Tail(es)[i] = Targets(cur)[Place(cur, Tail(es)) + i]
       /\ <<cur, Place(cur, Tail(es)) + i>> \notin P \cup {Next_(cur, es)}

LEMMA NextEdge ==
  ASSUME TargetsThere, NEW cur, NEW P, NEW c, NEW l, NEW es, es # <<>>,
         SearchInv(cur, P, c, l, es, <<>>)
  PROVE  EdgeIsNext(cur, P, c, l, es)
<1> DEFINE k == Place(cur, es)
           n == Len(es)
           ts == Tail(es)
<1>1. /\ es \in Seq(DfaStates) /\ cur \in DfaStates /\ k \in Nat /\ c[cur] # 0 /\ ~In(cur, l)
      /\ \A i \in 1..n : es[i] = Targets(cur)[k + i] /\ <<cur, k + i>> \notin P
  BY DEF SearchInv, ListsTyped, Current
<1>2. n \in Nat /\ n >= 1 /\ Len(Targets(cur)) \in Nat /\ k = Len(Targets(cur)) - n
  <2>1. n \in Nat /\ n # 0
    BY <1>1, EmptySeq, LenProperties
  <2>2. Len(Targets(cur)) \in Nat
    BY <1>1, LenProperties DEF TargetsThere
  <2> QED
    BY <2>1, <2>2 DEF Place
<1>3. /\ Head(es) = es[1] /\ ts \in Seq(DfaStates) /\ Len(ts) = n - 1
      /\ \A i \in 1..n - 1 : ts[i] = es[i + 1]
  BY <1>1, HeadTailProperties
<1> HIDE DEF n, ts
<1>4. 1 \in 1..n /\ k + 1 \in 1..Len(Targets(cur))
  BY <1>1, <1>2
<1>5. Next_(cur, es) = <<cur, k + 1>> /\ Head(es) = Targets(cur)[k + 1] /\ Head(es) \in DfaStates
  BY <1>1, <1>3, <1>4, ElementOfSeq DEF Next_, n
<1>6. Next_(cur, es) \in EdgeSet /\ Next_(cur, es) \notin P /\ End(Next_(cur, es)) = Head(es)
  BY <1>1, <1>4, <1>5 DEF EdgeSet, End
<1>7. Place(cur, ts) = k + 1
  <2>1. Place(cur, ts) = Len(Targets(cur)) - (n - 1)
    BY <1>3 DEF Place
  <2> QED
    BY <1>2, <2>1
<1>8. ASSUME NEW i \in 1..Len(ts)
      PROVE  ts[i] = Targets(cur)[(k + 1) + i] /\ <<cur, (k + 1) + i>> \notin P \cup {Next_(cur, es)}
  <2>1. i \in 1..n - 1 /\ i + 1 \in 1..n /\ k + (i + 1) = (k + 1) + i /\ (k + 1) + i # k + 1
    BY <1>1, <1>2, <1>3
  <2>2. ts[i] = es[i + 1]
    BY <1>3, <2>1
  <2>3. es[i + 1] = Targets(cur)[k + (i + 1)] /\ <<cur, k + (i + 1)>> \notin P
    BY <1>1, <2>1
  <2> HIDE DEF k
  <2>4. <<cur, (k + 1) + i>> # Next_(cur, es)
    BY <1>5, <2>1
  <2> QED
    BY <2>1, <2>2, <2>3, <2>4
<1> HIDE DEF k
<1>9. Next_(cur, es)[1] = cur
  BY <1>5
<1> QED
  BY <1>1, <1>3, <1>5, <1>6, <1>7, <1>8, <1>9 DEF ts, k, EdgeIsNext

\* What following an edge does to the current state, the edges and those that wait,
\* whether its target is new or not.
LEMMA FollowKeeps ==
  ASSUME TargetsThere, NEW cur, NEW P, NEW c, NEW l, NEW es, es # <<>>,
         SearchInv(cur, P, c, l, es, <<>>), NEW c2, NEW l2,
         \A s \in DfaStates : c[s] # 0 => c2[s] # 0,
         \A s \in DfaStates : c2[s] = 1 => c[s] = 1 \/ In(s, l2),
         c2[Head(es)] # 0,
         \A s \in DfaStates : In(s, l) => In(s, l2),
         \A s \in DfaStates : In(s, l2) => In(s, l) \/ c[s] = 0
  PROVE  /\ Current(cur, P \cup {Next_(cur, es)}, c2, l2, Tail(es))
         /\ Followed(P \cup {Next_(cur, es)}, c2, l2)
         /\ Waiting(cur, P \cup {Next_(cur, es)}, c2, l2, Tail(es))
<1> DEFINE e0 == Next_(cur, es)
           Q  == P \cup {e0}
           ts == Tail(es)
<1>1. /\ e0 \in EdgeSet /\ e0 \notin P /\ End(e0) = Head(es) /\ Head(es) \in DfaStates
      /\ e0[1] = cur /\ cur \in DfaStates /\ c[cur] # 0 /\ ~In(cur, l)
      /\ Place(cur, es) \in Nat /\ Place(cur, ts) = Place(cur, es) + 1
      /\ \A i \in 1..Len(ts) : /\ ts[i] = Targets(cur)[Place(cur, ts) + i]
                               /\ <<cur, Place(cur, ts) + i>> \notin Q
  <2>1. EdgeIsNext(cur, P, c, l, es)
    BY NextEdge
  <2> QED
    BY <2>1 DEF EdgeIsNext
<1>2. e0 = <<cur, Place(cur, es) + 1>>
  BY DEF Next_
<1> HIDE DEF e0, ts
<1>3. Current(cur, Q, c2, l2, ts)
  BY <1>1 DEF Current
<1>4. Followed(Q, c2, l2)
  <2>1. P \subseteq EdgeSet /\ \A e \in P : c[e[1]] # 0 /\ c[End(e)] # 0 /\ ~In(e[1], l)
    BY DEF SearchInv, Followed
  <2>2. \A e \in P : e[1] \in DfaStates /\ End(e) \in DfaStates
    BY <2>1, EdgeFacts
  <2> QED
    BY <1>1, <2>1, <2>2 DEF Followed
<1>5. Waiting(cur, Q, c2, l2, ts)
  <2> SUFFICES ASSUME NEW e \in EdgeSet, c2[e[1]] = 1, e \notin Q, ~In(e[1], l2)
               PROVE  e[1] = cur /\ e[2] > Place(cur, ts)
    BY DEF Waiting
  <2>1. e[1] \in DfaStates /\ e[2] \in Nat /\ e = <<e[1], e[2]>>
    BY EdgeFacts
  <2>2. e[1] = cur /\ e[2] > Place(cur, es)
    BY <2>1 DEF SearchInv, Waiting
  <2>3. e[2] # Place(cur, es) + 1
    BY <1>2, <2>1, <2>2
  <2> QED
    BY <1>1, <2>1, <2>2, <2>3
<1> QED
  BY <1>3, <1>4, <1>5 DEF e0, ts

\* a first way to a state
LEMMA NewKeeps ==
  ASSUME TargetsThere, NEW cur, NEW P, NEW c, NEW l, NEW es, es # <<>>,
         SearchInv(cur, P, c, l, es, <<>>), c[Head(es)] = 0
  PROVE  SearchInv(cur, P \cup {Next_(cur, es)}, [c EXCEPT ![Head(es)] = 1],
                   Append(l, Head(es)), Tail(es), <<>>)
<1> DEFINE t  == Head(es)
           e0 == Next_(cur, es)
           Q  == P \cup {e0}
           c2 == [c EXCEPT ![t] = 1]
           l2 == Append(l, t)
<1>1. /\ ListsTyped(c, l, es, <<>>) /\ Followed(P, c, l) /\ Marked(c, <<>>)
      /\ ReachedOnce(P, c, <<>>) /\ Witnessed(P, c, <<>>) /\ WaitOnce(c, l)
  BY DEF SearchInv
<1>2. /\ e0 \in EdgeSet /\ End(e0) = t /\ t \in DfaStates /\ Tail(es) \in Seq(DfaStates)
      /\ e0[1] = cur /\ cur \in DfaStates /\ c[cur] # 0
  <2>1. EdgeIsNext(cur, P, c, l, es)
    BY NextEdge
  <2> QED
    BY <2>1 DEF EdgeIsNext
<1>3. c \in [DfaStates -> 0..2] /\ c[DfaInit] # 0 /\ l \in Seq(DfaStates)
  BY <1>1 DEF ListsTyped
<1> HIDE DEF t, e0
<1>4. /\ c2 \in [DfaStates -> 0..2] /\ c2[t] = 1 /\ \A s \in DfaStates : s # t => c2[s] = c[s]
  BY <1>2, <1>3
<1>5. l2 \in Seq(DfaStates) /\ \A s : In(s, l2) <=> In(s, l) \/ s = t
  BY <1>2, <1>3, InAppend, AppendProperties
<1> HIDE DEF c2, l2
<1>6. c[t] = 0
  BY DEF t
<1>7. ListsTyped(c2, l2, Tail(es), <<>>)
  BY <1>1, <1>2, <1>3, <1>4, <1>5, <1>6 DEF ListsTyped, TargetsThere
<1>8. Current(cur, Q, c2, l2, Tail(es)) /\ Followed(Q, c2, l2) /\ Waiting(cur, Q, c2, l2, Tail(es))
  <2>1. /\ \A s \in DfaStates : c[s] # 0 => c2[s] # 0
        /\ \A s \in DfaStates : c2[s] = 1 => c[s] = 1 \/ In(s, l2)
        /\ c2[Head(es)] # 0
        /\ \A s \in DfaStates : In(s, l) => In(s, l2)
        /\ \A s \in DfaStates : In(s, l2) => In(s, l) \/ c[s] = 0
    BY <1>4, <1>5, <1>6 DEF t
  <2> QED
    BY <2>1, FollowKeeps DEF e0
<1>9. Marked(c2, <<>>)
  <2> SUFFICES ASSUME NEW e \in EdgeSet, c2[e[1]] = 2 PROVE c2[End(e)] = 2
    BY DEF Marked
  <2>1. e[1] \in DfaStates /\ End(e) \in DfaStates /\ c[e[1]] = 2
    BY <1>4, EdgeFacts
  <2>2. c[End(e)] = 2
    BY <1>1, <2>1, NotIn DEF Marked
  <2> QED
    BY <1>4, <1>6, <2>1, <2>2
<1>10. ASSUME NEW e \in P PROVE End(e) # t /\ e \in EdgeSet
  BY <1>1, <1>6 DEF Followed
<1>11. ReachedOnce(Q, c2, <<>>)
  <2> SUFFICES ASSUME NEW s \in DfaStates, c2[s] = 1
               PROVE  /\ \A e, f \in Q : End(e) = s /\ End(f) = s => e = f
                      /\ s = DfaInit => \A e \in Q : End(e) # s
    BY DEF ReachedOnce
  <2>1. CASE s = t
    BY <1>3, <1>6, <1>10, <2>1
  <2>2. CASE s # t
    <3>1. c[s] = 1
      BY <1>4, <2>2
    <3> QED
      BY <1>1, <1>2, <2>2, <3>1, NotIn DEF ReachedOnce
  <2> QED
    BY <2>1, <2>2
<1>12. Witnessed(Q, c2, <<>>)
  <2>1. \E w : IsWalk(w, t) /\ (w # <<>> => w[Len(w)] \in Q)
    <3>1. PICK w : IsWalk(w, cur)
      BY <1>1, <1>2, <1>3, WalkThere
    <3>2. IsWalk(Append(w, e0), t)
      BY <1>2, <3>1, WalkOn
    <3>3. Append(w, e0)[Len(Append(w, e0))] = e0
      BY <1>2, <3>1, AppendProperties DEF IsWalk
    <3> QED
      BY <3>2, <3>3
  <2>2. ASSUME NEW s \in DfaStates, s # t
        PROVE  /\ c2[s] = 1 => \E w : IsWalk(w, s) /\ (w # <<>> => w[Len(w)] \in Q)
               /\ c2[s] = 2 => Several2(s)
    BY <1>1, <1>4, <2>2 DEF Witnessed
  <2> QED
    BY <1>4, <2>1, <2>2, NotIn DEF Witnessed
<1>13. WaitOnce(c2, l2)
  <2>1. ~In(t, l)
    BY <1>1, <1>6 DEF WaitOnce
  <2>2. \A i, j \in 1..Len(l2) : l2[i] = l2[j] => i = j
    <3> DEFINE n == Len(l)
    <3>1. n \in Nat /\ Len(l2) = n + 1 /\ l2[n + 1] = t /\ \A i \in 1..n : l2[i] = l[i]
      BY <1>2, <1>3, AppendProperties, LenProperties DEF l2
    <3>2. \A i \in 1..n : l[i] # t
      BY <2>1 DEF In
    <3>3. \A i, j \in 1..n : l[i] = l[j] => i = j
      BY <1>1 DEF WaitOnce
    <3> HIDE DEF n
    <3>4. \A i \in 1..n + 1 : i \in 1..n \/ i = n + 1
      BY <3>1
    <3> QED
      BY <3>1, <3>2, <3>3, <3>4
  <2>3. \A s : In(s, l2) => c2[s] # 0
    <3>1. \A s : In(s, l) => s \in DfaStates /\ c[s] # 0
      BY <1>1, <1>3, ElementOfSeq DEF In, WaitOnce
    <3> QED
      BY <1>4, <1>5, <3>1
  <2> QED
    BY <2>2, <2>3 DEF WaitOnce
<1> QED
  BY <1>7, <1>8, <1>9, <1>11, <1>12, <1>13 DEF SearchInv, c2, l2, t, e0
\* a second way
LEMMA SecondKeeps ==
  ASSUME TargetsThere, NEW cur, NEW P, NEW c, NEW l, NEW es, es # <<>>,
         SearchInv(cur, P, c, l, es, <<>>), c[Head(es)] = 1
  PROVE  SearchInv(cur, P \cup {Next_(cur, es)}, c, l, Tail(es), <<Head(es)>>)
<1> DEFINE t  == Head(es)
           e0 == Next_(cur, es)
           Q  == P \cup {e0}
           ms == <<t>>
<1>1. /\ ListsTyped(c, l, es, <<>>) /\ Followed(P, c, l) /\ Marked(c, <<>>)
      /\ ReachedOnce(P, c, <<>>) /\ Witnessed(P, c, <<>>) /\ WaitOnce(c, l)
  BY DEF SearchInv
<1>2. /\ e0 \in EdgeSet /\ e0 \notin P /\ End(e0) = t /\ t \in DfaStates /\ Tail(es) \in Seq(DfaStates)
      /\ e0[1] = cur /\ cur \in DfaStates /\ c[cur] # 0
  <2>1. EdgeIsNext(cur, P, c, l, es)
    BY NextEdge
  <2> QED
    BY <2>1 DEF EdgeIsNext
<1>3. c \in [DfaStates -> 0..2] /\ c[DfaInit] # 0 /\ l \in Seq(DfaStates) /\ c[t] = 1
  BY <1>1 DEF ListsTyped
<1>4. Current(cur, Q, c, l, Tail(es)) /\ Followed(Q, c, l) /\ Waiting(cur, Q, c, l, Tail(es))
  BY <1>3, FollowKeeps
<1> HIDE DEF t, e0
<1>5. ms \in Seq(DfaStates) /\ \A s : In(s, ms) <=> s = t
  <2>1. ms \in Seq(DfaStates) /\ Len(ms) = 1 /\ ms[1] = t
    BY <1>2
  <2> HIDE DEF ms
  <2> QED
    BY <2>1 DEF In
<1> HIDE DEF ms
<1>6. ListsTyped(c, l, Tail(es), ms)
  BY <1>1, <1>2, <1>5 DEF ListsTyped
<1>7. Marked(c, ms)
  BY <1>1, NotIn DEF Marked
<1>8. ReachedOnce(Q, c, ms)
  BY <1>1, <1>2, <1>5, NotIn DEF ReachedOnce
<1>9. Several2(t)
  <2>1. PICK w1 : IsWalk(w1, t) /\ (w1 # <<>> => w1[Len(w1)] \in P)
    BY <1>1, <1>2, <1>3 DEF Witnessed
  <2>2. PICK w : IsWalk(w, cur)
    BY <1>1, <1>2, <1>3, WalkThere
  <2> DEFINE w2 == Append(w, e0)
  <2>3. IsWalk(w2, t)
    BY <1>2, <2>2, WalkOn
  <2>4. w2 # <<>> /\ w2[Len(w2)] = e0
    BY <1>2, <2>2, AppendProperties DEF IsWalk
  <2> HIDE DEF w2
  <2>5. w1 # w2
    BY <1>2, <2>1, <2>4
  <2> QED
    BY <2>1, <2>3, <2>5 DEF Several2
<1>10. Witnessed(Q, c, ms)
  BY <1>1, <1>5, <1>9 DEF Witnessed
<1> QED
  BY <1>1, <1>4, <1>6, <1>7, <1>8, <1>10 DEF SearchInv, t, e0, ms

\* one way more to a state that has several
LEMMA OldKeeps ==
  ASSUME TargetsThere, NEW cur, NEW P, NEW c, NEW l, NEW es, es # <<>>,
         SearchInv(cur, P, c, l, es, <<>>), c[Head(es)] = 2
  PROVE  SearchInv(cur, P \cup {Next_(cur, es)}, c, l, Tail(es), <<>>)
<1> DEFINE t  == Head(es)
           e0 == Next_(cur, es)
           Q  == P \cup {e0}
<1>1. /\ ListsTyped(c, l, es, <<>>) /\ Marked(c, <<>>)
      /\ ReachedOnce(P, c, <<>>) /\ Witnessed(P, c, <<>>) /\ WaitOnce(c, l)
  BY DEF SearchInv
<1>2. /\ e0 \in EdgeSet /\ End(e0) = t /\ t \in DfaStates /\ Tail(es) \in Seq(DfaStates)
  <2>1. EdgeIsNext(cur, P, c, l, es)
    BY NextEdge
  <2> QED
    BY <2>1 DEF EdgeIsNext
<1>3. c \in [DfaStates -> 0..2] /\ c[t] = 2
  BY <1>1 DEF ListsTyped
<1>4. Current(cur, Q, c, l, Tail(es)) /\ Followed(Q, c, l) /\ Waiting(cur, Q, c, l, Tail(es))
  BY <1>3, FollowKeeps
<1> HIDE DEF t, e0
<1>5. ListsTyped(c, l, Tail(es), <<>>)
  BY <1>1, <1>2 DEF ListsTyped
<1>6. ReachedOnce(Q, c, <<>>)
  BY <1>1, <1>2, <1>3 DEF ReachedOnce
<1>7. Witnessed(Q, c, <<>>)
  BY <1>1 DEF Witnessed
<1> QED
  BY <1>1, <1>4, <1>5, <1>6, <1>7 DEF SearchInv, t, e0

\* several ways to m make several to each state behind it
LEMMA SeveralOn ==
  ASSUME TargetsThere, NEW e \in EdgeSet, Several2(e[1])
  PROVE  Several2(End(e))
<1>1. PICK w1, w2 : IsWalk(w1, e[1]) /\ IsWalk(w2, e[1]) /\ w1 # w2
  BY DEF Several2
<1>2. IsWalk(Append(w1, e), End(e)) /\ IsWalk(Append(w2, e), End(e))
  BY <1>1, WalkOn
<1>3. Append(w1, e) # Append(w2, e)
  <2>1. w1 \in Seq(EdgeSet) /\ w2 \in Seq(EdgeSet)
    BY <1>1 DEF IsWalk
  <2> SUFFICES ASSUME Append(w1, e) = Append(w2, e) PROVE w1 = w2
    BY <1>1
  <2>2. /\ Len(Append(w1, e)) = Len(w1) + 1 /\ Len(Append(w2, e)) = Len(w2) + 1
        /\ Len(w1) \in Nat /\ Len(w2) \in Nat
        /\ \A i \in 1..Len(w1) : Append(w1, e)[i] = w1[i]
        /\ \A i \in 1..Len(w2) : Append(w2, e)[i] = w2[i]
    BY <2>1, AppendProperties, LenProperties
  <2>3. Len(w1) = Len(w2) /\ \A i \in 1..Len(w1) : w1[i] = w2[i]
    BY <2>2
  <2> QED
    BY <2>1, <2>3, SeqEqual
<1> QED
  BY <1>2, <1>3 DEF Several2

\* mark a state, and go on with those behind it
LEMMA MarkKeeps ==
  ASSUME TargetsThere, NEW cur, NEW P, NEW c, NEW l, NEW es, NEW ms, ms # <<>>,
         SearchInv(cur, P, c, l, es, ms), NEW b \in Seq(DfaStates),
         \A t : In(t, b) <=> In(t, Targets(Last(ms))) /\ t # Last(ms) /\ c[t] # 2
  PROVE  SearchInv(cur, P, [c EXCEPT ![Last(ms)] = 2], l, es, Front(ms) \o b)
<1> DEFINE m  == Last(ms)
           c2 == [c EXCEPT ![m] = 2]
           ns == Front(ms) \o b
<1>1. /\ ListsTyped(c, l, es, ms) /\ Current(cur, P, c, l, es) /\ Followed(P, c, l)
      /\ Waiting(cur, P, c, l, es) /\ Marked(c, ms)
      /\ ReachedOnce(P, c, ms) /\ Witnessed(P, c, ms) /\ WaitOnce(c, l)
  BY DEF SearchInv
<1>2. c \in [DfaStates -> 0..2] /\ ms \in Seq(DfaStates) /\ l \in Seq(DfaStates)
  BY <1>1 DEF ListsTyped
<1>3. /\ m \in DfaStates /\ Front(ms) \in Seq(DfaStates) /\ In(m, ms)
      /\ \A s : In(s, ms) <=> In(s, Front(ms)) \/ s = m
  BY <1>2, TakenOff
<1>4. ns \in Seq(DfaStates) /\ \A s : In(s, ns) <=> In(s, Front(ms)) \/ In(s, b)
  BY <1>3, InConcat, ConcatProperties
<1>5. \A s : In(s, b) <=> In(s, Targets(m)) /\ s # m /\ c[s] # 2
  OBVIOUS
<1> HIDE DEF m, ns
<1>6. c2 \in [DfaStates -> 0..2] /\ c2[m] = 2 /\ \A s \in DfaStates : s # m => c2[s] = c[s]
  BY <1>2, <1>3
<1> HIDE DEF c2
<1>7. \A s \in DfaStates : (c[s] # 0 => c2[s] # 0) /\ (c2[s] = 1 => c[s] = 1 /\ s # m)
                           /\ (c[s] = 2 => c2[s] = 2)
  BY <1>6
<1>8. \A s : In(s, ms) => In(s, ns) \/ s = m
  BY <1>3, <1>4
<1>9. ListsTyped(c2, l, es, ns)
  BY <1>1, <1>4, <1>6, <1>7 DEF ListsTyped, TargetsThere
<1>10. Current(cur, P, c2, l, es)
  BY <1>1, <1>7 DEF Current
<1>11. Followed(P, c2, l)
  <2>1. \A e \in P : e \in EdgeSet /\ e[1] \in DfaStates /\ End(e) \in DfaStates
    BY <1>1, EdgeFacts DEF Followed
  <2> QED
    BY <1>1, <1>7, <2>1 DEF Followed
<1>12. Waiting(cur, P, c2, l, es)
  <2>1. \A e \in EdgeSet : e[1] \in DfaStates
    BY EdgeFacts
  <2> QED
    BY <1>1, <1>7, <2>1 DEF Waiting
<1>13. \A e \in EdgeSet : e[1] = m => In(End(e), Targets(m))
  BY DEF EdgeSet, End, In
<1>14. Marked(c2, ns)
  <2> SUFFICES ASSUME NEW e \in EdgeSet, c2[e[1]] = 2 PROVE c2[End(e)] = 2 \/ In(End(e), ns)
    BY DEF Marked
  <2>1. e[1] \in DfaStates /\ End(e) \in DfaStates
    BY EdgeFacts
  <2>2. CASE e[1] = m
    BY <1>4, <1>5, <1>6, <1>7, <1>13, <2>1, <2>2
  <2>3. CASE e[1] # m
    BY <1>1, <1>6, <1>7, <1>8, <2>1, <2>3 DEF Marked
  <2> QED
    BY <2>2, <2>3
<1>15. ReachedOnce(P, c2, ns)
  BY <1>1, <1>7, <1>8 DEF ReachedOnce
<1>16. Witnessed(P, c2, ns)
  <2>1. Several2(m)
    BY <1>1, <1>3 DEF Witnessed
  <2>2. ASSUME NEW s \in DfaStates, In(s, Targets(m)) PROVE Several2(s)
    <3>1. PICK i \in 1..Len(Targets(m)) : Targets(m)[i] = s
      BY <2>2 DEF In
    <3>2. Len(Targets(m)) \in Nat
      BY <1>3, LenProperties DEF TargetsThere
    <3>3. <<m, i>> \in EdgeSet /\ End(<<m, i>>) = s /\ <<m, i>>[1] = m
      BY <1>3, <3>1, <3>2 DEF EdgeSet, End
    <3> QED
      BY <2>1, <3>3, SeveralOn
  <2>3. ASSUME NEW s \in DfaStates, c2[s] = 2 \/ In(s, ns) PROVE Several2(s)
    <3>1. s = m \/ c[s] = 2 \/ In(s, ms) \/ In(s, Targets(m))
      BY <1>3, <1>4, <1>5, <1>6, <2>3
    <3> QED
      BY <1>1, <2>1, <2>2, <3>1 DEF Witnessed
  <2> QED
    BY <1>1, <1>7, <2>3 DEF Witnessed
<1>17. WaitOnce(c2, l)
  <2>1. \A s : In(s, l) => s \in DfaStates
    BY <1>2, ElementOfSeq DEF In
  <2> QED
    BY <1>1, <1>7, <2>1 DEF WaitOnce
<1> QED
  BY <1>9, <1>10, <1>11, <1>12, <1>14, <1>15, <1>16, <1>17 DEF SearchInv, c2, ns, m

\* the search begins
LEMMA StartsRight ==
  ASSUME TargetsThere
  PROVE  SearchInv(DfaInit, {}, [s \in DfaStates |-> IF s = DfaInit THEN 1 ELSE 0],
                   <<DfaInit>>, <<>>, <<>>)
<1> DEFINE c == [s \in DfaStates |-> IF s = DfaInit THEN 1 ELSE 0]
           l == <<DfaInit>>
<1>1. DfaInit \in DfaStates
  BY DEF TargetsThere
<1>2. c \in [DfaStates -> 0..2] /\ c[DfaInit] = 1 /\ \A s \in DfaStates : s # DfaInit => c[s] = 0
  BY <1>1
<1>3. /\ l \in Seq(DfaStates) /\ Len(l) = 1 /\ l[1] = DfaInit /\ <<>> \in Seq(DfaStates)
      /\ Len(<<>>) = 0
  BY <1>1, EmptySeq
<1> HIDE DEF c, l
<1>4. \A s : In(s, l) <=> s = DfaInit
  BY <1>3 DEF In
<1>5. ListsTyped(c, l, <<>>, <<>>)
  BY <1>2, <1>3 DEF ListsTyped
<1>6. Current(DfaInit, {}, c, l, <<>>)
  <2>1. Len(Targets(DfaInit)) \in Nat
    BY <1>1, LenProperties DEF TargetsThere
  <2> QED
    BY <1>1, <1>3, <2>1 DEF Current, Place
<1>7. Waiting(DfaInit, {}, c, l, <<>>)
  <2>1. \A e \in EdgeSet : e[1] \in DfaStates
    BY EdgeFacts
  <2> QED
    BY <1>2, <1>4, <2>1 DEF Waiting
<1>8. Marked(c, <<>>)
  <2>1. \A e \in EdgeSet : e[1] \in DfaStates
    BY EdgeFacts
  <2> QED
    BY <1>2, <2>1 DEF Marked
<1>9. Witnessed({}, c, <<>>)
  BY <1>2, NoWalk, NotIn DEF Witnessed
<1>10. WaitOnce(c, l)
  BY <1>2, <1>3, <1>4 DEF WaitOnce
<1>11. Followed({}, c, l) /\ ReachedOnce({}, c, <<>>)
  BY DEF Followed, ReachedOnce
<1> QED
  BY <1>5, <1>6, <1>7, <1>8, <1>9, <1>10, <1>11 DEF SearchInv, c, l

-----------------------------------------------------------------------------
(* What the invariant says when the search has ended.                      *)

LEMMA EndsRight ==
  ASSUME TargetsThere, NEW cur, NEW P, NEW c, SearchInv(cur, P, c, <<>>, <<>>, <<>>)
  PROVE  \A s \in DfaStates :
           /\ c[s] \in 0..2
           /\ c[s] = 0 <=> ~\E w : IsWalk(w, s)
           /\ c[s] = 2 <=> Several2(s)
<1>1. /\ c \in [DfaStates -> 0..2] /\ c[DfaInit] # 0
      /\ P \subseteq EdgeSet /\ \A e \in P : c[End(e)] # 0
  BY DEF SearchInv, ListsTyped, Followed
<1>2. \A e \in EdgeSet : c[e[1]] = 1 => e \in P
  <2> SUFFICES ASSUME NEW e \in EdgeSet, c[e[1]] = 1, e \notin P PROVE FALSE
    OBVIOUS
  <2>1. e[1] = cur /\ e[2] > Place(cur, <<>>)
    BY NotIn DEF SearchInv, Waiting
  <2>2. e[2] \in 1..Len(Targets(cur)) /\ Len(Targets(cur)) \in Nat
    BY <2>1, EdgeFacts, LenProperties DEF EdgeSet, TargetsThere
  <2> QED
    BY <2>1, <2>2, EmptySeq DEF Place
<1>3. \A e \in EdgeSet : c[e[1]] = 2 => c[End(e)] = 2
  BY NotIn DEF SearchInv, Marked
<1>4. \A s \in DfaStates : c[s] = 1 =>
        /\ \A e, f \in P : End(e) = s /\ End(f) = s => e = f
        /\ s = DfaInit => \A e \in P : End(e) # s
  BY NotIn DEF SearchInv, ReachedOnce
<1>5. \A s \in DfaStates : /\ c[s] = 1 => \E w : IsWalk(w, s)
                           /\ c[s] = 2 => Several2(s)
  BY DEF SearchInv, Witnessed
<1>6. \A e \in EdgeSet : e[1] \in DfaStates /\ End(e) \in DfaStates
  BY EdgeFacts
<1>7. \A s \in DfaStates : c[s] = 0 \/ c[s] = 1 \/ c[s] = 2
  BY <1>1
<1> DEFINE Reach(n) == \A w, s : IsWalk(w, s) /\ Len(w) = n => s \in DfaStates /\ c[s] # 0
           R == {n \in Nat : Reach(n)}
<1>8. 0 \in R
  <2>1. ASSUME NEW w, NEW s, IsWalk(w, s), Len(w) = 0 PROVE s \in DfaStates /\ c[s] # 0
    <3>1. w = <<>>
      BY <2>1, EmptySeq DEF IsWalk
    <3> QED
      BY <1>1, <2>1, <3>1 DEF IsWalk, TargetsThere
  <2> QED
    BY <2>1
<1>9. ASSUME NEW n \in Nat, n \in R PROVE n + 1 \in R
  <2>1. ASSUME NEW w, NEW s, IsWalk(w, s), Len(w) = n + 1 PROVE s \in DfaStates /\ c[s] # 0
    <3>1. w # <<>>
      BY <2>1, EmptySeq
    <3>2. PICK back, e : e \in EdgeSet /\ Len(w) = Len(back) + 1 /\ End(e) = s /\ IsWalk(back, e[1])
                      /\ back \in Seq(EdgeSet)
      BY <2>1, <3>1, WalkBack
    <3>3. Len(back) = n
      BY <2>1, <3>2, LenProperties
    <3>4. c[e[1]] # 0 /\ e[1] \in DfaStates
      BY <1>9, <3>2, <3>3
    <3>5. c[e[1]] = 1 \/ c[e[1]] = 2
      BY <1>7, <3>4
    <3> QED
      BY <1>1, <1>2, <1>3, <1>6, <3>2, <3>5
  <2> QED
    BY <2>1
<1>10. \A n \in Nat : n \in R
  <2> HIDE DEF R
  <2> QED
    BY <1>8, <1>9, Induction
<1>11. \A w, s : IsWalk(w, s) => c[s] # 0
  <2>1. \A w, s : IsWalk(w, s) => Len(w) \in Nat
    BY LenProperties DEF IsWalk
  <2> QED
    BY <1>10, <2>1
<1> DEFINE Same(n) == \A w1, w2, s : IsWalk(w1, s) /\ IsWalk(w2, s) /\ Len(w1) = n
                                       /\ s \in DfaStates /\ c[s] = 1 => w1 = w2
           U == {n \in Nat : Same(n)}
\* a walk to a state that is counted once ends with a followed edge
<1>12. ASSUME NEW w, NEW s \in DfaStates, IsWalk(w, s), c[s] = 1, w # <<>>
       PROVE  \E back, e : /\ e \in P /\ End(e) = s /\ w = Append(back, e) /\ back \in Seq(EdgeSet)
                        /\ Len(w) = Len(back) + 1 /\ IsWalk(back, e[1])
                        /\ e[1] \in DfaStates /\ c[e[1]] = 1
  <2>1. PICK back, e : /\ e \in EdgeSet /\ w = Append(back, e) /\ back \in Seq(EdgeSet) /\ End(e) = s
                    /\ Len(w) = Len(back) + 1 /\ IsWalk(back, e[1])
    BY <1>12, WalkBack
  <2>2. c[e[1]] # 0 /\ c[e[1]] # 2 /\ e[1] \in DfaStates
    BY <1>3, <1>6, <1>11, <1>12, <2>1
  <2>3. c[e[1]] = 1 /\ e \in P
    BY <1>2, <1>7, <2>1, <2>2
  <2> QED
    BY <2>1, <2>2, <2>3
<1>13. 0 \in U
  <2>1. ASSUME NEW w1, NEW w2, NEW s \in DfaStates, IsWalk(w1, s), IsWalk(w2, s), Len(w1) = 0, c[s] = 1
        PROVE  w1 = w2
    <3>1. w1 = <<>>
      BY <2>1, EmptySeq DEF IsWalk
    <3>2. s = DfaInit
      BY <2>1, <3>1 DEF IsWalk
    <3>3. w2 = <<>>
      <4> SUFFICES ASSUME w2 # <<>> PROVE FALSE
        OBVIOUS
      <4>1. \E e \in P : End(e) = s
        BY <1>12, <2>1
      <4> QED
        BY <1>4, <2>1, <3>2, <4>1
    <3> QED
      BY <3>1, <3>3
  <2> QED
    BY <2>1
<1>14. ASSUME NEW n \in Nat, n \in U PROVE n + 1 \in U
  <2>1. ASSUME NEW w1, NEW w2, NEW s \in DfaStates, IsWalk(w1, s), IsWalk(w2, s),
               Len(w1) = n + 1, c[s] = 1
        PROVE  w1 = w2
    <3>1. w1 # <<>>
      BY <2>1, EmptySeq
    <3>2. PICK v1, e : /\ e \in P /\ End(e) = s /\ w1 = Append(v1, e) /\ v1 \in Seq(EdgeSet)
                       /\ Len(w1) = Len(v1) + 1 /\ IsWalk(v1, e[1])
                       /\ e[1] \in DfaStates /\ c[e[1]] = 1
      BY <1>12, <2>1, <3>1
    <3>3. w2 # <<>>
      <4> SUFFICES ASSUME w2 = <<>> PROVE FALSE
        OBVIOUS
      <4>1. s = DfaInit
        BY <2>1 DEF IsWalk
      <4> QED
        BY <1>4, <2>1, <3>2, <4>1
    <3>4. PICK v2, f : /\ f \in P /\ End(f) = s /\ w2 = Append(v2, f) /\ v2 \in Seq(EdgeSet)
                       /\ IsWalk(v2, f[1])
      BY <1>12, <2>1, <3>3
    <3>5. e = f
      BY <1>4, <2>1, <3>2, <3>4
    <3>6. Len(v1) = n
      BY <2>1, <3>2, LenProperties
    <3>7. v1 = v2
      BY <1>14, <3>2, <3>4, <3>5, <3>6
    <3> QED
      BY <3>2, <3>4, <3>5, <3>7
  <2> QED
    BY <2>1
<1>15. \A n \in Nat : n \in U
  <2> HIDE DEF U
  <2> QED
    BY <1>13, <1>14, Induction
<1>16. ASSUME NEW s \in DfaStates, Several2(s) PROVE c[s] = 2
  <2>1. PICK w1, w2 : IsWalk(w1, s) /\ IsWalk(w2, s) /\ w1 # w2
    BY <1>16 DEF Several2
  <2>2. Len(w1) \in Nat
    BY <2>1, LenProperties DEF IsWalk
  <2>3. c[s] # 1 /\ c[s] # 0
    BY <1>11, <1>15, <2>1, <2>2
  <2> QED
    BY <1>7, <2>3
<1>17. ASSUME NEW s \in DfaStates PROVE c[s] # 0 => \E w : IsWalk(w, s)
  BY <1>5, <1>7 DEF Several2
<1> QED
  BY <1>1, <1>5, <1>11, <1>16, <1>17
-----------------------------------------------------------------------------
(* The steps.                                                              *)

Idle == left_nodes = <<>> /\ edges = <<>> /\ left_m_nodes = <<>>

Inv == /\ verdict \in {"loading", "refused", "undefined", "processing", "accepted"}
       /\ verdict # "processing" => Idle
       /\ Loaded /\ TargetsThere =>
            \E cur, P : SearchInv(cur, P, path_counts, left_nodes, edges, left_m_nodes)

\* nothing of this changes but with the tables
LEMMA SameDfa ==
  ASSUME grammar' = grammar
  PROVE  /\ TargetsThere' <=> TargetsThere
         /\ \A cur, P, c, l, es, ms :
              SearchInv(cur, P, c, l, es, ms)' <=> SearchInv(cur, P, c, l, es, ms)
<1>1. DfaStates' = DfaStates /\ DfaInit' = DfaInit
  BY DEF DfaStates, DfaInit
<1>2. \A s : Targets(s)' = Targets(s)
  BY DEF Targets
<1>3. TargetsThere' <=> TargetsThere
  BY <1>1, <1>2 DEF TargetsThere
<1>4. EdgeSet' = EdgeSet /\ \A e : End(e)' = End(e)
  BY <1>1, <1>2 DEF EdgeSet, End
<1>5. \A w, t : IsWalk(w, t)' <=> IsWalk(w, t)
  BY <1>1, <1>4 DEF IsWalk
<1>6. \A t : Several2(t)' <=> Several2(t)
  BY <1>5 DEF Several2
<1>7. \A cur, es : Place(cur, es)' = Place(cur, es)
  BY <1>2 DEF Place
<1>8. ASSUME NEW cur, NEW P, NEW c, NEW l, NEW es, NEW ms
      PROVE  SearchInv(cur, P, c, l, es, ms)' <=> SearchInv(cur, P, c, l, es, ms)
  <2>1. ListsTyped(c, l, es, ms)' <=> ListsTyped(c, l, es, ms)
    BY <1>1 DEF ListsTyped
  <2>2. Current(cur, P, c, l, es)' <=> Current(cur, P, c, l, es)
    BY <1>1, <1>2, <1>7 DEF Current
  <2>3. Followed(P, c, l)' <=> Followed(P, c, l)
    BY <1>4 DEF Followed
  <2>4. Waiting(cur, P, c, l, es)' <=> Waiting(cur, P, c, l, es)
    BY <1>4, <1>7 DEF Waiting
  <2>5. Marked(c, ms)' <=> Marked(c, ms)
    BY <1>4 DEF Marked
  <2>6. ReachedOnce(P, c, ms)' <=> ReachedOnce(P, c, ms)
    BY <1>1, <1>4 DEF ReachedOnce
  <2>7. Witnessed(P, c, ms)' <=> Witnessed(P, c, ms)
    BY <1>1, <1>5, <1>6 DEF Witnessed
  <2> QED
    BY <2>1, <2>2, <2>3, <2>4, <2>5, <2>6, <2>7 DEF SearchInv
<1> QED
  BY <1>3, <1>8
\* A step of the search keeps the invariant when it leads to counts and lists for
\* which it holds.
LEMMA SearchStep ==
  ASSUME grammar' = grammar, TargetsThere => \E cur, P :
           SearchInv(cur, P, path_counts', left_nodes', edges', left_m_nodes')
  PROVE  TargetsThere' =>
           (\E cur, P : SearchInv(cur, P, path_counts, left_nodes, edges, left_m_nodes))'
<1> SUFFICES ASSUME TargetsThere'
             PROVE  \E cur, P : SearchInv(cur, P, path_counts, left_nodes, edges, left_m_nodes)'
  OBVIOUS
<1>1. TargetsThere
  BY SameDfa
<1>2. PICK cur, P : SearchInv(cur, P, path_counts', left_nodes', edges', left_m_nodes')
  BY <1>1
<1>3. SearchInv(cur, P, path_counts, left_nodes, edges, left_m_nodes)'
  BY <1>2, SameDfa
<1> QED
  BY <1>3

LEMMA SearchKeepsInv ==
  ASSUME Inv, Search, UNCHANGED loader_vars
  PROVE  Inv'
<1>1. grammar' = grammar /\ verdict' = verdict
  BY DEF loader_vars
<1>2. verdict = "processing"
  <2>1. ~Idle
    BY DEF Search, TakeNode, NewNode, SecondPath, OldNode, Follow, MarkShared, Idle
  <2> QED
    BY <2>1 DEF Inv
<1>3. ASSUME TargetsThere
      PROVE  \E cur, P : SearchInv(cur, P, path_counts', left_nodes', edges', left_m_nodes')
  <2>1. PICK cur, P : SearchInv(cur, P, path_counts, left_nodes, edges, left_m_nodes)
    BY <1>2, <1>3 DEF Inv, Loaded
  <2>2. CASE TakeNode
    <3>1. left_m_nodes = <<>> /\ edges = <<>> /\ left_nodes # <<>>
      BY <2>2 DEF TakeNode
    <3>2. SearchInv(Last(left_nodes), P, path_counts, Front(left_nodes), Targets(Last(left_nodes)), <<>>)
      BY <1>3, <2>1, <3>1, TakeKeeps
    <3>3. /\ edges' = Targets(Last(left_nodes)) /\ left_nodes' = Front(left_nodes)
          /\ path_counts' = path_counts /\ left_m_nodes' = <<>>
      BY <2>2, <3>1 DEF TakeNode
    <3> QED
      BY <3>2, <3>3
  <2>3. CASE NewNode
    <3>1. left_m_nodes = <<>> /\ edges # <<>> /\ path_counts[Head(edges)] = 0
      BY <2>3 DEF NewNode, Follow
    <3>2. SearchInv(cur, P \cup {Next_(cur, edges)}, [path_counts EXCEPT ![Head(edges)] = 1],
                    Append(left_nodes, Head(edges)), Tail(edges), <<>>)
      BY <1>3, <2>1, <3>1, NewKeeps
    <3>3. /\ edges' = Tail(edges) /\ path_counts' = [path_counts EXCEPT ![Head(edges)] = 1]
          /\ left_nodes' = Append(left_nodes, Head(edges)) /\ left_m_nodes' = <<>>
      BY <2>3, <3>1 DEF NewNode, Follow
    <3> QED
      BY <3>2, <3>3
  <2>4. CASE SecondPath
    <3>1. left_m_nodes = <<>> /\ edges # <<>> /\ path_counts[Head(edges)] = 1
      BY <2>4 DEF SecondPath, Follow
    <3>2. SearchInv(cur, P \cup {Next_(cur, edges)}, path_counts, left_nodes, Tail(edges), <<Head(edges)>>)
      BY <1>3, <2>1, <3>1, SecondKeeps
    <3>3. /\ edges' = Tail(edges) /\ path_counts' = path_counts
          /\ left_nodes' = left_nodes /\ left_m_nodes' = <<Head(edges)>>
      BY <2>4, <3>1 DEF SecondPath, Follow
    <3> QED
      BY <3>2, <3>3
  <2>5. CASE OldNode
    <3>1. left_m_nodes = <<>> /\ edges # <<>> /\ path_counts[Head(edges)] = 2
      BY <2>5 DEF OldNode, Follow
    <3>2. SearchInv(cur, P \cup {Next_(cur, edges)}, path_counts, left_nodes, Tail(edges), <<>>)
      BY <1>3, <2>1, <3>1, OldKeeps
    <3>3. /\ edges' = Tail(edges) /\ path_counts' = path_counts
          /\ left_nodes' = left_nodes /\ left_m_nodes' = <<>>
      BY <2>5, <3>1 DEF OldNode, Follow
    <3> QED
      BY <3>2, <3>3
  <2>6. CASE MarkShared
    <3> DEFINE m == Last(left_m_nodes)
    <3>1. left_m_nodes # <<>>
      BY <2>6 DEF MarkShared
    <3>2. left_m_nodes \in Seq(DfaStates)
      BY <2>1 DEF SearchInv, ListsTyped
    <3>3. m \in DfaStates
      BY <3>1, <3>2, TakenOff
    <3>4. /\ Behind(m) \in Seq(DfaStates)
          /\ \A t : In(t, Behind(m)) <=> In(t, Targets(m)) /\ t # m /\ path_counts[t] # 2
      BY <1>3, <3>3, BehindIs DEF GoesOn
    <3>5. SearchInv(cur, P, [path_counts EXCEPT ![m] = 2], left_nodes, edges,
                    Front(left_m_nodes) \o Behind(m))
      BY <1>3, <2>1, <3>1, <3>4, MarkKeeps
    <3>6. /\ edges' = edges /\ path_counts' = [path_counts EXCEPT ![m] = 2]
          /\ left_nodes' = left_nodes /\ left_m_nodes' = Front(left_m_nodes) \o Behind(m)
      BY <2>6 DEF MarkShared
    <3> QED
      BY <3>5, <3>6
  <2> QED
    BY <2>2, <2>3, <2>4, <2>5, <2>6 DEF Search
<1>4. TargetsThere' =>
        (\E cur, P : SearchInv(cur, P, path_counts, left_nodes, edges, left_m_nodes))'
  BY <1>1, <1>3, SearchStep
<1> QED
  BY <1>1, <1>2, <1>4 DEF Inv

LEMMA StartKeepsInv ==
  ASSUME Inv, StartSearch
  PROVE  Inv'
<1>1. /\ verdict = "loading" /\ verdict' \in {"undefined", "processing"} /\ grammar' = grammar
      /\ edges' = edges /\ left_m_nodes' = left_m_nodes /\ Idle
  BY DEF StartSearch, Stop, Inv
<1>2. CASE verdict' = "undefined"
  <2>1. left_nodes' = left_nodes
    BY <1>2 DEF StartSearch
  <2>2. Idle'
    BY <1>1, <2>1 DEF Idle
  <2> QED
    BY <1>2, <2>2 DEF Inv, Loaded
<1>3. CASE verdict' = "processing"
  <2>1. /\ path_counts' = [s \in DfaStates |-> IF s = DfaInit THEN 1 ELSE 0]
        /\ left_nodes' = <<DfaInit>> /\ edges' = <<>> /\ left_m_nodes' = <<>>
    BY <1>1, <1>3 DEF StartSearch, Idle
  <2>2. TargetsThere => \E cur, P :
          SearchInv(cur, P, path_counts', left_nodes', edges', left_m_nodes')
    <3> SUFFICES ASSUME TargetsThere
                 PROVE  SearchInv(DfaInit, {}, path_counts', left_nodes', edges', left_m_nodes')
      OBVIOUS
    <3> QED
      BY <2>1, StartsRight
  <2> QED
    BY <1>1, <1>3, <2>2, SearchStep DEF Inv
<1> QED
  BY <1>1, <1>2, <1>3

LEMMA NextInv == Inv /\ [Next]_vars => Inv'
<1> SUFFICES ASSUME Inv, [Next]_vars PROVE Inv'
  OBVIOUS
<1>1. CASE (ReadRecord \/ Refuse) /\ UNCHANGED search_vars
  <2>1. verdict = "loading" /\ verdict' \in {"loading", "refused"}
    BY <1>1 DEF ReadRecord, Refuse, ReadProperty, ReadCounts, ReadCharset, ReadSymbol, ReadGroup,
                ReadProduction, ReadInitial, ReadDfaState, ReadLalrState, Reads
  <2>2. Idle'
    BY <1>1, <2>1 DEF Inv, Idle, search_vars
  <2> QED
    BY <2>1, <2>2 DEF Inv, Loaded
<1>2. CASE StartSearch
  BY <1>2, StartKeepsInv
<1>3. CASE Search /\ UNCHANGED <<loader_vars, single_lexeme>>
  BY <1>3, SearchKeepsInv
<1>4. CASE SetSingleLexemes \/ UNCHANGED vars
  <2>1. /\ grammar' = grammar
        /\ UNCHANGED <<path_counts, left_nodes, edges, left_m_nodes>>
    BY <1>4 DEF SetSingleLexemes, vars, loader_vars, search_vars
  <2>2. /\ verdict' \in {"loading", "refused", "undefined", "processing", "accepted"}
        /\ verdict' # "processing" => Idle
        /\ Loaded' => Loaded
    BY <1>4 DEF SetSingleLexemes, vars, loader_vars, search_vars, Inv, Loaded, Searching, Idle
  <2>3. Idle' <=> Idle
    BY <2>1 DEF Idle
  <2>4. Loaded => (TargetsThere => \E cur, P :
          SearchInv(cur, P, path_counts', left_nodes', edges', left_m_nodes'))
    BY <2>1 DEF Inv
  <2>5. Loaded => (TargetsThere' =>
          (\E cur, P : SearchInv(cur, P, path_counts, left_nodes, edges, left_m_nodes))')
    BY <2>1, <2>4, SearchStep
  <2> QED
    BY <2>2, <2>3, <2>5 DEF Inv
<1> QED
  BY <1>1, <1>2, <1>3, <1>4 DEF Next
-----------------------------------------------------------------------------
\* Grammar::SetSingleLexemeSymbol ends with the right counts, for every file and every
\* DFA in it, with cycles, shared states and parallel edges, in whatever order they stand.
THEOREM CountsAlwaysRight == Spec => [](verdict = "accepted" => CountsRight)
<1>1. Init => Inv
  BY DEF Init, LoaderInit, Inv, Idle, Loaded
<1>2. Inv /\ LoadInv => (verdict = "accepted" => CountsRight)
  <2> SUFFICES ASSUME Inv, LoadInv, verdict = "accepted" PROVE CountsRight
    OBVIOUS
  <2>1. left_nodes = <<>> /\ edges = <<>> /\ left_m_nodes = <<>>
    BY DEF Inv, Idle
  <2>2. TargetsThere
    BY DfaThere DEF Loaded
  <2>3. PICK cur, P : SearchInv(cur, P, path_counts, <<>>, <<>>, <<>>)
    BY <2>1, <2>2 DEF Inv, Loaded
  <2> QED
    BY <2>2, <2>3, EndsRight DEF CountsRight, Several2
<1> QED
  BY <1>1, <1>2, NextInv, LoadBegins, LoadKeeps, PTL DEF Spec
-----------------------------------------------------------------------------
(* The symbols that are found.                                             *)

\* every row has had its record
RowsSet == /\ \A s \in DfaStates : grammar.dfa_states[s].index = s
           /\ \A x \in DOMAIN grammar.symbols : grammar.symbols[x].index = x

\* a way to write x: a walk to a state that accepts it
Writes(x, s, w) == s \in DfaStates /\ grammar.dfa_states[s].accept_symbol = x /\ IsWalk(w, s)

OnlyWay(x, s, w) == /\ Writes(x, s, w)
                    /\ \A s2, w2 : Writes(x, s2, w2) => s2 = s /\ w2 = w

SymbolsSet ==
  verdict = "accepted" =>
    single_lexeme = [x \in DOMAIN grammar.symbols |->
                       Cardinality(LexemeStates(grammar.symbols[x].index)) = 1]

LEMMA SymbolsSetOnce == Inv /\ SymbolsSet /\ [Next]_vars => SymbolsSet'
<1> SUFFICES ASSUME Inv, SymbolsSet, [Next]_vars, verdict' = "accepted"
             PROVE  single_lexeme' = [x \in DOMAIN grammar.symbols |->
                       Cardinality(LexemeStates(grammar.symbols[x].index)) = 1]'
  BY DEF SymbolsSet
<1>1. \/ SetSingleLexemes
      \/ verdict = "accepted" /\ UNCHANGED vars
  <2>1. ~ReadRecord /\ ~Refuse /\ ~StartSearch
    BY DEF ReadRecord, Refuse, ReadProperty, ReadCounts, ReadCharset, ReadSymbol, ReadGroup,
           ReadProduction, ReadInitial, ReadDfaState, ReadLalrState, Reads, StartSearch, Stop
  <2>2. Search /\ verdict' = verdict => FALSE
    BY DEF Search, TakeNode, NewNode, SecondPath, OldNode, Follow, MarkShared, Inv, Idle
  <2> QED
    BY <2>1, <2>2 DEF Next, vars, loader_vars
<1>2. grammar' = grammar /\ path_counts' = path_counts
  BY <1>1 DEF SetSingleLexemes, vars, loader_vars, search_vars
<1>3. \A y : LexemeStates(y)' = LexemeStates(y)
  BY <1>2 DEF LexemeStates, CountsOnce, DfaStates
<1>4. single_lexeme' = [x \in DOMAIN grammar.symbols |->
                         Cardinality(LexemeStates(grammar.symbols[x].index)) = 1]
  BY <1>1 DEF SetSingleLexemes, SymbolsSet, vars, search_vars
<1> QED
  BY <1>2, <1>3, <1>4

LEMMA OneStateOnly ==
  ASSUME CountsRight, RowsSet, NEW x, NEW s, NEW w, OnlyWay(x, s, w)
  PROVE  LexemeStates(x) = {s}
<1>1. s \in DfaStates /\ IsWalk(w, s) /\ grammar.dfa_states[s].accept_symbol = x
  BY DEF OnlyWay, Writes
<1>2. path_counts[s] = 1
  <2>1. path_counts[s] # 0 /\ path_counts[s] # 2 /\ path_counts[s] \in 0..2
    BY <1>1 DEF CountsRight, OnlyWay, Writes
  <2> QED
    BY <2>1
<1>3. ASSUME NEW t \in DfaStates, path_counts[t] = 1, grammar.dfa_states[t].accept_symbol = x
      PROVE  t = s
  <2>1. PICK w2 : IsWalk(w2, t)
    BY <1>3 DEF CountsRight
  <2> QED
    BY <1>3, <2>1 DEF OnlyWay, Writes
<1> QED
  BY <1>1, <1>2, <1>3 DEF LexemeStates, CountsOnce, RowsSet

\* every row of a whole file has its number
LEMMA RowsAreSet == LoadedExact /\ file.whole /\ Loaded => RowsSet
<1> SUFFICES ASSUME LoadedExact, file.whole, Loaded PROVE RowsSet
  OBVIOUS
<1>1. ASSUME NEW t \in {"dfa_states", "symbols"}, NEW i \in DOMAIN grammar[t]
      PROVE  grammar[t][i].index = i
  <2> DEFINE row == grammar[t][i]
  <2>1. Decoded(row) = Numbered(i, file.of[t][i])
    BY <1>1, TableNames DEF LoadedExact
  <2> HIDE DEF row
  <2>2. Numbered(i, file.of[t][i]).index = i /\ "index" \in DOMAIN Numbered(i, file.of[t][i])
    BY DEF Numbered
  <2>3. Decoded(row).index = row.index
    <3>1. "index" \in DOMAIN Decoded(row)
      BY <2>1, <2>2
    <3> QED
      BY <3>1 DEF Decoded
  <2> QED
    BY <2>1, <2>2, <2>3 DEF row
<1> QED
  BY <1>1 DEF RowsSet, DfaStates

\* A terminal that can be written in one way, by one walk to one state that accepts it,
\* is marked by Grammar::SetSingleLexemeSymbol, in every whole file.
\* (That others are marked too is what the run identifier_lexeme shows.)
THEOREM SingleLexemesFound ==
  Spec => [](verdict = "accepted" /\ file.whole =>
               \A x \in DOMAIN single_lexeme :
                 (\E s, w : OnlyWay(x, s, w)) => single_lexeme[x])
<1>1. Init => Inv /\ SymbolsSet
  BY DEF Init, LoaderInit, Inv, Idle, Loaded, SymbolsSet
<1>2. Spec => []SymbolsSet
  BY <1>1, NextInv, SymbolsSetOnce, PTL DEF Spec
<1>3. SymbolsSet /\ (verdict = "accepted" => CountsRight) /\ LoadedExact =>
        (verdict = "accepted" /\ file.whole =>
           \A x \in DOMAIN single_lexeme : (\E s, w : OnlyWay(x, s, w)) => single_lexeme[x])
  <2> SUFFICES ASSUME SymbolsSet, CountsRight, LoadedExact, verdict = "accepted", file.whole,
                      NEW x \in DOMAIN single_lexeme, NEW s, NEW w, OnlyWay(x, s, w)
               PROVE  single_lexeme[x]
    OBVIOUS
  <2>0. RowsSet
    BY RowsAreSet DEF Loaded
  <2>1. /\ x \in DOMAIN grammar.symbols /\ grammar.symbols[x].index = x
        /\ single_lexeme[x] = (Cardinality(LexemeStates(grammar.symbols[x].index)) = 1)
    BY <2>0 DEF SymbolsSet, RowsSet
  <2>2. Cardinality(LexemeStates(x)) = 1
    BY <2>0, OneStateOnly, FS_Singleton
  <2> QED
    BY <2>1, <2>2
<1> QED
  BY <1>2, <1>3, CountsAlwaysRight, LoadedAlwaysExact, PTL
-----------------------------------------------------------------------------
(* The look-up by ID: the names as bytes.                                  *)

\* A byte below 128 is a unit of the name, the first ones stand where the units stand.
LEMMA NameBegins ==
  ASSUME NEW u \in Seq(Units), u # <<>>
  PROVE  LET b == Utf8(u)
         IN /\ b \in Seq(Bytes) /\ Len(b) \in Nat \ {0} /\ Len(u) \in Nat \ {0}
            /\ b[1] < 128 <=> u[1] < 128
            /\ b[1] < 128 => b[1] = u[1]
            /\ u[1] < 128 /\ Len(b) > 1 => Len(u) > 1
            /\ u[1] < 128 /\ Len(u) > 1 => Len(b) > 1 /\ (u[2] < 128 => b[2] = u[2])
<1> DEFINE N == Len(u)
           R == ReservedBytes(u)
           b == Utf8(u)
<1>1. N \in Nat \ {0} /\ \A n \in 1..N : u[n] \in Units
  BY LenProperties, ElementOfSeq, EmptySeq
<1>2. /\ R \in [0..N -> Nat] /\ R[0] = 0
      /\ \A n \in 1..N : R[n] = R[n - 1] + Utf8Length(u[n])
  BY ReservedIs
<1>3. /\ b \in Seq(Bytes) /\ Len(b) = R[N] /\ Len(b) \in Nat
      /\ \A n \in 1..N : \A k \in 1..Utf8Length(u[n]) :
           R[n - 1] + k \in 1..Len(b) /\ b[R[n - 1] + k] = Utf8Bytes(u[n])[k]
  BY NameBytes, LenProperties
<1> HIDE DEF N, R, b
<1>4. 1 \in 1..N /\ 1 - 1 = 0 /\ u[1] \in Units /\ u[1] \in Nat
  BY <1>1, UnitRange
<1>5. Utf8Length(u[1]) \in 1..3 /\ (u[1] < 128 => Utf8Length(u[1]) = 1 /\ Utf8Bytes(u[1]) = <<u[1]>>)
  BY <1>4, UnitBytes DEF Utf8Length
<1>6. \A k \in 1..Utf8Length(u[1]) : k \in 1..Len(b) /\ b[k] = Utf8Bytes(u[1])[k]
  <2> TAKE k \in 1..Utf8Length(u[1])
  <2>1. R[1 - 1] + k \in 1..Len(b) /\ b[R[1 - 1] + k] = Utf8Bytes(u[1])[k]
    BY <1>3, <1>4
  <2>2. R[1 - 1] + k = k
    BY <1>2, <1>4, <1>5
  <2> QED
    BY <2>1, <2>2
<1>7. 1 \in 1..Len(b)
  BY <1>5, <1>6
<1>8. b[1] < 128 => b[1] = u[1]
  <2>1. Stands(u[1], b, 0)
    <3>1. \A k \in 1..Utf8Length(u[1]) : 0 + k = k
      BY <1>5
    <3> QED
      BY <1>6, <3>1 DEF Stands
  <2>2. UnitAt(b, 0 + 1) = u[1]
    BY <1>3, <1>4, <2>1, UnitDecoded
  <2> QED
    BY <2>2 DEF UnitAt
<1>9. u[1] < 128 => b[1] = u[1]
  BY <1>5, <1>6
<1>10. u[1] < 128 => R[1] = 1
  BY <1>2, <1>4, <1>5
<1>11. ASSUME u[1] < 128, N > 1 PROVE Len(b) > 1 /\ (u[2] < 128 => b[2] = u[2])
  <2>1. 2 \in 1..N /\ 2 - 1 = 1 /\ u[2] \in Units /\ R[1] = 1
    BY <1>1, <1>10, <1>11
  <2>2. Utf8Length(u[2]) \in 1..3 /\ (u[2] < 128 => Utf8Bytes(u[2]) = <<u[2]>>)
    BY <2>1, UnitBytes
  <2>3. R[2 - 1] + 1 \in 1..Len(b) /\ b[R[2 - 1] + 1] = Utf8Bytes(u[2])[1]
    BY <1>3, <2>1, <2>2
  <2>4. R[2 - 1] + 1 = 2
    BY <2>1
  <2> QED
    BY <1>3, <2>2, <2>3, <2>4
<1>12. ASSUME u[1] < 128, Len(b) > 1 PROVE N > 1
  <2>1. CASE N = 1
    BY <1>3, <1>10, <1>12, <2>1
  <2> QED
    BY <1>1, <2>1
<1> QED
  BY <1>1, <1>3, <1>7, <1>8, <1>9, <1>11, <1>12 DEF N, b

\* a byte below 128 anywhere in it is one of its units
LEMMA PlainBytes ==
  ASSUME NEW u \in Seq(Units), NEW k \in 1..Len(Utf8(u)), Utf8(u)[k] < 128
  PROVE  \E j \in 1..Len(u) : u[j] = Utf8(u)[k]
<1> DEFINE N == Len(u)
           R == ReservedBytes(u)
           b == Utf8(u)
<1>1. N \in Nat /\ \A n \in 1..N : u[n] \in Units
  BY LenProperties, ElementOfSeq
<1>2. /\ R \in [0..N -> Nat] /\ R[0] = 0
      /\ \A n \in 1..N : R[n] = R[n - 1] + Utf8Length(u[n])
  BY ReservedIs
<1>3. /\ b \in Seq(Bytes) /\ Len(b) = R[N] /\ Len(b) \in Nat
      /\ \A n \in 1..N : \A x \in 1..Utf8Length(u[n]) :
           R[n - 1] + x \in 1..Len(b) /\ b[R[n - 1] + x] = Utf8Bytes(u[n])[x]
  BY NameBytes, LenProperties
<1>4. \A n \in 1..N : Utf8Length(u[n]) \in 1..3
  BY <1>1, UnitBytes
<1>0. k \in 1..Len(b) /\ b[k] < 128
  OBVIOUS
<1> HIDE DEF N, R, b
<1> DEFINE T == {n \in 0..N : \A i \in 1..R[n] : b[i] < 128 => \E j \in 1..n : u[j] = b[i]}
<1>5. 0 \in T
  BY <1>1, <1>2
<1>6. ASSUME NEW n \in 0..N - 1, n \in T PROVE n + 1 \in T
  <2> DEFINE p == R[n]
             c == u[n + 1]
  <2>1. n \in 0..N /\ n + 1 \in 1..N /\ (n + 1) - 1 = n /\ n + 1 \in 0..N
    BY <1>1
  <2>2. /\ c \in Units /\ p \in Nat /\ R[n + 1] = p + Utf8Length(c) /\ Utf8Length(c) \in 1..3
        /\ \A x \in 1..Utf8Length(c) : p + x \in 1..Len(b) /\ b[p + x] = Utf8Bytes(c)[x]
    <3>1. R[n + 1] = R[(n + 1) - 1] + Utf8Length(u[n + 1])
      BY <1>2, <2>1
    <3>2. \A x \in 1..Utf8Length(u[n + 1]) : /\ R[(n + 1) - 1] + x \in 1..Len(b)
                                            /\ b[R[(n + 1) - 1] + x] = Utf8Bytes(u[n + 1])[x]
      BY <1>3, <2>1
    <3> QED
      BY <1>1, <1>2, <1>4, <2>1, <3>1, <3>2
  <2>3. \A i \in 1..p : b[i] < 128 => \E j \in 1..n : u[j] = b[i]
    BY <1>6 DEF T
  <2> HIDE DEF p
  <2>4. /\ b[p + 1] \notin 128..191 /\ UnitAt(b, p + 1) = c
        /\ \A x \in 2..Utf8Length(c) : b[p + x] \in 128..191
    <3>1. Stands(c, b, p)
      BY <2>2 DEF Stands
    <3> QED
      BY <1>3, <2>2, <3>1, UnitDecoded
  <2>5. ASSUME NEW i \in 1..R[n + 1], b[i] < 128 PROVE \E j \in 1..n + 1 : u[j] = b[i]
    <3>1. CASE i <= p
      <4>1. i \in 1..p
        BY <2>2, <3>1
      <4>2. PICK j \in 1..n : u[j] = b[i]
        BY <2>3, <2>5, <4>1
      <4> QED
        BY <2>1, <4>2
    <3>2. CASE i = p + 1
      <4>1. b[i] = c
        BY <2>4, <2>5, <3>2 DEF UnitAt
      <4> QED
        BY <2>1, <4>1
    <3>3. CASE i > p + 1
      <4>1. i - p \in 2..Utf8Length(c) /\ p + (i - p) = i
        BY <2>2, <3>3
      <4>2. b[i] \in 128..191
        BY <2>4, <4>1
      <4>3. \A y \in 128..191 : ~(y < 128)
        OBVIOUS
      <4> QED
        BY <2>5, <4>2, <4>3
    <3> QED
      BY <2>2, <3>1, <3>2, <3>3
  <2> QED
    BY <2>1, <2>5
<1> HIDE DEF T
<1>7. \A n \in 0..N : n \in T
  BY <1>1, <1>5, <1>6, InductionUpTo
<1>8. N \in T
  BY <1>1, <1>7
<1>9. \E j \in 1..N : u[j] = b[k]
  BY <1>0, <1>3, <1>8 DEF T
<1> QED
  BY <1>9 DEF N, b

(* What NamesApart says of the units holds of the bytes.                   *)
NameFits(s) ==
  /\ s.name \in Seq(Bytes) /\ s.name # <<>>
  /\ \A k \in 1..Len(s.name) : /\ s.type = 1 => s.name[k] # 32
                               /\ s.name[k] # Closing(s)
  /\ s.type # 1 => s.name[1] # 32

GoesOnElse(s, t) ==
  s.type = 1 /\ Len(s.name) > 1 /\ s.name[1] = Opening(t) => s.name[2] # t.name[1]

\* the three cases of Symbol::GetID
LEMMA Brackets ==
  ASSUME NEW s
  PROVE  /\ s.type = 1 => Opening(s) = -1 /\ Closing(s) = -1 /\ SymbolID(s) = s.name
         /\ s.type # 1 => /\ Opening(s) \in Bytes /\ Closing(s) \in Bytes
                          /\ SymbolID(s) = <<Opening(s)>> \o s.name \o <<Closing(s)>>
         /\ Opening(s) < 128 /\ Closing(s) < 128
<1>1. CASE s.type = 0
  BY <1>1 DEF Opening, Closing, SymbolID, Bytes
<1>2. CASE s.type = 1
  BY <1>2 DEF Opening, Closing, SymbolID, Bytes
<1>3. CASE s.type # 0 /\ s.type # 1
  BY <1>3 DEF Opening, Closing, SymbolID, Bytes
<1> QED
  BY <1>1, <1>2, <1>3

LEMMA SameBrackets ==
  ASSUME NEW s, NEW t, Opening(s) = Opening(t)
  PROVE  Closing(s) = Closing(t) /\ (s.type = 1 <=> t.type = 1)
<1>1. \A r : Opening(r) = IF r.type = 0 THEN 60 ELSE IF r.type = 1 THEN -1 ELSE 40
  BY DEF Opening
<1>2. \A r : Closing(r) = IF r.type = 0 THEN 62 ELSE IF r.type = 1 THEN -1 ELSE 41
  BY DEF Closing
<1> QED
  BY <1>1, <1>2

\* the units are those of the names s.name and t.name
LEMMA UnitsToBytes ==
  ASSUME NEW s, NEW t, NEW u \in Seq(Units), NEW w \in Seq(Units),
         s.name = Utf8(u), t.name = Utf8(w), u # <<>>, w # <<>>
  PROVE  /\ (\A k \in 1..Len(u) : (s.type = 1 => u[k] # 32) /\ u[k] # Closing(s)) /\
            (s.type # 1 => u[1] # 32) => NameFits(s)
         /\ (s.type = 1 /\ Len(u) > 1 /\ u[1] = Opening(t) => u[2] < 128 /\ u[2] # w[1])
              => GoesOnElse(s, t)
<1>1. /\ s.name \in Seq(Bytes) /\ Len(s.name) \in Nat \ {0} /\ Len(u) \in Nat \ {0}
      /\ s.name[1] < 128 => s.name[1] = u[1]
      /\ u[1] < 128 /\ Len(s.name) > 1 => Len(u) > 1
      /\ u[1] < 128 /\ Len(u) > 1 /\ u[2] < 128 => s.name[2] = u[2]
  BY NameBegins
<1>2. /\ t.name[1] < 128 => t.name[1] = w[1]
  BY NameBegins
<1>3. ASSUME \A k \in 1..Len(u) : (s.type = 1 => u[k] # 32) /\ u[k] # Closing(s),
             s.type # 1 => u[1] # 32
      PROVE  NameFits(s)
  <2>1. ASSUME NEW k \in 1..Len(s.name), s.name[k] < 128
        PROVE  (s.type = 1 => s.name[k] # 32) /\ s.name[k] # Closing(s)
    <3>1. PICK j \in 1..Len(u) : u[j] = s.name[k]
      BY <2>1, PlainBytes
    <3> QED
      BY <1>3, <3>1
  <2>2. ASSUME NEW k \in 1..Len(s.name)
        PROVE  (s.type = 1 => s.name[k] # 32) /\ s.name[k] # Closing(s)
    <3>1. Closing(s) < 128
      BY Brackets
    <3> QED
      BY <2>1, <3>1
  <2>3. s.name # <<>>
    BY <1>1, EmptySeq
  <2>4. s.type # 1 => s.name[1] # 32
    BY <1>1, <1>3
  <2> QED
    BY <1>1, <2>2, <2>3, <2>4 DEF NameFits
<1>4. ASSUME s.type = 1 /\ Len(u) > 1 /\ u[1] = Opening(t) => u[2] < 128 /\ u[2] # w[1],
             s.type = 1, Len(s.name) > 1, s.name[1] = Opening(t)
      PROVE  s.name[2] # t.name[1]
  <2>1. Opening(t) < 128 /\ u[1] = Opening(t) /\ u[1] < 128
    <3>1. Opening(t) < 128
      BY Brackets
    <3> QED
      BY <1>1, <1>4, <3>1
  <2>2. Len(u) > 1
    BY <1>1, <1>4, <2>1
  <2>3. u[2] < 128 /\ u[2] # w[1]
    BY <1>4, <2>1, <2>2
  <2>4. s.name[2] = u[2]
    BY <1>1, <2>1, <2>2, <2>3
  <2> QED
    BY <1>2, <2>3, <2>4
<1> QED
  BY <1>3, <1>4 DEF GoesOnElse
-----------------------------------------------------------------------------
(* What Symbol::GetID makes of such names.                                 *)

\* a stands before a space at the beginning of b
Ahead(a, b) == /\ Len(a) < Len(b) /\ \A k \in 1..Len(a) : a[k] = b[k]
               /\ b[Len(a) + 1] = 32

\* the bytes of an ID in brackets, and of a terminal's
LEMMA InBrackets ==
  ASSUME NEW s, NameFits(s), s.type # 1
  PROVE  LET id == SymbolID(s)
         IN /\ id \in Seq(Bytes) /\ Len(s.name) \in Nat \ {0} /\ Len(id) = Len(s.name) + 2
            /\ id[1] = Opening(s) /\ id[Len(id)] = Closing(s)
            /\ \A k \in 1..Len(s.name) : id[k + 1] = s.name[k]
<1> DEFINE o == <<Opening(s)>>
           c == <<Closing(s)>>
           oname == o \o s.name
           id == SymbolID(s)
<1>1. /\ o \in Seq(Bytes) /\ Len(o) = 1 /\ o[1] = Opening(s)
      /\ c \in Seq(Bytes) /\ Len(c) = 1 /\ c[1] = Closing(s)
      /\ id = oname \o c
  BY Brackets
<1>2. s.name \in Seq(Bytes) /\ Len(s.name) \in Nat \ {0}
  BY LenProperties, EmptySeq DEF NameFits
<1> HIDE DEF o, c, id
<1>3. /\ oname \in Seq(Bytes) /\ Len(oname) = Len(s.name) + 1 /\ oname[1] = Opening(s)
      /\ \A k \in 1..Len(s.name) : oname[k + 1] = s.name[k]
  <2>1. /\ Len(oname) = Len(o) + Len(s.name) /\ \A i \in 1..Len(o) : oname[i] = o[i]
        /\ \A k \in 1..Len(s.name) : oname[Len(o) + k] = s.name[k]
    BY <1>1, <1>2, Joined
  <2>2. oname \in Seq(Bytes)
    BY <1>1, <1>2, ConcatProperties
  <2> HIDE DEF oname
  <2> QED
    BY <1>1, <1>2, <2>1, <2>2
<1> HIDE DEF oname
<1>4. /\ id \in Seq(Bytes) /\ Len(id) = Len(oname) + 1
      /\ \A i \in 1..Len(oname) : id[i] = oname[i]
      /\ id[Len(oname) + 1] = Closing(s)
  <2>1. /\ Len(id) = Len(oname) + Len(c) /\ \A i \in 1..Len(oname) : id[i] = oname[i]
        /\ \A k \in 1..Len(c) : id[Len(oname) + k] = c[k]
    BY <1>1, <1>3, Joined
  <2>2. id \in Seq(Bytes)
    BY <1>1, <1>3, ConcatProperties
  <2> QED
    BY <1>1, <2>1, <2>2
<1>5. \A k \in 1..Len(s.name) : id[k + 1] = s.name[k]
  <2> TAKE k \in 1..Len(s.name)
  <2>1. k + 1 \in 1..Len(oname)
    BY <1>2, <1>3
  <2> QED
    BY <1>3, <1>4, <2>1
<1>6. 1 \in 1..Len(oname) /\ id[1] = Opening(s) /\ Len(id) = Len(s.name) + 2
  BY <1>2, <1>3, <1>4
<1> QED
  BY <1>2, <1>4, <1>5, <1>6 DEF id

LEMMA Plain ==
  ASSUME NEW s, NameFits(s), s.type = 1
  PROVE  /\ SymbolID(s) = s.name /\ s.name \in Seq(Bytes) /\ Len(s.name) \in Nat \ {0}
         /\ \A k \in 1..Len(s.name) : s.name[k] # 32
BY Brackets, LenProperties, EmptySeq DEF NameFits

\* IDs that are the same have the same name and brackets
LEMMA SameID ==
  ASSUME NEW s, NEW t, NameFits(s), NameFits(t), GoesOnElse(s, t), GoesOnElse(t, s),
         SymbolID(s) = SymbolID(t)
  PROVE  s.name = t.name /\ Opening(s) = Opening(t)
<1>1. CASE s.type = 1 /\ t.type = 1
  BY <1>1, Plain, Brackets
<1>2. ASSUME NEW x, NEW y, NameFits(x), NameFits(y), GoesOnElse(x, y), x.type = 1, y.type # 1,
             SymbolID(x) = SymbolID(y)
      PROVE  FALSE
  <2>1. /\ Len(x.name) = Len(y.name) + 2 /\ Len(y.name) \in Nat \ {0}
        /\ x.name[1] = Opening(y)
        /\ \A k \in 1..Len(y.name) : x.name[k + 1] = y.name[k]
    BY <1>2, Plain, InBrackets
  <2>2. x.name[1 + 1] = y.name[1] /\ Len(x.name) > 1 /\ 1 + 1 = 2
    BY <2>1
  <2> QED
    BY <1>2, <2>1, <2>2 DEF GoesOnElse
<1>3. CASE s.type # 1 /\ t.type # 1
  <2>1. /\ Len(s.name) = Len(t.name) /\ Opening(s) = Opening(t) /\ Len(s.name) \in Nat
    BY <1>3, InBrackets
  <2>2. \A k \in 1..Len(s.name) : s.name[k] = t.name[k]
    <3> TAKE k \in 1..Len(s.name)
    <3>1. k \in 1..Len(t.name)
      BY <2>1
    <3>2. SymbolID(s)[k + 1] = s.name[k] /\ SymbolID(t)[k + 1] = t.name[k]
      BY <1>3, <3>1, InBrackets
    <3> QED
      BY <3>2
  <2>3. s.name \in Seq(Bytes) /\ t.name \in Seq(Bytes)
    BY DEF NameFits
  <2> QED
    BY <2>1, <2>2, <2>3, SeqEqual
<1> QED
  BY <1>1, <1>2, <1>3

\* and none stands before a space at the beginning of another
LEMMA NotAhead ==
  ASSUME NEW s, NEW t, NameFits(s), NameFits(t), GoesOnElse(s, t)
  PROVE  ~Ahead(SymbolID(s), SymbolID(t))
<1> SUFFICES ASSUME Ahead(SymbolID(s), SymbolID(t)) PROVE FALSE
  OBVIOUS
<1> DEFINE a == SymbolID(s)
           b == SymbolID(t)
<1>1. /\ a \in Seq(Bytes) /\ Len(a) \in Nat \ {0} /\ b \in Seq(Bytes) /\ Len(b) \in Nat
  BY Plain, InBrackets, LenProperties
<1>2. Len(a) < Len(b) /\ (\A k \in 1..Len(a) : a[k] = b[k]) /\ b[Len(a) + 1] = 32
  BY DEF Ahead
<1>3. Len(a) + 1 \in 1..Len(b) /\ 1 \in 1..Len(a)
  BY <1>1, <1>2
<1>4. CASE t.type = 1
  BY <1>2, <1>3, <1>4, Plain
<1>5. CASE t.type # 1
  <2>1. /\ Len(t.name) \in Nat \ {0} /\ Len(b) = Len(t.name) + 2
        /\ b[1] = Opening(t) /\ b[Len(b)] = Closing(t)
        /\ \A k \in 1..Len(t.name) : b[k + 1] = t.name[k]
    BY <1>5, InBrackets
  <2>2. 1 + 1 = 2 /\ b[2] = t.name[1] /\ t.name[1] # 32 /\ a[1] = Opening(t)
    BY <1>2, <1>3, <1>5, <2>1 DEF NameFits
  <2>3. CASE s.type = 1
    <3>1. a = s.name
      BY <2>3, Plain
    <3>2. Len(a) > 1
      BY <1>1, <1>2, <2>2
    <3>3. a[2] = b[2]
      BY <1>1, <1>2, <3>2
    <3> QED
      BY <2>2, <2>3, <3>1, <3>2, <3>3 DEF GoesOnElse
  <2>4. CASE s.type # 1
    <3>1. Len(a) > 2 /\ a[1] = Opening(s) /\ a[Len(a)] = Closing(s)
      BY <2>4, InBrackets
    <3>2. Closing(s) = Closing(t)
      BY <2>2, <3>1, SameBrackets
    <3>3. Len(a) - 1 \in 1..Len(t.name) /\ (Len(a) - 1) + 1 = Len(a) /\ Len(a) \in 1..Len(a)
      BY <1>1, <1>2, <2>1, <3>1
    <3>4. t.name[Len(a) - 1] = Closing(t)
      BY <1>2, <2>1, <3>1, <3>2, <3>3
    <3> QED
      BY <3>3, <3>4 DEF NameFits
  <2> QED
    BY <2>3, <2>4
<1> QED
  BY <1>4, <1>5
-----------------------------------------------------------------------------
(* What Production::GetID makes of such IDs.                               *)

Words(W) == /\ W \subseteq Seq(Bytes) /\ \A a \in W : a # <<>>
            /\ \A a, b \in W : ~Ahead(a, b)

Spaced(hs) == [i \in DOMAIN hs |-> (IF i = 1 THEN <<>> ELSE <<32>>) \o hs[i]]

\* nothing or what begins with a space
Behind32(x) == x \in Seq(Bytes) /\ (x # <<>> => x[1] = 32)

\* the next word of a text is known from the text
LEMMA NextWord ==
  ASSUME NEW W, Words(W), NEW a \in W, NEW b \in W, NEW x, NEW y,
         Behind32(x), Behind32(y), a \o x = b \o y
  PROVE  a = b /\ x = y
<1>1. /\ a \in Seq(Bytes) /\ b \in Seq(Bytes) /\ x \in Seq(Bytes) /\ y \in Seq(Bytes)
      /\ Len(a) \in Nat /\ Len(b) \in Nat /\ Len(x) \in Nat /\ Len(y) \in Nat
  BY LenProperties DEF Words, Behind32
<1>2. ASSUME NEW c \in W, NEW d \in W, NEW z, NEW w, Behind32(z), Behind32(w),
             c \o z = d \o w, Len(c) < Len(d)
      PROVE  FALSE
  <2>1. /\ c \in Seq(Bytes) /\ d \in Seq(Bytes) /\ z \in Seq(Bytes) /\ w \in Seq(Bytes)
        /\ Len(c) \in Nat /\ Len(d) \in Nat /\ Len(z) \in Nat /\ Len(w) \in Nat
    BY <1>2, LenProperties DEF Words, Behind32
  <2> DEFINE e == c \o z
  <2>2. /\ Len(e) = Len(c) + Len(z) /\ \A i \in 1..Len(c) : e[i] = c[i]
        /\ \A k \in 1..Len(z) : e[Len(c) + k] = z[k]
    BY <2>1, Joined
  <2>3. /\ Len(e) = Len(d) + Len(w) /\ \A i \in 1..Len(d) : e[i] = d[i]
    <3>1. /\ Len(d \o w) = Len(d) + Len(w) /\ \A i \in 1..Len(d) : (d \o w)[i] = d[i]
      BY <2>1, Joined
    <3> QED
      BY <1>2, <3>1
  <2> HIDE DEF e
  <2>4. 1 \in 1..Len(z) /\ Len(c) + 1 \in 1..Len(d) /\ z # <<>>
    BY <1>2, <2>1, <2>2, <2>3, EmptySeq
  <2>5. d[Len(c) + 1] = 32
    BY <1>2, <2>2, <2>3, <2>4 DEF Behind32
  <2>6. \A k \in 1..Len(c) : c[k] = d[k]
    BY <1>2, <2>1, <2>2, <2>3
  <2>7. Ahead(c, d)
    BY <1>2, <2>5, <2>6 DEF Ahead
  <2> QED
    BY <2>7 DEF Words
<1>3. Len(a) = Len(b)
  <2>1. ~(Len(a) < Len(b)) /\ ~(Len(b) < Len(a))
    BY <1>2
  <2> QED
    BY <1>1, <2>1
<1>4. a = b
  <2>1. /\ \A i \in 1..Len(a) : (a \o x)[i] = a[i]
        /\ \A i \in 1..Len(b) : (b \o y)[i] = b[i]
    BY <1>1, Joined
  <2>2. \A i \in 1..Len(a) : a[i] = b[i]
    BY <1>3, <2>1
  <2> QED
    BY <1>1, <1>3, <2>2, SeqEqual
<1>5. x = y
  BY <1>1, <1>4, ConcatSimplifications
<1> QED
  BY <1>4, <1>5

\* FlattenSeq, step by step
Flattened(f, s) == /\ f \in [0..Len(s) -> Seq(Bytes)] /\ f[0] = <<>>
                   /\ \A n \in 1..Len(s) : f[n] = f[n - 1] \o s[n]
                   /\ FlattenSeq(s) = f[Len(s)]

LEMMA FlattenIs ==
  ASSUME NEW s \in Seq(Seq(Bytes))
  PROVE  \E f : Flattened(f, s)
<1> DEFINE N == Len(s)
           V == Seq(Bytes)
           step == [x \in (1..N) \X V |-> x[2] \o s[x[1]]]
           Is(g) == g = [i \in 1..N |-> IF i = 1 THEN s[i] ELSE g[i - 1] \o s[i]]
           g0 == CHOOSE g : Is(g)
<1>1. N \in Nat /\ <<>> \in V /\ \A n \in 1..N : s[n] \in V
  BY LenProperties, ElementOfSeq, EmptySeq
<1>2. step \in [(1..N) \X V -> V]
  <2> SUFFICES ASSUME NEW n \in 1..N, NEW x \in V PROVE x \o s[n] \in V
    OBVIOUS
  <2> QED
    BY <1>1, ConcatProperties
<1>3. FlattenSeq(s) = IF N = 0 THEN s ELSE g0[N]
  BY DEF FlattenSeq
<1>4. \A n \in 1..N, x \in V : step[<<n, x>>] = x \o s[n]
  OBVIOUS
<1> HIDE DEF N, V, step
<1>5. PICK f : RecursUpTo(f, N, V, <<>>, step)
  BY <1>1, <1>2, RecursionUpTo
<1>6. f \in [0..N -> V] /\ \A n \in 0..N : f[n] = IF n = 0 THEN <<>> ELSE step[<<n, f[n - 1]>>]
  BY <1>5 DEF RecursUpTo
<1>7. \A n \in 1..N : f[n] = f[n - 1] \o s[n]
  <2> TAKE n \in 1..N
  <2>1. n \in 0..N /\ n # 0 /\ n - 1 \in 0..N
    BY <1>1
  <2>2. f[n - 1] \in V /\ f[n] = step[<<n, f[n - 1]>>]
    BY <1>6, <2>1
  <2> QED
    BY <1>4, <2>2
<1>8. f[0] = <<>>
  <2>1. 0 \in 0..N
    BY <1>1
  <2> QED
    BY <1>6, <2>1
<1> DEFINE h == [i \in 1..N |-> f[i]]
<1>9. Is(h)
  <2>1. ASSUME NEW i \in 1..N PROVE h[i] = IF i = 1 THEN s[i] ELSE h[i - 1] \o s[i]
    <3>1. CASE i = 1
      <4>1. f[i] = <<>> \o s[i]
        <5>1. f[i] = f[i - 1] \o s[i]
          BY <1>7, Zenon
        <5>2. i - 1 = 0
          BY <3>1
        <5> QED
          BY <1>8, <5>1, <5>2, Zenon
      <4>2. s[i] \in Seq(Bytes)
        BY <1>1 DEF V
      <4> QED
        BY <3>1, <4>1, <4>2, ConcatEmptySeq
    <3>2. CASE i # 1
      <4>1. i - 1 \in 1..N
        BY <1>1, <3>2
      <4> QED
        BY <1>7, <3>2, <4>1
    <3> QED
      BY <3>1, <3>2
  <2> QED
    BY <2>1
<1>10. Is(g0)
  <2> HIDE DEF h, Is
  <2> QED
    BY <1>9
<1>11. \A n \in 1..N : g0[n] = f[n]
  <2> HIDE DEF g0
  <2> DEFINE T == {n \in 0..N : n # 0 => g0[n] = f[n]}
  <2>1. 0 \in T
    BY <1>1
  <2>2. ASSUME NEW n \in 0..N - 1, n \in T PROVE n + 1 \in T
    <3>1. n + 1 \in 1..N /\ n + 1 \in 0..N /\ (n + 1) - 1 = n
      BY <1>1
    <3>2. g0[n + 1] = IF n + 1 = 1 THEN s[n + 1] ELSE g0[(n + 1) - 1] \o s[n + 1]
      BY <1>10, <3>1
    <3>3. h[n + 1] = IF n + 1 = 1 THEN s[n + 1] ELSE h[(n + 1) - 1] \o s[n + 1]
      <4> HIDE DEF h
      <4> QED
        BY <1>9, <3>1
    <3>4. h[n + 1] = f[n + 1] /\ (n # 0 => h[n] = f[n] /\ g0[n] = f[n])
      BY <2>2, <3>1
    <3> HIDE DEF h
    <3> QED
      BY <3>1, <3>2, <3>3, <3>4
  <2>3. \A n \in 0..N : n \in T
    <3> HIDE DEF T
    <3> QED
      BY <1>1, <2>1, <2>2, InductionUpTo
  <2> QED
    BY <1>1, <2>3
<1>12. FlattenSeq(s) = f[N]
  <2>1. CASE N = 0
    BY <1>3, <1>8, <2>1, EmptySeq DEF N
  <2>2. CASE N # 0
    <3>1. N \in 1..N
      BY <1>1, <2>2
    <3> QED
      BY <1>3, <1>11, <2>2, <3>1
  <2> QED
    BY <2>1, <2>2
<1> QED
  BY <1>6, <1>7, <1>8, <1>12 DEF Flattened, N, V

LEMMA SpacedIs ==
  ASSUME NEW W, Words(W), NEW hs \in Seq(W)
  PROVE  /\ Spaced(hs) \in Seq(Seq(Bytes)) /\ Len(Spaced(hs)) = Len(hs) /\ Len(hs) \in Nat
         /\ \A i \in 1..Len(hs) :
              /\ hs[i] \in W /\ hs[i] \in Seq(Bytes) /\ hs[i] # <<>>
              /\ Spaced(hs)[i] = (IF i = 1 THEN <<>> ELSE <<32>>) \o hs[i]
<1>1. Len(hs) \in Nat /\ DOMAIN hs = 1..Len(hs) /\ \A i \in 1..Len(hs) : hs[i] \in W
  BY LenProperties, ElementOfSeq
<1>2. \A i \in 1..Len(hs) : hs[i] \in Seq(Bytes) /\ hs[i] # <<>>
  BY <1>1 DEF Words
<1>3. Spaced(hs) = [i \in 1..Len(hs) |-> (IF i = 1 THEN <<>> ELSE <<32>>) \o hs[i]]
  BY <1>1 DEF Spaced
<1>4. <<>> \in Seq(Bytes) /\ <<32>> \in Seq(Bytes)
  BY DEF Bytes
<1>5. \A i \in 1..Len(hs) : (IF i = 1 THEN <<>> ELSE <<32>>) \o hs[i] \in Seq(Bytes)
  <2> TAKE i \in 1..Len(hs)
  <2> DEFINE sp == IF i = 1 THEN <<>> ELSE <<32>>
  <2>1. sp \in Seq(Bytes)
    BY <1>4
  <2> HIDE DEF sp
  <2>2. sp \o hs[i] \in Seq(Bytes)
    BY <1>2, <2>1, ConcatProperties
  <2> QED
    BY <2>2 DEF sp
<1>6. Spaced(hs) \in Seq(Seq(Bytes)) /\ Len(Spaced(hs)) = Len(hs)
  <2> DEFINE e(i) == (IF i = 1 THEN <<>> ELSE <<32>>) \o hs[i]
  <2>1. Spaced(hs) = [i \in 1..Len(hs) |-> e(i)] /\ \A i \in 1..Len(hs) : e(i) \in Seq(Bytes)
    BY <1>3, <1>5
  <2> HIDE DEF e
  <2>2. Spaced(hs) \in [1..Len(hs) -> Seq(Bytes)]
    BY <2>1
  <2> QED
    BY <1>1, <2>2
<1> QED
  BY <1>1, <1>2, <1>3, <1>6

LEMMA Associative ==
  /\ \A a, b \in Seq(Bytes) : a \o b \in Seq(Bytes)
  /\ \A a, b, c \in Seq(Bytes) : (a \o b) \o c = a \o (b \o c)
BY ConcatProperties, ConcatAssociative

LEMMA PairSeq == <<>> \in Seq(Bytes) /\ <<32>> \in Seq(Bytes) /\ Len(<<32>>) = 1 /\ <<32>>[1] = 32
  BY DEF Bytes

\* what stands behind the first i words of n
Rest(f, i, n, x) == Behind32(x) /\ f[n] = f[i] \o x /\ (i < n => x # <<>>)

\* begins with a space
LEMMA RestBehind ==
  ASSUME NEW W, Words(W), NEW hs \in Seq(W), NEW f, Flattened(f, Spaced(hs)), NEW i \in 1..Len(hs)
  PROVE  \E x : Rest(f, i, Len(hs), x)
<1> DEFINE N == Len(hs)
           s == Spaced(hs)
           T == {n \in 0..N : n >= i => \E x : Rest(f, i, n, x)}
<1>1. /\ N \in Nat /\ Len(s) = N
      /\ \A n \in 1..N : hs[n] \in Seq(Bytes) /\ s[n] = (IF n = 1 THEN <<>> ELSE <<32>>) \o hs[n]
  BY SpacedIs
<1>2. /\ f \in [0..N -> Seq(Bytes)] /\ \A n \in 1..N : f[n] = f[n - 1] \o s[n]
  BY <1>1 DEF Flattened
<1>3. i \in 1..N
  OBVIOUS
<1> HIDE DEF N, s
<1>4. 0 \in T
  BY <1>1, <1>3
<1>5. ASSUME NEW n \in 0..N - 1, n \in T PROVE n + 1 \in T
  <2>1. n + 1 \in 1..N /\ n + 1 \in 0..N /\ (n + 1) - 1 = n /\ n \in 0..N /\ i \in 0..N
    BY <1>1, <1>3
  <2>2. CASE n + 1 < i
    BY <1>1, <1>3, <2>1, <2>2
  <2>3. CASE n + 1 = i
    <3>1. f[n + 1] = f[i] \o <<>>
      BY <1>2, <2>1, <2>3, ConcatEmptySeq
    <3>2. Behind32(<<>>)
      BY PairSeq DEF Behind32
    <3>3. ~(i < n + 1)
      BY <1>1, <2>1, <2>3
    <3>4. Rest(f, i, n + 1, <<>>)
      BY <3>1, <3>2, <3>3 DEF Rest
    <3> QED
      BY <2>1, <3>4
  <2>4. CASE n + 1 > i
    <3>1. n >= i /\ n + 1 # 1
      BY <1>1, <1>3, <2>1, <2>4
    <3>0. PICK x : Rest(f, i, n, x)
      BY <1>5, <3>1
    <3>2. Behind32(x) /\ f[n] = f[i] \o x
      BY <3>0 DEF Rest
    <3> DEFINE y == <<32>> \o hs[n + 1]
               z == x \o y
    <3>3. /\ x \in Seq(Bytes) /\ (x # <<>> => x[1] = 32) /\ f[i] \in Seq(Bytes)
          /\ hs[n + 1] \in Seq(Bytes)
      BY <1>1, <1>2, <2>1, <3>2 DEF Behind32
    <3>4. y \in Seq(Bytes) /\ Len(y) \in Nat \ {0} /\ y[1] = 32
      <4>1. Len(y) = 1 + Len(hs[n + 1]) /\ y[1] = <<32>>[1] /\ Len(hs[n + 1]) \in Nat
        BY <3>3, PairSeq, Joined
      <4>2. y \in Seq(Bytes)
        BY <3>3, PairSeq, ConcatProperties
      <4> QED
        BY <4>1, <4>2, PairSeq
    <3>5. f[n + 1] = f[n] \o y
      BY <1>1, <1>2, <2>1, <3>1
    <3> HIDE DEF y
    <3>6. f[n + 1] = f[i] \o z
      <4>1. (f[i] \o x) \o y = f[i] \o (x \o y)
        BY <3>3, <3>4, Associative
      <4> QED
        BY <3>2, <3>5, <4>1
    <3>7. Behind32(z) /\ z # <<>>
      <4>1. z \in Seq(Bytes)
        BY <3>3, <3>4, ConcatProperties
      <4>2. /\ Len(z) = Len(x) + Len(y) /\ Len(x) \in Nat
            /\ \A k \in 1..Len(x) : z[k] = x[k]
            /\ \A k \in 1..Len(y) : z[Len(x) + k] = y[k]
        BY <3>3, <3>4, Joined
      <4>3. z # <<>>
        BY <3>4, <4>2, EmptySeq
      <4>4. CASE Len(x) = 0
        <5>1. z[0 + 1] = y[1]
          BY <3>4, <4>2, <4>4
        <5> QED
          BY <3>4, <4>1, <4>3, <5>1 DEF Behind32
      <4>5. CASE Len(x) # 0
        <5>1. x # <<>> /\ 1 \in 1..Len(x)
          BY <4>2, <4>5, EmptySeq
        <5>2. z[1] = 32
          BY <3>3, <4>2, <5>1
        <5> QED
          BY <4>1, <4>3, <5>2 DEF Behind32
      <4> QED
        BY <4>4, <4>5
    <3> HIDE DEF z
    <3>8. Rest(f, i, n + 1, z)
      BY <3>6, <3>7 DEF Rest
    <3> QED
      BY <2>1, <3>8
  <2> QED
    BY <1>1, <1>3, <2>1, <2>2, <2>3, <2>4
<1> HIDE DEF T
<1>6. \A n \in 0..N : n \in T
  BY <1>1, <1>4, <1>5, InductionUpTo
<1>7. N \in T /\ N >= i
  BY <1>1, <1>3, <1>6
<1>8. \E x : Rest(f, i, N, x)
  BY <1>7 DEF T
<1> QED
  BY <1>8 DEF N

\* two texts of words that are the same have the same words
LEMMA WordsAgree ==
  ASSUME NEW W, Words(W), NEW hs \in Seq(W), NEW ks \in Seq(W),
         FlattenSeq(Spaced(hs)) = FlattenSeq(Spaced(ks))
  PROVE  Len(hs) <= Len(ks) /\ \A i \in 1..Len(hs) : hs[i] = ks[i]
<1> DEFINE N == Len(hs)
           M == Len(ks)
           s == Spaced(hs)
           t == Spaced(ks)
<1>1. /\ N \in Nat /\ Len(s) = N /\ s \in Seq(Seq(Bytes))
      /\ \A n \in 1..N : /\ hs[n] \in W /\ hs[n] \in Seq(Bytes) /\ hs[n] # <<>>
                         /\ s[n] = (IF n = 1 THEN <<>> ELSE <<32>>) \o hs[n]
  BY SpacedIs
<1>2. /\ M \in Nat /\ Len(t) = M /\ t \in Seq(Seq(Bytes))
      /\ \A n \in 1..M : /\ ks[n] \in W /\ ks[n] \in Seq(Bytes)
                         /\ t[n] = (IF n = 1 THEN <<>> ELSE <<32>>) \o ks[n]
  BY SpacedIs
<1>3. PICK f : Flattened(f, s)
  BY <1>1, FlattenIs
<1>4. PICK g : Flattened(g, t)
  BY <1>2, FlattenIs
<1>5. /\ f \in [0..N -> Seq(Bytes)] /\ f[0] = <<>> /\ \A n \in 1..N : f[n] = f[n - 1] \o s[n]
      /\ g \in [0..M -> Seq(Bytes)] /\ g[0] = <<>> /\ \A n \in 1..M : g[n] = g[n - 1] \o t[n]
      /\ f[N] = g[M]
  BY <1>1, <1>2, <1>3, <1>4 DEF Flattened
<1>6. /\ \A i \in 1..N : \E x : Rest(f, i, N, x)
      /\ \A i \in 1..M : \E x : Rest(g, i, M, x)
  BY <1>3, <1>4, RestBehind
<1> HIDE DEF N, M, s, t
<1> DEFINE T == {n \in 0..N : n <= M /\ f[n] = g[n] /\ \A i \in 1..n : hs[i] = ks[i]}
<1>7. 0 \in T
  BY <1>1, <1>2, <1>5
<1>8. ASSUME NEW n \in 0..N - 1, n \in T PROVE n + 1 \in T
  <2>1. /\ n \in Nat /\ n + 1 \in 1..N /\ n + 1 \in 0..N /\ (n + 1) - 1 = n /\ n \in 0..N
        /\ n <= M /\ f[n] = g[n] /\ \A i \in 1..n : hs[i] = ks[i]
    BY <1>1, <1>8 DEF T
  <2> DEFINE sp == IF n + 1 = 1 THEN <<>> ELSE <<32>>
             p == f[n] \o sp
             h == hs[n + 1]
  <2>2. sp \in Seq(Bytes) /\ f[n] \in Seq(Bytes) /\ h \in Seq(Bytes) /\ h # <<>> /\ h \in W
    BY <1>1, <1>5, <2>1, PairSeq
  <2>3. f[n + 1] = f[n] \o (sp \o h)
    BY <1>1, <1>5, <2>1
  <2>0. PICK x : Rest(f, n + 1, N, x)
    BY <1>6, <2>1
  <2>4. Behind32(x) /\ f[N] = f[n + 1] \o x
    BY <2>0 DEF Rest
  <2> HIDE DEF sp, h
  <2>5. p \in Seq(Bytes) /\ f[n + 1] = p \o h /\ x \in Seq(Bytes)
    BY <2>2, <2>3, <2>4, Associative DEF Behind32
  <2>6. n < M
    <3> SUFFICES ASSUME n = M PROVE FALSE
      BY <1>2, <2>1
    <3> DEFINE fn == f[n]  fm == f[n + 1]
    <3>1. fn = fm \o x
      BY <1>5, <2>1, <2>4
    <3>2. fm = p \o h /\ fn \in Seq(Bytes) /\ p = fn \o sp
      BY <2>2, <2>5
    <3> HIDE DEF fn, fm, p
    <3>3. /\ Len(fm) = Len(p) + Len(h) /\ Len(p) = Len(fn) + Len(sp) /\ Len(fm \o x) = Len(fm) + Len(x)
          /\ Len(p) \in Nat /\ Len(fn) \in Nat /\ Len(sp) \in Nat /\ Len(x) \in Nat /\ Len(h) \in Nat
      <4>1. Len(p) = Len(fn) + Len(sp) /\ Len(fn) \in Nat /\ Len(sp) \in Nat
        BY <2>2, <3>2, Joined
      <4>2. Len(fm) = Len(p) + Len(h) /\ Len(p) \in Nat /\ Len(h) \in Nat
        BY <2>2, <2>5, <3>2, Joined
      <4>3. fm \in Seq(Bytes)
        BY <2>2, <2>5, <3>2, ConcatProperties
      <4>4. Len(fm \o x) = Len(fm) + Len(x) /\ Len(x) \in Nat
        BY <2>5, <4>3, Joined
      <4> QED
        BY <4>1, <4>2, <4>4
    <3>4. Len(h) # 0
      BY <2>2, EmptySeq
    <3> QED
      BY <3>1, <3>3, <3>4
  <2>7. n + 1 \in 1..M
    BY <1>2, <2>1, <2>6
  <2> DEFINE k == ks[n + 1]
  <2>8. k \in Seq(Bytes) /\ k \in W /\ g[n + 1] = g[n] \o (sp \o k)
    BY <1>2, <1>5, <2>1, <2>7 DEF sp
  <2>16. PICK y : Rest(g, n + 1, M, y)
    BY <1>6, <2>7
  <2>9. Behind32(y) /\ g[M] = g[n + 1] \o y
    BY <2>16 DEF Rest
  <2> HIDE DEF k
  <2>10. g[n + 1] = p \o k /\ y \in Seq(Bytes)
    <3>1. (f[n] \o sp) \o k = f[n] \o (sp \o k)
      BY <2>2, <2>8, Associative
    <3> QED
      BY <2>1, <2>8, <2>9, <3>1 DEF Behind32
  <2> HIDE DEF p
  <2>11. p \o (h \o x) = p \o (k \o y)
    <3>1. f[N] = p \o (h \o x)
      <4>1. (p \o h) \o x = p \o (h \o x)
        BY <2>2, <2>5, Associative
      <4> QED
        BY <2>4, <2>5, <4>1
    <3>2. g[M] = p \o (k \o y)
      <4>1. (p \o k) \o y = p \o (k \o y)
        BY <2>5, <2>8, <2>10, Associative
      <4> QED
        BY <2>9, <2>10, <4>1
    <3> QED
      BY <1>5, <3>1, <3>2
  <2>12. h \o x = k \o y
    <3>1. h \o x \in Seq(Bytes) /\ k \o y \in Seq(Bytes)
      BY <2>2, <2>5, <2>8, <2>10, ConcatProperties
    <3> QED
      BY <2>5, <2>11, <3>1, ConcatSimplifications
  <2>13. h = k
    BY <2>2, <2>4, <2>8, <2>9, <2>12, NextWord
  <2>14. f[n + 1] = g[n + 1]
    BY <2>5, <2>10, <2>13
  <2>15. \A i \in 1..n + 1 : hs[i] = ks[i]
    <3>1. \A i \in 1..n + 1 : i \in 1..n \/ i = n + 1
      BY <2>1
    <3> QED
      BY <2>1, <2>13, <3>1 DEF h, k
  <2> QED
    BY <1>2, <2>1, <2>7, <2>14, <2>15
<1> HIDE DEF T
<1>9. \A n \in 0..N : n \in T
  BY <1>1, <1>7, <1>8, InductionUpTo
<1>10. N \in T
  BY <1>1, <1>9
<1> QED
  BY <1>10 DEF T, N, M

\* a production's text of its words
Text(a, hs) == a \o <<32, 58, 58, 61, 32>> \o FlattenSeq(Spaced(hs))

LEMMA SameTexts ==
  ASSUME NEW W, Words(W), NEW a \in W, NEW b \in W, NEW hs \in Seq(W), NEW ks \in Seq(W),
         Text(a, hs) = Text(b, ks)
  PROVE  a = b /\ hs = ks
<1> DEFINE arrow == <<32, 58, 58, 61, 32>>
           x == FlattenSeq(Spaced(hs))
           y == FlattenSeq(Spaced(ks))
<1>1. \A ls \in Seq(W) : FlattenSeq(Spaced(ls)) \in Seq(Bytes)
  <2> TAKE ls \in Seq(W)
  <2>1. Spaced(ls) \in Seq(Seq(Bytes)) /\ Len(Spaced(ls)) \in Nat
    BY SpacedIs
  <2>2. PICK f : Flattened(f, Spaced(ls))
    BY <2>1, FlattenIs
  <2>3. f[Len(Spaced(ls))] \in Seq(Bytes)
    <3>1. f \in [0..Len(Spaced(ls)) -> Seq(Bytes)]
      BY <2>2 DEF Flattened
    <3>2. Len(Spaced(ls)) \in 0..Len(Spaced(ls))
      BY <2>1
    <3> QED
      BY <3>1, <3>2
  <2> QED
    BY <2>2, <2>3 DEF Flattened
<1>2. /\ a \in Seq(Bytes) /\ b \in Seq(Bytes) /\ x \in Seq(Bytes) /\ y \in Seq(Bytes)
      /\ a \o arrow \o x = b \o arrow \o y
  BY <1>1 DEF Words, Text
<1>3. arrow \in Seq(Bytes) /\ Len(arrow) = 5 /\ arrow[1] = 32
  BY DEF Bytes
<1> HIDE DEF arrow, x, y
<1>4. a \o (arrow \o x) = b \o (arrow \o y)
  BY <1>2, <1>3, Associative
<1>5. \A z \in Seq(Bytes) : Behind32(arrow \o z)
  <2> TAKE z \in Seq(Bytes)
  <2>1. arrow \o z \in Seq(Bytes)
    BY <1>3, ConcatProperties
  <2>2. (arrow \o z)[1] = arrow[1]
    <3>1. 1 \in 1..Len(arrow)
      BY <1>3
    <3> QED
      BY <1>3, <3>1, Joined
  <2> QED
    BY <1>3, <2>1, <2>2 DEF Behind32
<1>6. a = b /\ arrow \o x = arrow \o y
  <2>1. Behind32(arrow \o x) /\ Behind32(arrow \o y)
    BY <1>2, <1>5
  <2> DEFINE ax == arrow \o x  ay == arrow \o y
  <2>2. a \o ax = b \o ay /\ Behind32(ax) /\ Behind32(ay)
    BY <1>4, <2>1
  <2> HIDE DEF ax, ay
  <2>3. a = b /\ ax = ay
    BY <2>2, NextWord
  <2> QED
    BY <2>3 DEF ax, ay
<1>7. x = y
  BY <1>2, <1>3, <1>6, ConcatSimplifications
<1>8. /\ Len(hs) <= Len(ks) /\ \A i \in 1..Len(hs) : hs[i] = ks[i]
      /\ Len(ks) <= Len(hs)
  BY <1>7, WordsAgree DEF x, y
<1>9. hs = ks
  <2>1. Len(hs) = Len(ks)
    BY <1>8, LenProperties
  <2> QED
    BY <1>8, <2>1, SeqEqual
<1> QED
  BY <1>6, <1>9
-----------------------------------------------------------------------------
(* The names that are loaded.                                              *)

SymbolRow(n, u, a) == [index |-> n, name |-> Utf8(u), type |-> a]

Encoded(row) == \E u \in Seq(Units) : \E n, a : row = SymbolRow(n, u, a)

SymbolsEncoded == \A i \in DOMAIN grammar.symbols : Encoded(grammar.symbols[i])

\* only the records of symbols and the counts write symbols
LEMMA OtherTables ==
  ASSUME RowInv,
         ReadProperty \/ ReadCharset \/ ReadGroup \/ ReadProduction \/ ReadInitial
         \/ ReadDfaState \/ ReadLalrState
  PROVE  grammar'.symbols = grammar.symbols
<1>1. "symbols" \in DOMAIN grammar
  BY TableNames DEF RowInv, Members
<1>2. CASE ReadProperty
  BY <1>1, <1>2 DEF ReadProperty
<1>3. CASE ReadCharset
  BY <1>1, <1>3 DEF ReadCharset
<1>4. CASE ReadGroup
  BY <1>1, <1>4 DEF ReadGroup
<1>5. CASE ReadProduction
  BY <1>1, <1>5 DEF ReadProduction
<1>6. CASE ReadInitial
  BY <1>1, <1>6 DEF ReadInitial
<1>7. CASE ReadDfaState
  BY <1>1, <1>7 DEF ReadDfaState
<1>8. CASE ReadLalrState
  BY <1>1, <1>8 DEF ReadLalrState
<1> QED
  BY <1>2, <1>3, <1>4, <1>5, <1>6, <1>7, <1>8

LEMMA EmptyName == Encoded(Zero["symbols"])
<1>1. <<>> \in Seq(Units) /\ Len(<<>>) = 0
  BY EmptySeq
<1>2. Utf8(<<>>) = <<>>
  <2>1. Utf8(<<>>) \in Seq(Bytes) /\ Len(Utf8(<<>>)) = ReservedBytes(<<>>)[0]
    BY <1>1, NameBytes
  <2>2. ReservedBytes(<<>>)[0] = 0
    BY <1>1, ReservedIs
  <2> QED
    BY <2>1, <2>2, EmptySeq
<1>3. Zero["symbols"] = SymbolRow(0, <<>>, 0)
  BY <1>2 DEF Zero, SymbolRow
<1> QED
  BY <1>1, <1>3 DEF Encoded

\* the names of the symbols are written by convert_utf16_to_utf8_string at all times
LEMMA EncodedKept == RowInv /\ SymbolsEncoded /\ [Next]_vars => SymbolsEncoded'
<1> SUFFICES ASSUME RowInv, SymbolsEncoded, [Next]_vars PROVE SymbolsEncoded'
  OBVIOUS
<1>1. CASE ReadSymbol
  <2> DEFINE r == Record(pos + 1)
             row == [index |-> num(1), name |-> v'[2].v_str, type |-> num(3)]
  <2>1. Reads("S") /\ "S" \in Kinds /\ "S" \in DOMAIN TableOf /\ LoadInv /\ file \in Files
    BY <1>1 DEF ReadSymbol, Kinds, TableOf, RowInv, LoadInv
  <2>2. /\ KindOf(r) = "S" /\ Understood(r) /\ pos + 1 \in 1..Len(file.records)
        /\ \A i \in 0..Last_(r) : r.entries[i + 1].type = "S" => v'[i].v_str = Utf8(Stored(r, i))
    BY <2>1, RecordRead
  <2>3. WellTyped(r)
    BY <2>1, <2>2, RecordWritten
  <2>4. /\ 2 \in 0..Last_(r) /\ r.entries[2 + 1].type = "S" /\ Stored(r, 2) \in Seq(Units)
    BY <2>2, <2>3 DEF WellTyped
  <2>5. v'[2].v_str = Utf8(Stored(r, 2))
    BY <2>2, <2>4
  <2>6. Encoded(row)
    <3>1. row = SymbolRow(num(1), Stored(r, 2), num(3))
      BY <2>5 DEF SymbolRow
    <3> QED
      BY <2>4, <3>1 DEF Encoded
  <2>7. "symbols" \in DOMAIN grammar
    BY TableNames DEF RowInv, Members
  <2>8. grammar'.symbols = [grammar.symbols EXCEPT ![num(1)] = row]
    BY <1>1, <2>7 DEF ReadSymbol
  <2> HIDE DEF row, r
  <2>9. \A i \in DOMAIN grammar'.symbols :
          i \in DOMAIN grammar.symbols
          /\ (grammar'.symbols[i] = grammar.symbols[i] \/ grammar'.symbols[i] = row)
    BY <2>8
  <2>10. \A i \in DOMAIN grammar'.symbols : Encoded(grammar'.symbols[i])
    BY <2>6, <2>9 DEF SymbolsEncoded
  <2> QED
    BY <2>10 DEF SymbolsEncoded
<1>2. CASE ReadCounts
  <2>1. "symbols" \in DOMAIN grammar
    BY TableNames DEF RowInv, Members
  <2>2. grammar'.symbols = Resize("symbols", num(1))
    BY <1>2, <2>1 DEF ReadCounts
  <2>3. \A i \in DOMAIN grammar'.symbols :
          grammar'.symbols[i] = IF i \in DOMAIN grammar.symbols THEN grammar.symbols[i]
                                ELSE Zero["symbols"]
    BY <2>2 DEF Resize
  <2>4. \A i \in DOMAIN grammar'.symbols : Encoded(grammar'.symbols[i])
    BY <2>3, EmptyName DEF SymbolsEncoded
  <2> QED
    BY <2>4 DEF SymbolsEncoded
<1>3. CASE grammar'.symbols = grammar.symbols
  BY <1>3 DEF SymbolsEncoded
<1>4. grammar' = grammar => grammar'.symbols = grammar.symbols
  OBVIOUS
<1>5. CASE ReadRecord
  BY <1>1, <1>2, <1>3, <1>5, OtherTables DEF ReadRecord
<1>6. CASE Refuse
  BY <1>3, <1>4, <1>6 DEF Refuse
<1>7. CASE StartSearch
  BY <1>3, <1>4, <1>7 DEF StartSearch, Stop
<1>8. CASE UNCHANGED loader_vars
  BY <1>3, <1>4, <1>8 DEF loader_vars
<1>9. CASE SetSingleLexemes
  BY <1>3, <1>4, <1>9 DEF SetSingleLexemes
<1> QED
  BY <1>5, <1>6, <1>7, <1>8, <1>9 DEF Next, vars

LEMMA EncodedBegins == Init => SymbolsEncoded
<1> SUFFICES ASSUME Init PROVE SymbolsEncoded
  OBVIOUS
<1>1. grammar["symbols"] = <<>>
  BY TableNames DEF Init, LoaderInit
<1> QED
  BY <1>1 DEF SymbolsEncoded

LEMMA Places == \A x \in Units : Int16(x) \in Int /\ Int16(x) <= 32767
BY SMTT(40) DEF Units, Int16

\* the rows of a whole file are numbered by 16 bits and have their records
LEMMA NumbersOfRows ==
  ASSUME file \in Files, file.whole, NEW t \in Tables, NEW i \in DOMAIN file.of[t]
  PROVE  /\ i \in Int /\ i <= 32767
         /\ \E k \in 1..Len(file.records) :
              /\ SaysRow(Record(k), t, i) /\ file.of[t][i] = RowSaid(Record(k))
<1>1. PICK k \in 1..Len(file.records) : SaysRow(Record(k), t, i)
  BY WholeFile
<1>2. /\ Understood(Record(k)) /\ KindOf(Record(k)) \in DOMAIN TableOf
      /\ TableOf[KindOf(Record(k))] = t /\ Number(Record(k), 1) = i
  BY <1>1 DEF SaysRow
<1>3. WellTyped(Record(k)) /\ file.of[t][i] = RowSaid(Record(k))
  BY <1>2, RecordWritten
<1>4. 1 \in NumberPlaces(Record(k))
  BY DEF NumberPlaces
<1>5. Stored(Record(k), 1) \in Units
  BY <1>3, <1>4 DEF WellTyped
<1>6. i \in Int /\ i <= 32767
  BY <1>2, <1>5, Places DEF Number
<1> QED
  BY <1>1, <1>3, <1>6

\* the symbols and the productions of a whole file when it is loaded
LEMMA LoadedRows ==
  ASSUME RowInv, SymbolsEncoded, file.whole, Loaded
  PROVE  /\ file \in Files
         /\ DOMAIN grammar.symbols = DOMAIN file.of.symbols
         /\ DOMAIN grammar.productions = DOMAIN file.of.productions
         /\ \A i \in DOMAIN grammar.symbols :
              /\ i \in Int /\ i <= 32767
              /\ file.of.symbols[i].name \in Seq(Units)
              /\ grammar.symbols[i].name = Utf8(file.of.symbols[i].name)
              /\ grammar.symbols[i].type = file.of.symbols[i].type
         /\ \A i \in DOMAIN grammar.productions :
              /\ i \in Int
              /\ file.of.productions[i] = [head    |-> grammar.productions[i].head,
                                           handles |-> grammar.productions[i].handles]
<1>1. /\ file \in Files
      /\ DOMAIN grammar["symbols"] = DOMAIN file.of["symbols"]
      /\ DOMAIN grammar["productions"] = DOMAIN file.of["productions"]
      /\ \A i \in DOMAIN grammar["symbols"] :
           Decoded(grammar["symbols"][i]) = Numbered(i, file.of["symbols"][i])
      /\ \A i \in DOMAIN grammar["productions"] :
           Decoded(grammar["productions"][i]) = Numbered(i, file.of["productions"][i])
  BY ExactWhenLoaded, TableNames DEF LoadedExact, RowInv, LoadInv
<1>2. "symbols" \in Tables /\ "productions" \in Tables
  BY TableNames
<1>3. ASSUME NEW i \in DOMAIN grammar.symbols
      PROVE  /\ i \in Int /\ i <= 32767
             /\ file.of.symbols[i].name \in Seq(Units)
             /\ grammar.symbols[i].name = Utf8(file.of.symbols[i].name)
             /\ grammar.symbols[i].type = file.of.symbols[i].type
  <2>0. PICK u \in Seq(Units) : \E n, a : grammar.symbols[i] = SymbolRow(n, u, a)
    BY <1>3 DEF SymbolsEncoded, Encoded
  <2>1. PICK n, a : grammar.symbols[i] = SymbolRow(n, u, a)
    BY <2>0
  <2>2. Decoded(grammar.symbols[i]) = [index |-> n, name |-> u, type |-> a]
    BY <2>1, NamesKept, DecodedForms DEF SymbolRow
  <2>3. i \in DOMAIN file.of["symbols"]
    BY <1>1, <1>3
  <2>4. /\ i \in Int /\ i <= 32767
        /\ \E k \in 1..Len(file.records) :
              /\ SaysRow(Record(k), "symbols", i) /\ file.of["symbols"][i] = RowSaid(Record(k))
    BY <1>1, <1>2, <2>3, NumbersOfRows
  <2>5. PICK k \in 1..Len(file.records) :
              /\ SaysRow(Record(k), "symbols", i) /\ file.of["symbols"][i] = RowSaid(Record(k))
    BY <2>4
  <2>6. KindOf(Record(k)) = "S"
    BY <2>5, TableNames DEF SaysRow, TableOf
  <2>7. file.of["symbols"][i] = [name |-> Stored(Record(k), 2), type |-> Number(Record(k), 3)]
    BY <2>5, <2>6 DEF RowSaid, SymbolSaid
  <2>8. Numbered(i, file.of["symbols"][i])
          = [index |-> i, name |-> Stored(Record(k), 2), type |-> Number(Record(k), 3)]
    BY <2>7, RowForms
  <2>9. [index |-> n, name |-> u, type |-> a]
          = [index |-> i, name |-> Stored(Record(k), 2), type |-> Number(Record(k), 3)]
    BY <1>1, <1>3, <2>2, <2>8
  <2>10. u = file.of["symbols"][i].name /\ a = file.of["symbols"][i].type
    BY <2>7, <2>9
  <2> QED
    BY <2>1, <2>4, <2>10 DEF SymbolRow
<1>4. ASSUME NEW i \in DOMAIN grammar.productions
      PROVE  /\ i \in Int
             /\ file.of.productions[i] = [head    |-> grammar.productions[i].head,
                                          handles |-> grammar.productions[i].handles]
  <2>1. i \in DOMAIN file.of["productions"]
    BY <1>1, <1>4
  <2>2. /\ i \in Int
        /\ \E k \in 1..Len(file.records) :
              /\ SaysRow(Record(k), "productions", i)
              /\ file.of["productions"][i] = RowSaid(Record(k))
    BY <1>1, <1>2, <2>1, NumbersOfRows
  <2>3. PICK k \in 1..Len(file.records) :
              /\ SaysRow(Record(k), "productions", i)
              /\ file.of["productions"][i] = RowSaid(Record(k))
    BY <2>2
  <2>4. KindOf(Record(k)) = "R"
    BY <2>3, TableNames DEF SaysRow, TableOf
  <2>5. PICK h, hs : file.of["productions"][i] = [head |-> h, handles |-> hs]
    BY <2>3, <2>4 DEF RowSaid, ProductionSaid
  <2>6. Decoded(grammar["productions"][i]) = [index |-> i, head |-> h, handles |-> hs]
    BY <1>1, <1>4, <2>5, RowForms
  <2> DEFINE row == grammar["productions"][i]
  <2>7. "name" \notin DOMAIN row
    <3>1. DOMAIN Decoded(row) = DOMAIN row
      BY DEF Decoded
    <3>2. "name" \notin DOMAIN Decoded(row)
      BY <2>6
    <3> QED
      BY <3>1, <3>2
  <2>8. row = [index |-> i, head |-> h, handles |-> hs]
    BY <2>6, <2>7 DEF Decoded
  <2>9. row.head = h /\ row.handles = hs
    BY <2>8
  <2> QED
    BY <2>2, <2>5, <2>9
<1> QED
  BY <1>1, <1>3, <1>4

\* the names of a loaded grammar, as bytes
ByteNames ==
  /\ \A i \in DOMAIN grammar.symbols : NameFits(grammar.symbols[i])
  /\ \A i, j \in DOMAIN grammar.symbols :
       /\ GoesOnElse(grammar.symbols[i], grammar.symbols[j])
       /\ grammar.symbols[i].name = grammar.symbols[j].name
          /\ Opening(grammar.symbols[i]) = Opening(grammar.symbols[j]) => i = j

LEMMA TypeDecides ==
  ASSUME NEW s, NEW t, s.type = t.type
  PROVE  Opening(s) = Opening(t) /\ Closing(s) = Closing(t)
BY DEF Opening, Closing

\* what NamesApart says of the file's names holds of them
LEMMA NamesLoaded ==
  ASSUME RowInv, SymbolsEncoded, file.whole, Loaded, NamesApart(file)
  PROVE  ByteNames
<1> DEFINE D == DOMAIN grammar.symbols
           S(i) == grammar.symbols[i]
           F(i) == file.of.symbols[i]
<1>0. D = DOMAIN file.of.symbols
  BY LoadedRows
<1>1. \A i, j \in D : F(i).name = F(j).name /\ Opening(F(i)) = Opening(F(j)) => i = j
  BY <1>0 DEF NamesApart
<1>2. \A i \in D : /\ F(i).name # <<>>
                   /\ \A k \in DOMAIN F(i).name : /\ F(i).type = 1 => F(i).name[k] # 32
                                                  /\ F(i).name[k] # Closing(F(i))
                   /\ F(i).type # 1 => F(i).name[1] # 32
  BY <1>0 DEF NamesApart
<1>3. \A i, j \in D : F(i).type = 1 /\ Len(F(i).name) > 1 /\ F(i).name[1] = Opening(F(j)) =>
                        F(i).name[2] < 128 /\ F(i).name[2] # F(j).name[1]
  BY <1>0 DEF NamesApart
<1>4. \A i \in D : /\ F(i).name \in Seq(Units) /\ S(i).name = Utf8(F(i).name)
                   /\ S(i).type = F(i).type
                   /\ Opening(S(i)) = Opening(F(i)) /\ Closing(S(i)) = Closing(F(i))
  BY LoadedRows, TypeDecides
<1> HIDE DEF D, S, F
<1>5. ASSUME NEW i \in D, NEW j \in D
      PROVE  /\ NameFits(S(i)) /\ GoesOnElse(S(i), S(j))
             /\ S(i).name = S(j).name /\ Opening(S(i)) = Opening(S(j)) => i = j
  <2> DEFINE u == F(i).name
             w == F(j).name
             s == S(i)
             t == S(j)
  <2>1. /\ u \in Seq(Units) /\ w \in Seq(Units) /\ s.name = Utf8(u) /\ t.name = Utf8(w)
        /\ u # <<>> /\ w # <<>> /\ DOMAIN u = 1..Len(u)
    BY <1>2, <1>4, LenProperties
  <2>2. /\ \A k \in 1..Len(u) : (s.type = 1 => u[k] # 32) /\ u[k] # Closing(s)
        /\ s.type # 1 => u[1] # 32
    BY <1>2, <1>4, <2>1
  <2>3. s.type = 1 /\ Len(u) > 1 /\ u[1] = Opening(t) => u[2] < 128 /\ u[2] # w[1]
    BY <1>3, <1>4
  <2>4. s.name = t.name /\ Opening(s) = Opening(t) => i = j
    <3> SUFFICES ASSUME s.name = t.name, Opening(s) = Opening(t) PROVE i = j
      OBVIOUS
    <3>1. u = w
      BY <2>1, NamesKept
    <3> QED
      BY <1>1, <1>4, <3>1
  <2> HIDE DEF u, w, s, t
  <2>5. NameFits(s) /\ GoesOnElse(s, t)
    BY <2>1, <2>2, <2>3, UnitsToBytes
  <2> QED
    BY <2>4, <2>5 DEF s, t
<1> QED
  BY <1>5 DEF ByteNames, D, S
-----------------------------------------------------------------------------
(* What is looked up by ID.                                                *)

SymbolIDs == {SymbolID(grammar.symbols[i]) : i \in DOMAIN grammar.symbols}

LEMMA IDsAreWords ==
  ASSUME ByteNames
  PROVE  /\ Words(SymbolIDs)
         /\ \A i, j \in DOMAIN grammar.symbols :
              SymbolID(grammar.symbols[i]) = SymbolID(grammar.symbols[j]) => i = j
<1>1. \A i \in DOMAIN grammar.symbols :
        /\ SymbolID(grammar.symbols[i]) \in Seq(Bytes)
        /\ SymbolID(grammar.symbols[i]) # <<>>
  <2> TAKE i \in DOMAIN grammar.symbols
  <2> DEFINE s == grammar.symbols[i]
  <2>1. NameFits(s)
    BY DEF ByteNames
  <2> HIDE DEF s
  <2>2. SymbolID(s) \in Seq(Bytes) /\ Len(SymbolID(s)) # 0
    BY <2>1, Plain, InBrackets
  <2>3. SymbolID(s) # <<>>
    BY <2>2, EmptySeq
  <2> QED
    BY <2>2, <2>3 DEF s
<1>2. \A i, j \in DOMAIN grammar.symbols :
        ~Ahead(SymbolID(grammar.symbols[i]), SymbolID(grammar.symbols[j]))
  BY NotAhead DEF ByteNames
<1>3. \A i, j \in DOMAIN grammar.symbols :
        SymbolID(grammar.symbols[i]) = SymbolID(grammar.symbols[j]) => i = j
  BY SameID DEF ByteNames
<1> QED
  BY <1>1, <1>2, <1>3 DEF Words, SymbolIDs

IDsOf(hs) == [k \in DOMAIN hs |-> SymbolID(grammar.symbols[hs[k]])]

LEMMA ProductionIDIs ==
  ASSUME NEW p
  PROVE  ProductionID(p) = Text(SymbolID(grammar.symbols[p.head]), IDsOf(p.handles))
<1>1. DOMAIN IDsOf(p.handles) = DOMAIN p.handles
  BY DEF IDsOf
<1>2. \A k \in DOMAIN p.handles : IDsOf(p.handles)[k] = SymbolID(grammar.symbols[p.handles[k]])
  BY DEF IDsOf
<1>3. Spaced(IDsOf(p.handles))
        = [i \in DOMAIN p.handles |->
             (IF i = 1 THEN <<>> ELSE <<32>>) \o SymbolID(grammar.symbols[p.handles[i]])]
  BY <1>1, <1>2 DEF Spaced
<1> QED
  BY <1>3 DEF ProductionID, Text

\* productions with the same ID have the same head and handles
LEMMA SameProduction ==
  ASSUME ByteNames, NEW p, NEW q, ProductionID(p) = ProductionID(q),
         p.head \in DOMAIN grammar.symbols, q.head \in DOMAIN grammar.symbols,
         p.handles \in Seq(DOMAIN grammar.symbols), q.handles \in Seq(DOMAIN grammar.symbols)
  PROVE  p.head = q.head /\ p.handles = q.handles
<1>1. ASSUME NEW hs \in Seq(DOMAIN grammar.symbols)
      PROVE  /\ IDsOf(hs) \in Seq(SymbolIDs) /\ Len(IDsOf(hs)) = Len(hs) /\ Len(hs) \in Nat
             /\ \A k \in 1..Len(hs) : /\ hs[k] \in DOMAIN grammar.symbols
                                      /\ IDsOf(hs)[k] = SymbolID(grammar.symbols[hs[k]])
  <2>1. DOMAIN hs = 1..Len(hs) /\ Len(hs) \in Nat
        /\ \A k \in 1..Len(hs) : hs[k] \in DOMAIN grammar.symbols
    BY LenProperties, ElementOfSeq
  <2>2. \A k \in 1..Len(hs) : SymbolID(grammar.symbols[hs[k]]) \in SymbolIDs
    BY <2>1 DEF SymbolIDs
  <2> DEFINE id(k) == SymbolID(grammar.symbols[hs[k]])
  <2>3. IDsOf(hs) = [k \in 1..Len(hs) |-> id(k)] /\ \A k \in 1..Len(hs) : id(k) \in SymbolIDs
    BY <2>1, <2>2 DEF IDsOf
  <2>4. \A k \in 1..Len(hs) : IDsOf(hs)[k] = id(k)
    BY <2>3
  <2> HIDE DEF id
  <2>5. IDsOf(hs) \in [1..Len(hs) -> SymbolIDs]
    BY <2>3
  <2>6. IDsOf(hs) \in Seq(SymbolIDs) /\ Len(IDsOf(hs)) = Len(hs)
    BY <2>1, <2>5
  <2> QED
    BY <2>1, <2>4, <2>6 DEF id
<1> DEFINE a == SymbolID(grammar.symbols[p.head])
           b == SymbolID(grammar.symbols[q.head])
           hs == IDsOf(p.handles)
           ks == IDsOf(q.handles)
<1>2. /\ a \in SymbolIDs /\ b \in SymbolIDs
      /\ hs \in Seq(SymbolIDs) /\ ks \in Seq(SymbolIDs)
  BY <1>1 DEF SymbolIDs
<1>3. Text(a, hs) = Text(b, ks)
  BY ProductionIDIs
<1>4. Words(SymbolIDs)
  BY IDsAreWords
<1> HIDE DEF a, b, hs, ks
<1>5. a = b /\ hs = ks
  BY <1>2, <1>3, <1>4, SameTexts
<1>6. p.head = q.head
  BY <1>5, IDsAreWords DEF a, b
<1>7. p.handles = q.handles
  <2>1. Len(p.handles) = Len(q.handles)
    BY <1>1, <1>5 DEF hs, ks
  <2>2. \A k \in 1..Len(p.handles) : p.handles[k] = q.handles[k]
    <3> TAKE k \in 1..Len(p.handles)
    <3>1. /\ p.handles[k] \in DOMAIN grammar.symbols /\ q.handles[k] \in DOMAIN grammar.symbols
          /\ SymbolID(grammar.symbols[p.handles[k]]) = SymbolID(grammar.symbols[q.handles[k]])
      BY <1>1, <1>5, <2>1 DEF hs, ks
    <3> QED
      BY <3>1, IDsAreWords
  <2> QED
    BY <2>1, <2>2, SeqEqual
<1> QED
  BY <1>6, <1>7

\* a row that alone passes a test is found
LEMMA OnlyHit ==
  ASSUME NEW H, NEW i \in Int, H = {i}
  PROVE  (IF H = {} THEN -1 ELSE CHOOSE x \in H : \A y \in H : y <= x) = i
OBVIOUS

Numbers16 == {i \in Int : i <= 32767}

\* of several rows that pass a test the last one is found
LEMMA LastHit ==
  ASSUME NEW H, H # {}, H \subseteq Numbers16
  PROVE  (IF H = {} THEN -1 ELSE CHOOSE x \in H : \A y \in H : y <= x) \in H
<1> DEFINE D == {32767 - i : i \in H}
<1>1. D \subseteq Nat /\ D # {}
  <2>1. \A i \in H : 32767 - i \in Nat
    BY DEF Numbers16
  <2> QED
    BY <2>1
<1>2. PICK m \in D : \A k \in D : m <= k
  <2> HIDE DEF D
  <2> QED
    BY <1>1, Least
<1>3. PICK x \in H : m = 32767 - x
  BY <1>2
<1>4. \A y \in H : y <= x
  <2> TAKE y \in H
  <2>1. 32767 - y \in D
    OBVIOUS
  <2>2. 32767 - x <= 32767 - y
    BY <1>2, <1>3, <2>1
  <2> QED
    BY <2>2 DEF Numbers16
<1> HIDE DEF D
<1>5. \E z \in H : \A y \in H : y <= z
  BY <1>4
<1> QED
  BY <1>5

LEMMA FoundWhenApart ==
  ASSUME RowInv, SymbolsEncoded, \A f \in Files : f.whole => NamesApart(f)
  PROVE  FoundByID
<1> SUFFICES ASSUME file.whole, Loaded PROVE FoundByID
  BY DEF FoundByID
<1>0. /\ DOMAIN grammar.symbols = DOMAIN file.of.symbols
      /\ DOMAIN grammar.productions = DOMAIN file.of.productions
      /\ \A i \in DOMAIN grammar.productions :
           /\ i \in Int
           /\ file.of.productions[i] = [head    |-> grammar.productions[i].head,
                                        handles |-> grammar.productions[i].handles]
  BY LoadedRows
<1>1. NamesApart(file) /\ file \in Files
  BY LoadedRows
<1>2. ByteNames
  BY <1>1, NamesLoaded
<1>3. ASSUME NEW i \in DOMAIN grammar.symbols
      PROVE  GetSymbol(SymbolID(grammar.symbols[i])) = i
  <2> DEFINE H == {j \in DOMAIN grammar["symbols"] :
                     SymbolID(grammar["symbols"][j]) = SymbolID(grammar.symbols[i])}
  <2>1. H = {i}
    BY <1>2, IDsAreWords
  <2>2. GetSymbol(SymbolID(grammar.symbols[i]))
          = IF H = {} THEN -1 ELSE CHOOSE x \in H : \A y \in H : y <= x
    BY DEF GetSymbol, IndexOf
  <2>3. i \in Int
    BY LoadedRows
  <2> HIDE DEF H
  <2> QED
    BY <2>1, <2>2, <2>3, OnlyHit
<1>4. ASSUME NEW i \in DOMAIN grammar.productions
      PROVE  GetProduction(ProductionID(grammar.productions[i])) = i
  <2> DEFINE P(j) == grammar.productions[j]
             H == {j \in DOMAIN grammar["productions"] :
                     ProductionID(grammar["productions"][j]) = ProductionID(grammar.productions[i])}
  <2>1. ASSUME NEW j \in DOMAIN grammar.productions
        PROVE  /\ P(j).head \in DOMAIN grammar.symbols
               /\ P(j).handles \in Seq(DOMAIN grammar.symbols)
               /\ file.of.productions[j] = [head |-> P(j).head, handles |-> P(j).handles]
               /\ j \in DOMAIN file.of.productions
    <3>1. /\ j \in DOMAIN file.of.productions /\ DOMAIN grammar.symbols = DOMAIN file.of.symbols
          /\ file.of.productions[j] = [head |-> P(j).head, handles |-> P(j).handles]
      BY <1>0
    <3>2. /\ file.of.productions[j].head \in DOMAIN grammar.symbols
          /\ file.of.productions[j].handles \in Seq(DOMAIN grammar.symbols)
      BY <1>1, <3>1 DEF NamesApart
    <3>3. file.of.productions[j].head = P(j).head /\ file.of.productions[j].handles = P(j).handles
      <4> HIDE DEF P
      <4> QED
        BY <3>1
    <3> QED
      BY <3>1, <3>2, <3>3
  <2>2. ASSUME NEW j \in DOMAIN grammar.productions, ProductionID(P(j)) = ProductionID(P(i))
        PROVE  j = i
    <3>1. P(j).head = P(i).head /\ P(j).handles = P(i).handles
      <4> HIDE DEF P
      <4> QED
        BY <1>2, <2>1, <2>2, SameProduction
    <3>2. file.of.productions[j] = file.of.productions[i]
      BY <2>1, <3>1
    <3> QED
      BY <1>1, <2>1, <3>2 DEF NamesApart
  <2>3. H = {i}
    BY <2>2
  <2>4. GetProduction(ProductionID(grammar.productions[i]))
          = IF H = {} THEN -1 ELSE CHOOSE x \in H : \A y \in H : y <= x
    BY DEF GetProduction, IndexOf
  <2>5. i \in Int
    BY <1>0
  <2> HIDE DEF H
  <2> QED
    BY <2>3, <2>4, <2>5, OnlyHit
<1>5. ASSUME NEW c \in {3, 7}, NEW H,
             H = {j \in DOMAIN grammar["symbols"] : grammar["symbols"][j].type = c}
      PROVE  file.of.symbols[IF H = {} THEN -1 ELSE CHOOSE x \in H : \A y \in H : y <= x].type = c
  <2>1. PICK j \in DOMAIN file.of.symbols : file.of.symbols[j].type = c
    BY <1>1 DEF NamesApart
  <2>2. H # {} /\ H \subseteq Numbers16
    BY <1>5, <2>1, LoadedRows DEF Numbers16
  <2> DEFINE x0 == IF H = {} THEN -1 ELSE CHOOSE x \in H : \A y \in H : y <= x
  <2>3. x0 \in H
    BY <2>2, LastHit
  <2> HIDE DEF x0
  <2>4. file.of.symbols[x0].type = c
    BY <1>5, <2>3, LoadedRows
  <2> QED
    BY <2>4 DEF x0
<1>6. file.of.symbols[symbol_EOF].type = 3
  <2> DEFINE H == {j \in DOMAIN grammar["symbols"] : grammar["symbols"][j].type = 3}
  <2>1. symbol_EOF = IF H = {} THEN -1 ELSE CHOOSE x \in H : \A y \in H : y <= x
    BY DEF symbol_EOF, IndexOf
  <2> QED
    BY <1>5, <2>1
<1>7. file.of.symbols[symbol_Error].type = 7
  <2> DEFINE H == {j \in DOMAIN grammar["symbols"] : grammar["symbols"][j].type = 7}
  <2>1. symbol_Error = IF H = {} THEN -1 ELSE CHOOSE x \in H : \A y \in H : y <= x
    BY DEF symbol_Error, IndexOf
  <2> QED
    BY <1>5, <2>1
<1> QED
  BY <1>3, <1>4, <1>6, <1>7 DEF FoundByID

\* Symbol::GetID and Production::GetID tell every two symbols and every two productions of
\* a loaded grammar apart, and GetSymbol and GetProduction find by an ID the one that has
\* it, for all grammars whose names keep to NamesApart, however many symbols and handles.
THEOREM AlwaysFoundByID ==
  ASSUME \A f \in Files : f.whole => NamesApart(f)
  PROVE  Spec => []FoundByID
<1>1. Init => RowInv /\ SymbolsEncoded
  BY RowsBegin, EncodedBegins
<1>2. RowInv /\ SymbolsEncoded /\ [Next]_vars => (RowInv /\ SymbolsEncoded)'
  BY RowsKept, EncodedKept
<1>3. RowInv /\ SymbolsEncoded => FoundByID
  BY FoundWhenApart
<1> QED
  BY <1>1, <1>2, <1>3, PTL DEF Spec
=============================================================================
