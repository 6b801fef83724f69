-------------------------- MODULE DerivationProofs --------------------------
(***************************************************************************)
(* The abstract bottom-up parser accepts only what the start symbol        *)
(* derives: its sentential form derives the terminals read at every step.  *)
(***************************************************************************)
EXTENDS Derivation, Induction, SequenceTheorems

\* The form and the terminals read stay sequences of symbols.
TypeOK == /\ form \in Seq(Symbols)
          /\ consumed \in Seq(Symbols)
          /\ verdict \in {"open", "accept", "reject"}

FormDerives == Derives(form, consumed)

\* What is accepted is derived from the start symbol.
AcceptSound == verdict = "accept" => Derives(<<StartSymbol>>, consumed)

\* An accepted form is the start symbol until the next text.
AcceptedForm == verdict = "accept" => form = <<StartSymbol>>

IInv == TypeOK /\ FormDerives /\ AcceptedForm
-----------------------------------------------------------------------------
\* Concatenation is associative.
LEMMA ConcatAssociates ==
  \A a, b, c \in Seq(Symbols) : (a \o b) \o c = a \o (b \o c)
BY ConcatAssociative, SMTT(20)

\* A sequence derives itself, in no steps.
LEMMA DerivesReflexive ==
  ASSUME NEW x \in Seq(Symbols)
  PROVE  Derives(x, x)
<1> DEFINE f == [i \in 0..0 |-> x]
<1>1. f \in [0..0 -> Seq(Symbols)] /\ f[0] = x
  OBVIOUS
<1>2. \A i \in 1..0 : Rewrites(f[i - 1], f[i])
  OBVIOUS
<1> QED
  BY <1>1, <1>2, Zenon DEF Derives

\* A rewriting step is not disturbed by a symbol behind both sides.
LEMMA RewritesAppend ==
  ASSUME NEW x \in Seq(Symbols), NEW y \in Seq(Symbols), NEW t \in Symbols,
         GrammarTyped, Rewrites(x, y)
  PROVE  Rewrites(Append(x, t), Append(y, t))
<1>1. PICK p \in DOMAIN Productions, u \in Seq(Symbols), v \in Seq(Symbols) :
        /\ x = u \o <<Productions[p].head>> \o v
        /\ y = u \o Productions[p].handles \o v
  BY DEF Rewrites
<1> DEFINE hd == <<Productions[p].head>>
           rhs == Productions[p].handles
<1>2. hd \in Seq(Symbols) /\ rhs \in Seq(Symbols)
  BY DEF GrammarTyped
<1>3. Append(v, t) \in Seq(Symbols) /\ Append(v, t) = v \o <<t>> /\ <<t>> \in Seq(Symbols)
  BY AppendIsConcat
<1>4. \A w \in Seq(Symbols) :
        Append(u \o w \o v, t) = u \o w \o Append(v, t)
  <2> TAKE w \in Seq(Symbols)
  <2>1. u \o w \in Seq(Symbols) /\ (u \o w) \o v \in Seq(Symbols)
    BY ConcatProperties
  <2>2. Append((u \o w) \o v, t) = ((u \o w) \o v) \o <<t>>
    BY <2>1, AppendIsConcat
  <2>3. ((u \o w) \o v) \o <<t>> = (u \o w) \o (v \o <<t>>)
    <3> DEFINE a == u \o w
               c == <<t>>
    <3>1. a \in Seq(Symbols) /\ v \in Seq(Symbols) /\ c \in Seq(Symbols)
      BY <1>3, <2>1
    <3> HIDE DEF a, c
    <3>2. (a \o v) \o c = a \o (v \o c)
      BY <3>1, ConcatAssociates, SMTT(60)
    <3> QED
      BY <3>2 DEF a, c
  <2> QED
    BY <2>2, <2>3, <1>3
<1>5. Append(x, t) = u \o hd \o Append(v, t)
  BY <1>1, <1>2, <1>4
<1>6. Append(y, t) = u \o rhs \o Append(v, t)
  BY <1>1, <1>2, <1>4
<1> QED
  BY <1>3, <1>5, <1>6, Zenon DEF Rewrites

\* Reading a terminal: both ends of a derivation may be extended by a symbol.
LEMMA DerivesAppend ==
  ASSUME NEW x \in Seq(Symbols), NEW y \in Seq(Symbols), NEW t \in Symbols,
         GrammarTyped, Derives(x, y)
  PROVE  Derives(Append(x, t), Append(y, t))
<1>0. PICK n \in Nat : \E f \in [0..n -> Seq(Symbols)] :
        /\ f[0] = x
        /\ f[n] = y
        /\ \A i \in 1..n : Rewrites(f[i - 1], f[i])
  BY Zenon DEF Derives
<1>1. PICK f \in [0..n -> Seq(Symbols)] :
        /\ f[0] = x
        /\ f[n] = y
        /\ \A i \in 1..n : Rewrites(f[i - 1], f[i])
  BY <1>0
<1> DEFINE g == [i \in 0..n |-> Append(f[i], t)]
<1>2. g \in [0..n -> Seq(Symbols)]
  BY AppendProperties
<1>3. g[0] = Append(x, t) /\ g[n] = Append(y, t)
  BY <1>1
<1>4. \A i \in 1..n : Rewrites(g[i - 1], g[i])
  <2> TAKE i \in 1..n
  <2>1. i - 1 \in 0..n /\ i \in 0..n
    OBVIOUS
  <2>2. f[i - 1] \in Seq(Symbols) /\ f[i] \in Seq(Symbols) /\ Rewrites(f[i - 1], f[i])
    BY <1>1, <2>1
  <2>3. Rewrites(Append(f[i - 1], t), Append(f[i], t))
    BY <2>2, RewritesAppend
  <2> QED
    BY <2>1, <2>3
<1> HIDE DEF g
<1> QED
  BY <1>2, <1>3, <1>4, Zenon DEF Derives

\* A reduction: a step in front of a derivation is a derivation.
LEMMA DerivesPrepend ==
  ASSUME NEW w \in Seq(Symbols), NEW x \in Seq(Symbols), NEW y \in Seq(Symbols),
         Rewrites(w, x), Derives(x, y)
  PROVE  Derives(w, y)
<1>0. PICK n \in Nat : \E f \in [0..n -> Seq(Symbols)] :
        /\ f[0] = x
        /\ f[n] = y
        /\ \A i \in 1..n : Rewrites(f[i - 1], f[i])
  BY Zenon DEF Derives
<1>1. PICK f \in [0..n -> Seq(Symbols)] :
        /\ f[0] = x
        /\ f[n] = y
        /\ \A i \in 1..n : Rewrites(f[i - 1], f[i])
  BY <1>0
<1> DEFINE g == [i \in 0..n + 1 |-> IF i = 0 THEN w ELSE f[i - 1]]
<1>2. g \in [0..n + 1 -> Seq(Symbols)]
  OBVIOUS
<1>3. g[0] = w /\ g[n + 1] = y
  BY <1>1
<1>4. \A i \in 1..n + 1 : Rewrites(g[i - 1], g[i])
  <2> TAKE i \in 1..n + 1
  <2>1. CASE i = 1
    <3>1. g[i - 1] = w /\ g[i] = x
      BY <1>1, <2>1
    <3> QED
      BY <3>1
  <2>2. CASE i # 1
    <3>1. i - 1 \in 1..n /\ g[i - 1] = f[(i - 1) - 1] /\ g[i] = f[i - 1]
      BY <2>2
    <3> QED
      BY <1>1, <3>1
  <2> QED
    BY <2>1, <2>2
<1> HIDE DEF g
<1>5. n + 1 \in Nat
  OBVIOUS
<1> QED
  BY <1>2, <1>3, <1>4, <1>5, Zenon DEF Derives
\* A rewriting step is not disturbed by what stands around it.
LEMMA RewritesWithin ==
  ASSUME NEW x \in Seq(Symbols), NEW y \in Seq(Symbols), NEW a \in Seq(Symbols),
         NEW b \in Seq(Symbols), GrammarTyped, Rewrites(x, y)
  PROVE  Rewrites(a \o x \o b, a \o y \o b)
<1>1. PICK p \in DOMAIN Productions, u \in Seq(Symbols), v \in Seq(Symbols) :
        /\ x = u \o <<Productions[p].head>> \o v
        /\ y = u \o Productions[p].handles \o v
  BY DEF Rewrites
<1> DEFINE hd == <<Productions[p].head>>
           rhs == Productions[p].handles
<1>2. hd \in Seq(Symbols) /\ rhs \in Seq(Symbols)
  BY DEF GrammarTyped
<1>3. \A w \in Seq(Symbols) : a \o (u \o w \o v) \o b = (a \o u) \o w \o (v \o b)
  <2> TAKE w \in Seq(Symbols)
  <2>1. u \o w \in Seq(Symbols) /\ a \o u \in Seq(Symbols) /\ (u \o w) \o v \in Seq(Symbols)
    BY ConcatProperties
  <2>2. (a \o u) \o w \in Seq(Symbols)
    BY <2>1, ConcatProperties
  <2>3. (a \o (u \o w)) \o v = a \o ((u \o w) \o v)
    <3> DEFINE r == u \o w
    <3>1. r \in Seq(Symbols)
      BY <2>1
    <3> HIDE DEF r
    <3>2. (a \o r) \o v = a \o (r \o v)
      BY <3>1, ConcatAssociates, SMTT(60)
    <3> QED
      BY <3>2 DEF r
  <2>4. (a \o u) \o w = a \o (u \o w)
    BY ConcatAssociates, SMTT(60)
  <2>5. (((a \o u) \o w) \o v) \o b = ((a \o u) \o w) \o (v \o b)
    <3> DEFINE r == (a \o u) \o w
    <3>1. r \in Seq(Symbols)
      BY <2>2
    <3> HIDE DEF r
    <3>2. (r \o v) \o b = r \o (v \o b)
      BY <3>1, ConcatAssociates, SMTT(60)
    <3> QED
      BY <3>2 DEF r
  <2> QED
    BY <2>3, <2>4, <2>5
<1>4. a \o u \in Seq(Symbols) /\ v \o b \in Seq(Symbols)
  BY ConcatProperties
<1>5. /\ a \o (u \o hd \o v) \o b = (a \o u) \o hd \o (v \o b)
      /\ a \o (u \o rhs \o v) \o b = (a \o u) \o rhs \o (v \o b)
  <2> HIDE DEF hd, rhs
  <2> QED
    BY <1>2, <1>3
<1>6. a \o x \o b = (a \o u) \o hd \o (v \o b) /\ a \o y \o b = (a \o u) \o rhs \o (v \o b)
  BY <1>1, <1>5
<1> QED
  BY <1>4, <1>6, Zenon DEF Rewrites

\* A derivation goes on where another ends.
LEMMA DerivesTransitive ==
  ASSUME NEW x \in Seq(Symbols), NEW y \in Seq(Symbols), NEW z \in Seq(Symbols),
         Derives(x, y), Derives(y, z)
  PROVE  Derives(x, z)
<1> DEFINE Is(w, n, f) == /\ f \in [0..n -> Seq(Symbols)] /\ f[0] = w /\ f[n] = y
                          /\ \A i \in 1..n : Rewrites(f[i - 1], f[i])
           T == {n \in Nat : \A w \in Seq(Symbols) : (\E f : Is(w, n, f)) => Derives(w, z)}
<1>1. 0 \in T
  <2> SUFFICES ASSUME NEW w \in Seq(Symbols), NEW f, Is(w, 0, f) PROVE Derives(w, z)
    OBVIOUS
  <2>1. w = y
    OBVIOUS
  <2> QED
    BY <2>1
<1>2. ASSUME NEW n \in Nat, n \in T PROVE n + 1 \in T
  <2> HIDE DEF Is
  <2> SUFFICES ASSUME NEW w \in Seq(Symbols), NEW f, Is(w, n + 1, f) PROVE Derives(w, z)
    OBVIOUS
  <2> USE DEF Is
  <2> DEFINE g == [i \in 0..n |-> f[i + 1]]
  <2>1. f[1] \in Seq(Symbols) /\ Rewrites(w, f[1])
    <3>1. 1 \in 1..n + 1 /\ 1 \in 0..n + 1 /\ f[1 - 1] = w
      OBVIOUS
    <3>2. Rewrites(f[1 - 1], f[1])
      BY <3>1
    <3> QED
      BY <3>1, <3>2
  <2>2. Is(f[1], n, g)
    <3>1. g \in [0..n -> Seq(Symbols)] /\ g[0] = f[1] /\ g[n] = y
      OBVIOUS
    <3>2. ASSUME NEW i \in 1..n PROVE Rewrites(g[i - 1], g[i])
      <4>1. i + 1 \in 1..n + 1 /\ g[i - 1] = f[(i + 1) - 1] /\ g[i] = f[i + 1]
        OBVIOUS
      <4> HIDE DEF g
      <4> QED
        BY <4>1
    <3> QED
      BY <3>1, <3>2
  <2> HIDE DEF Is, g
  <2>3. Derives(f[1], z)
    BY <1>2, <2>1, <2>2
  <2> QED
    BY <2>1, <2>3, DerivesPrepend
<1>3. \A n \in Nat : n \in T
  <2> HIDE DEF T
  <2> QED
    BY <1>1, <1>2, Induction
<1>4. PICK n \in Nat : \E f : Is(x, n, f)
  BY Zenon DEF Derives
<1> HIDE DEF Is
<1> QED
  BY <1>3, <1>4

\* What derives on its own derives within other symbols.
LEMMA DerivesWithin ==
  ASSUME NEW x \in Seq(Symbols), NEW y \in Seq(Symbols), NEW a \in Seq(Symbols),
         NEW b \in Seq(Symbols), GrammarTyped, Derives(x, y)
  PROVE  Derives(a \o x \o b, a \o y \o b)
<1>0. PICK n \in Nat : \E f \in [0..n -> Seq(Symbols)] :
        /\ f[0] = x
        /\ f[n] = y
        /\ \A i \in 1..n : Rewrites(f[i - 1], f[i])
  BY Zenon DEF Derives
<1>1. PICK f \in [0..n -> Seq(Symbols)] :
        /\ f[0] = x
        /\ f[n] = y
        /\ \A i \in 1..n : Rewrites(f[i - 1], f[i])
  BY <1>0
<1> DEFINE g == [i \in 0..n |-> a \o f[i] \o b]
<1>2. g \in [0..n -> Seq(Symbols)]
  <2>1. ASSUME NEW i \in 0..n PROVE a \o f[i] \o b \in Seq(Symbols)
    <3>1. a \o f[i] \in Seq(Symbols)
      BY ConcatProperties
    <3> QED
      BY <3>1, ConcatProperties
  <2> QED
    BY <2>1
<1>3. g[0] = a \o x \o b /\ g[n] = a \o y \o b
  BY <1>1
<1>4. \A i \in 1..n : Rewrites(g[i - 1], g[i])
  <2> TAKE i \in 1..n
  <2>1. i - 1 \in 0..n /\ i \in 0..n
    OBVIOUS
  <2>2. f[i - 1] \in Seq(Symbols) /\ f[i] \in Seq(Symbols) /\ Rewrites(f[i - 1], f[i])
    BY <1>1, <2>1
  <2>3. Rewrites(a \o f[i - 1] \o b, a \o f[i] \o b)
    BY <2>2, RewritesWithin
  <2> QED
    BY <2>1, <2>3
<1> HIDE DEF g
<1> QED
  BY <1>2, <1>3, <1>4, Zenon DEF Derives

\* A head derives its right-hand side within other symbols.
LEMMA DerivesProduction ==
  ASSUME NEW p \in DOMAIN Productions, NEW a \in Seq(Symbols), NEW b \in Seq(Symbols), GrammarTyped
  PROVE  Derives(a \o <<Productions[p].head>> \o b, a \o Productions[p].handles \o b)
<1> DEFINE x == a \o <<Productions[p].head>> \o b
           y == a \o Productions[p].handles \o b
<1>1. Rewrites(x, y)
  BY Zenon DEF Rewrites
<1>2. x \in Seq(Symbols) /\ y \in Seq(Symbols)
  <2>1. <<Productions[p].head>> \in Seq(Symbols) /\ Productions[p].handles \in Seq(Symbols)
    BY DEF GrammarTyped
  <2>2. a \o <<Productions[p].head>> \in Seq(Symbols) /\ a \o Productions[p].handles \in Seq(Symbols)
    BY <2>1, ConcatProperties
  <2> QED
    BY <2>1, <2>2, ConcatProperties
<1> HIDE DEF x, y
<1>3. Derives(x, y)
  BY <1>1, <1>2, DerivesReflexive, DerivesPrepend
<1> QED
  BY <1>3 DEF x, y

\* A sequence of symbols each of which derives terminals derives terminals.
LEMMA WordOfWords ==
  ASSUME GrammarTyped, NEW T, T \subseteq Symbols, NEW U, U \subseteq Symbols,
         \A x \in U : \E w \in Seq(T) : Derives(<<x>>, w)
  PROVE  \A s \in Seq(U) : \E w \in Seq(T) : Derives(s, w)
<1> DEFINE Words(s) == \E w \in Seq(T) : Derives(s, w)
           N == {n \in Nat : \A s \in Seq(U) : Len(s) = n => Words(s)}
<1>1. 0 \in N
  <2> SUFFICES ASSUME NEW s \in Seq(U), Len(s) = 0 PROVE Words(s)
    OBVIOUS
  <2>1. s = <<>> /\ <<>> \in Seq(T) /\ <<>> \in Seq(Symbols)
    BY EmptySeq
  <2> QED
    BY <2>1, DerivesReflexive
<1>2. ASSUME NEW n \in Nat, n \in N PROVE n + 1 \in N
  <2> SUFFICES ASSUME NEW s \in Seq(U), Len(s) = n + 1 PROVE Words(s)
    OBVIOUS
  <2>1. PICK r \in Seq(U), x \in U : s = Append(r, x)
    <3>1. s # <<>>
      BY EmptySeq
    <3> QED
      BY <3>1, SequenceEmptyOrAppend
  <2>2. Len(r) = n
    BY <2>1, AppendProperties, LenProperties
  <2>3. PICK v \in Seq(T) : Derives(r, v)
    BY <1>2, <2>2
  <2>4. PICK w \in Seq(T) : Derives(<<x>>, w)
    OBVIOUS
  <2>5. /\ r \in Seq(Symbols) /\ v \in Seq(Symbols) /\ w \in Seq(Symbols) /\ x \in Symbols
        /\ <<>> \in Seq(Symbols)
    BY EmptySeq, SeqMonotonic
  <2>6. <<x>> \in Seq(Symbols)
    BY <2>5
  <2> DEFINE hd == <<x>>
  <2>7. Derives(r \o hd, v \o hd)
    <3>1. Derives(Append(r, x), Append(v, x))
      BY <2>3, <2>5, DerivesAppend
    <3> QED
      BY <2>5, <3>1, AppendIsConcat
  <2> HIDE DEF hd
  <2>8. Derives(v \o hd, v \o w)
    <3>1. Derives(v \o hd \o <<>>, v \o w \o <<>>)
      BY <2>4, <2>5, <2>6, DerivesWithin DEF hd
    <3>2. v \o hd \in Seq(Symbols) /\ v \o w \in Seq(Symbols)
      BY <2>5, <2>6, ConcatProperties DEF hd
    <3> QED
      BY <3>1, <3>2, ConcatEmptySeq
  <2>9. Derives(r \o hd, v \o w)
    <3>1. r \o hd \in Seq(Symbols) /\ v \o hd \in Seq(Symbols) /\ v \o w \in Seq(Symbols)
      BY <2>5, <2>6, ConcatProperties DEF hd
    <3> QED
      BY <2>7, <2>8, <3>1, DerivesTransitive
  <2>10. s = r \o hd /\ v \o w \in Seq(T)
    BY <2>1, AppendIsConcat, ConcatProperties DEF hd
  <2> QED
    BY <2>9, <2>10
<1>3. \A n \in Nat : n \in N
  <2> HIDE DEF N
  <2> QED
    BY <1>1, <1>2, Induction
<1> QED
  BY <1>3, LenProperties
-----------------------------------------------------------------------------
LEMMA InitIInv == Init => IInv
<1> SUFFICES ASSUME Init PROVE IInv
  OBVIOUS
<1>1. <<>> \in Seq(Symbols)
  OBVIOUS
<1> QED
  BY <1>1, DerivesReflexive DEF Init, IInv, TypeOK, FormDerives, AcceptedForm

LEMMA ReadIInv ==
  ASSUME GrammarTyped, IInv, NEW t \in Terminals, Read(t)
  PROVE  IInv'
<1>1. t \in Symbols
  BY DEF GrammarTyped
<1>2. TypeOK'
  BY <1>1, AppendProperties DEF IInv, TypeOK, Read
<1>3. FormDerives'
  BY <1>1, DerivesAppend DEF IInv, TypeOK, FormDerives, Read
<1>4. AcceptedForm'
  BY DEF Read, AcceptedForm
<1> QED
  BY <1>2, <1>3, <1>4 DEF IInv

LEMMA ReplaceIInv ==
  ASSUME GrammarTyped, IInv, NEW p \in DOMAIN Productions, NEW front \in Fronts, Replace(p, front)
  PROVE  IInv'
<1> DEFINE hd == Productions[p].head
           rhs == Productions[p].handles
<1>1. hd \in Symbols /\ rhs \in Seq(Symbols) /\ <<>> \in Seq(Symbols) /\ <<hd>> \in Seq(Symbols)
  BY DEF GrammarTyped
<1>2. front \in Seq(Symbols)
  <2>1. PICK n \in 0..Len(form) : front = SubSeq(form, 1, n)
    BY DEF Fronts
  <2> QED
    BY <2>1, SubSeqProperties, ElementOfSeq DEF IInv, TypeOK
<1>3. Append(front, hd) \in Seq(Symbols) /\ Append(front, hd) = front \o <<hd>> \o <<>>
  BY <1>1, <1>2, AppendIsConcat, AppendProperties, ConcatEmptySeq
<1>4. form = front \o rhs \o <<>>
  <2>1. front \o rhs \in Seq(Symbols)
    BY <1>1, <1>2, ConcatProperties
  <2> QED
    BY <2>1, ConcatEmptySeq DEF Replace
<1>5. Rewrites(form', form)
  BY <1>1, <1>2, <1>3, <1>4, Zenon DEF Rewrites, Replace
<1>6. TypeOK'
  BY <1>3 DEF IInv, TypeOK, Replace
<1>7. FormDerives'
  BY <1>5, <1>6, DerivesPrepend DEF IInv, TypeOK, FormDerives, Replace
<1>8. AcceptedForm'
  BY DEF Replace, AcceptedForm
<1> QED
  BY <1>6, <1>7, <1>8 DEF IInv

LEMMA NextIInv ==
  ASSUME GrammarTyped, IInv, [Next]_vars
  PROVE  IInv'
<1>1. CASE \E t \in Terminals : Read(t)
  BY <1>1, ReadIInv
<1>2. CASE \E p \in DOMAIN Productions : \E front \in Fronts : Replace(p, front)
  BY <1>2, ReplaceIInv
<1>3. CASE Accept
  BY <1>3 DEF Accept, IInv, TypeOK, FormDerives, AcceptedForm
<1>4. CASE Reject
  BY <1>4 DEF Reject, IInv, TypeOK, FormDerives, AcceptedForm
<1>5. CASE Restart
  <2>1. <<>> \in Seq(Symbols)
    OBVIOUS
  <2> QED
    BY <1>5, <2>1, DerivesReflexive DEF Restart, IInv, TypeOK, FormDerives, AcceptedForm
<1>6. CASE UNCHANGED vars
  BY <1>6 DEF vars, IInv, TypeOK, FormDerives, AcceptedForm
<1> QED
  BY <1>1, <1>2, <1>3, <1>4, <1>5, <1>6 DEF Next

\* The abstract parser accepts only terminals that the start symbol derives.
THEOREM AcceptsDerived ==
  ASSUME GrammarTyped
  PROVE  Spec => []AcceptSound
<1>1. IInv => AcceptSound
  BY DEF IInv, FormDerives, AcceptedForm, AcceptSound
<1>2. IInv /\ [Next]_vars => IInv'
  BY NextIInv
<1> QED
  BY InitIInv, <1>1, <1>2, PTL DEF Spec
=============================================================================
