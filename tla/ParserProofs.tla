---------------------------- MODULE ParserProofs ----------------------------
(***************************************************************************)
(* Proofs about the LALR engine for every table whose LR(0) items are      *)
(* consistent (LalrItems).  The argument: every item of a state is backed  *)
(* by the stack below it, so a completed item names exactly the symbols    *)
(* that a reduction pops, and the state it uncovers holds the same item    *)
(* with the dot at the front, whose goto therefore exists.  From it follow *)
(* the refinement of Derivation and what is said of the language.          *)
(***************************************************************************)
EXTENDS ParserImplements, EngineProofs, FiniteSetTheorems

\* Item <<s[i].state, p, d>> is backed: the d symbols up to position i are the
\* first d handles of p, and the states below them hold p with the dot before.
Backed(s, i, p, d) ==
  /\ d < i
  /\ \A k \in 0..d : /\ <<s[i - k].state, p, d - k>> \in Items
                     /\ k < d => SymbolOf(s[i - k]) = Productions[p].handles[d - k]

ItemsBacked(s) ==
  \A i \in 1..Len(s) : \A p \in ProdIdx : \A d \in Nat :
    <<s[i].state, p, d>> \in Items => Backed(s, i, p, d)

SoundStack(s) == /\ s \in Seq(StackItems)
                 /\ s # <<>>
                 /\ PathOf(s)
                 /\ ItemsBacked(s)

IInv == /\ TypeOK
        /\ LookaheadRead
        /\ SoundStack(stack)
        /\ state = Top.state
        /\ HandlesMatch
        /\ NoInternalError
        /\ Final
-----------------------------------------------------------------------------
(* The stack.                                                              *)

\* A stack of the initial item is sound: no item has its dot behind a symbol.
LEMMA InitialSound == SoundStack(InitialStack)
<1> DEFINE it == [state |-> LalrInit, production |-> NoProd, token |-> NoToken]
<1>1. it \in StackItems
  BY TablesTyped DEF StackItems, Tokens, NoToken
<1>2. InitialStack \in Seq(StackItems) /\ InitialStack # <<>> /\ Len(InitialStack) = 1
      /\ InitialStack[1] = it
  BY <1>1 DEF InitialStack
<1>3. PathOf(InitialStack)
  BY <1>2 DEF PathOf
<1>4. ItemsBacked(InitialStack)
  <2> SUFFICES ASSUME NEW i \in 1..Len(InitialStack), NEW p \in ProdIdx, NEW d \in Nat,
                      <<InitialStack[i].state, p, d>> \in Items
               PROVE  Backed(InitialStack, i, p, d)
    BY DEF ItemsBacked
  <2>1. i = 1 /\ InitialStack[i].state = LalrInit
    BY <1>2
  <2>2. d = 0
    BY <2>1, ItemsConsistent DEF InitBegins
  <2> QED
    BY <1>2, <2>1, <2>2 DEF Backed
<1> QED
  BY <1>2, <1>3, <1>4 DEF SoundStack

\* What is left when items are popped is sound.
LEMMA PrefixSound ==
  ASSUME NEW s, SoundStack(s), NEW n \in 1..Len(s)
  PROVE  /\ SoundStack(SubSeq(s, 1, n))
         /\ Len(SubSeq(s, 1, n)) = n
         /\ \A i \in 1..n : SubSeq(s, 1, n)[i] = s[i]
<1> DEFINE t == SubSeq(s, 1, n)
<1>1. s \in Seq(StackItems) /\ Len(s) \in Nat
  BY DEF SoundStack
<1>2. t \in Seq(StackItems) /\ Len(t) = n /\ \A i \in 1..n : t[i] = s[i]
  BY <1>1, SubSeqProperties, ElementOfSeq
<1> HIDE DEF t
<1>3. t # <<>>
  BY <1>2
<1>4. PathOf(t)
  BY <1>1, <1>2 DEF PathOf, SoundStack
<1>5. ItemsBacked(t)
  <2> SUFFICES ASSUME NEW i \in 1..n, NEW p \in ProdIdx, NEW d \in Nat,
                      <<t[i].state, p, d>> \in Items
               PROVE  Backed(t, i, p, d)
    BY <1>2 DEF ItemsBacked
  <2>1. i \in 1..Len(s) /\ t[i] = s[i]
    BY <1>1, <1>2
  <2>2. Backed(s, i, p, d)
    BY <2>1 DEF SoundStack, ItemsBacked
  <2>3. \A k \in 0..d : i - k \in 1..n /\ t[i - k] = s[i - k]
    BY <2>2, <1>2 DEF Backed
  <2> QED
    BY <2>2, <2>3 DEF Backed
<1> QED
  BY <1>2, <1>3, <1>4, <1>5 DEF SoundStack, t

\* An item pushed along an edge of the automaton keeps the stack sound.
LEMMA PushSound ==
  ASSUME NEW s, SoundStack(s), NEW it \in StackItems, SymbolOf(it) \in Symbols,
         Edge(s[Len(s)].state, SymbolOf(it), it.state)
  PROVE  SoundStack(Append(s, it))
<1> DEFINE t == Append(s, it)
           n == Len(s)
<1>1. s \in Seq(StackItems) /\ n \in Nat /\ n >= 1
  BY EmptySeq DEF SoundStack
<1>2. t \in Seq(StackItems) /\ Len(t) = n + 1 /\ t[n + 1] = it
      /\ \A i \in 1..n : t[i] = s[i]
  BY <1>1, AppendProperties
<1> HIDE DEF t
<1>3. t # <<>>
  BY <1>1, <1>2
<1>4. PathOf(t)
  BY <1>1, <1>2 DEF PathOf, SoundStack
<1>5. ItemsBacked(t)
  <2> SUFFICES ASSUME NEW i \in 1..n + 1, NEW p \in ProdIdx, NEW d \in Nat,
                      <<t[i].state, p, d>> \in Items
               PROVE  Backed(t, i, p, d)
    BY <1>2 DEF ItemsBacked
  <2>1. CASE i # n + 1
    <3>1. i \in 1..n /\ t[i] = s[i]
      BY <1>1, <1>2, <2>1
    <3>2. Backed(s, i, p, d)
      BY <3>1 DEF SoundStack, ItemsBacked
    <3>3. \A k \in 0..d : i - k \in 1..n /\ t[i - k] = s[i - k]
      BY <1>1, <1>2, <3>1, <3>2 DEF Backed
    <3> QED
      BY <3>2, <3>3 DEF Backed
  <2>2. CASE i = n + 1 /\ d = 0
    BY <1>1, <2>2 DEF Backed
  <2>3. CASE i = n + 1 /\ d > 0
    <3>1. s[n] \in StackItems /\ s[n].state \in States /\ it.state \in States
      <4>1. s[n] \in StackItems
        BY <1>1, ElementOfSeq
      <4> QED
        BY <4>1 DEF StackItems
    <3>2. <<it.state, p, d>> \in Items
      BY <1>2, <2>3
    <3>3. /\ SymbolOf(it) = Productions[p].handles[d]
          /\ <<s[n].state, p, d - 1>> \in Items
      <4>1. <<it.state, p, d>>[3] > 0 /\ <<it.state, p, d>>[1] = it.state
            /\ <<it.state, p, d>>[2] = p
        BY <2>3
      <4> QED
        BY <3>1, <3>2, <4>1, ItemsConsistent DEF EdgesCarryItems
    <3>4. Backed(s, n, p, d - 1)
      BY <1>1, <2>3, <3>3 DEF SoundStack, ItemsBacked
    <3>5. d < i
      BY <2>3, <3>4 DEF Backed
    <3>6. \A k \in 0..d : /\ <<t[i - k].state, p, d - k>> \in Items
                          /\ k < d => SymbolOf(t[i - k]) = Productions[p].handles[d - k]
      <4> TAKE k \in 0..d
      <4>1. CASE k = 0
        <5>1. i - k = n + 1 /\ d - k = d /\ t[i - k] = it
          BY <1>1, <1>2, <2>3, <4>1
        <5> QED
          BY <3>2, <3>3, <5>1
      <4>2. CASE k # 0
        <5>1. k - 1 \in 0..d - 1 /\ i - k = n - (k - 1) /\ d - k = (d - 1) - (k - 1)
          BY <1>1, <2>3, <4>2
        <5>2. /\ <<s[n - (k - 1)].state, p, (d - 1) - (k - 1)>> \in Items
              /\ k - 1 < d - 1 =>
                   SymbolOf(s[n - (k - 1)]) = Productions[p].handles[(d - 1) - (k - 1)]
          BY <3>4, <5>1 DEF Backed
        <5>3. i - k \in 1..n
          BY <1>1, <2>3, <3>5, <4>2
        <5>4. t[i - k] = s[n - (k - 1)]
          BY <1>2, <5>1, <5>3
        <5>5. k < d => k - 1 < d - 1
          OBVIOUS
        <5> DEFINE a == t[i - k]
                   e == d - k
        <5>6. a = s[n - (k - 1)] /\ e = (d - 1) - (k - 1)
          BY <5>1, <5>4
        <5> HIDE DEF a, e
        <5>7. <<a.state, p, e>> \in Items /\ (k < d => SymbolOf(a) = Productions[p].handles[e])
          BY <5>2, <5>5, <5>6
        <5> QED
          BY <5>7 DEF a, e
      <4> QED
        BY <4>1, <4>2
    <3> QED
      BY <3>5, <3>6 DEF Backed
  <2> QED
    BY <2>1, <2>2, <2>3
<1> QED
  BY <1>2, <1>3, <1>4, <1>5 DEF SoundStack, t
-----------------------------------------------------------------------------
(* Reducing.                                                               *)

\* What a reduction finds on a sound stack: at least its handles above the first
\* item, their symbols in order, and a goto on the head below them.
Fits(p) ==
  /\ p \in ProdIdx
  /\ Len(Productions[p].handles) \in Nat
  /\ Len(Rest(p)) = Len(stack) - Len(Productions[p].handles)
  /\ Len(Rest(p)) \in 1..Len(stack)
  /\ SoundStack(Rest(p))
  /\ \A i \in 1..Len(Rest(p)) : Rest(p)[i] = stack[i]
  /\ HasGoto(Exposed(p), Productions[p].head)
  /\ Handles(p) \in Seq(StackItems)
  /\ Len(Handles(p)) = Len(Productions[p].handles)
  /\ \A i \in 1..Len(Handles(p)) :
       /\ Handles(p)[i] = stack[Len(Rest(p)) + i]
       /\ SymbolOf(Handles(p)[i]) = Productions[p].handles[i]

LEMMA ReduceFits ==
  ASSUME IInv, NEW x \in Lexemes, HasAction(state, x), Action(state, x).type = "Reduce",
         NEW p, p = Action(state, x).target
  PROVE  Fits(p)
<1> DEFINE n == Len(stack)
           m == Len(Productions[p].handles)
<1>1. SoundStack(stack) /\ stack \in Seq(StackItems) /\ n \in Nat /\ n >= 1
      /\ state = stack[n].state /\ state \in States
  BY EmptySeq DEF IInv, SoundStack, Top, TypeOK
<1>2. x \in Symbols
  BY DEF Lexemes
<1>3. p \in ProdIdx /\ Productions[p].handles \in Seq(Symbols) /\ m \in Nat
  <2>1. p \in ProdIdx
    BY <1>1, <1>2, TablesTyped
  <2> QED
    BY <2>1, TablesTyped
<1>4. <<stack[n].state, p, m>> \in Items
  BY <1>1, ItemsConsistent DEF ReductionsComplete
<1>5. Backed(stack, n, p, m)
  BY <1>1, <1>3, <1>4 DEF SoundStack, ItemsBacked
<1>6. n - m \in 1..n
  <2>1. m < n
    BY <1>5 DEF Backed
  <2> HIDE DEF n, m
  <2> QED
    BY <1>1, <1>3, <2>1
<1>7. /\ SoundStack(Rest(p))
      /\ Len(Rest(p)) = n - m
      /\ \A i \in 1..n - m : Rest(p)[i] = stack[i]
  BY <1>1, <1>6, PrefixSound DEF Rest
<1>8. HasGoto(Exposed(p), Productions[p].head)
  <2>1. Exposed(p) = stack[n - m].state
    <3>1. n - m \in 1..n - m
      BY <1>1, <1>3, <1>6
    <3>2. Rest(p)[n - m] = stack[n - m]
      BY <1>7, <3>1
    <3> QED
      BY <1>7, <3>2 DEF Exposed
  <2>2. m \in 0..m /\ m - m = 0
    BY <1>3
  <2>3. <<stack[n - m].state, p, 0>> \in Items
    BY <1>5, <2>2 DEF Backed
  <2>4. <<Exposed(p), p, 0>>[1] = Exposed(p) /\ <<Exposed(p), p, 0>>[2] = p
        /\ <<Exposed(p), p, 0>>[3] = 0
    OBVIOUS
  <2> QED
    BY <2>1, <2>3, <2>4, ItemsConsistent DEF GotosDefined
<1>9. /\ Handles(p) \in Seq(StackItems)
      /\ Len(Handles(p)) = m
      /\ \A i \in 1..m : Handles(p)[i] = stack[(n - m) + i]
  <2> DEFINE k == n - m + 1
  <2>1. k \in Int /\ n \in Int /\ k \in 1..n + 1 /\ m = n - k + 1
        /\ \A i \in 1..m : k + i - 1 = (n - m) + i
    <3>1. n \in Nat /\ m \in Nat
      BY <1>1, <1>3
    <3> HIDE DEF n, m
    <3>2. k \in Int /\ m = n - k + 1 /\ \A i \in 1..m : k + i - 1 = (n - m) + i
      BY <3>1
    <3> QED
      BY <1>6, <3>1, <3>2
  <2>2. Handles(p) = SubSeq(stack, k, n)
    BY DEF Handles
  <2> HIDE DEF k
  <2>3. \A i \in k..n : stack[i] \in StackItems
    BY <1>1, <2>1, ElementOfSeq
  <2>4. /\ SubSeq(stack, k, n) \in Seq(StackItems)
        /\ Len(SubSeq(stack, k, n)) = IF k <= n THEN n - k + 1 ELSE 0
        /\ \A i \in 1..n - k + 1 : SubSeq(stack, k, n)[i] = stack[k + i - 1]
    BY <2>1, <2>3, SubSeqProperties
  <2>5. Len(SubSeq(stack, k, n)) = m
    BY <1>1, <2>1, <2>4
  <2> QED
    BY <2>1, <2>2, <2>4, <2>5
<1>10. \A i \in 1..m : SymbolOf(stack[(n - m) + i]) = Productions[p].handles[i]
  <2> TAKE i \in 1..m
  <2>1. m - i \in 0..m /\ m - i < m /\ m - (m - i) = i /\ n - (m - i) = (n - m) + i
    BY <1>1, <1>3
  <2>2. SymbolOf(stack[n - (m - i)]) = Productions[p].handles[m - (m - i)]
    BY <1>5, <2>1 DEF Backed
  <2> QED
    BY <2>1, <2>2
<1> QED
  BY <1>3, <1>6, <1>7, <1>8, <1>9, <1>10 DEF Fits
-----------------------------------------------------------------------------
(* The invariant, action by action.                                        *)

\* What holds of every table holds of these.
LEMMA EngineToo == IInv => EngineInv
BY DEF IInv, EngineInv, SoundStack

\* ... and is kept by each step; the rest is added to it.
LEMMA EngineKept ==
  ASSUME IInv, Next,
         (SoundStack(stack) /\ state = Top.state /\ HandlesMatch /\ NoInternalError)'
  PROVE  IInv'
<1>1. EngineInv'
  BY EngineToo, NextEngine
<1> QED
  BY <1>1 DEF IInv, EngineInv

\* What no change of the other variables disturbs.
LEMMA StackKept ==
  ASSUME IInv, UNCHANGED <<state, stack, reduction>>
  PROVE  (SoundStack(stack) /\ state = Top.state /\ HandlesMatch)'
<1>1. SoundStack(stack)'
  <2>1. stack' = stack /\ SoundStack(stack)
    BY DEF IInv
  <2>2. SoundStack(stack')
    BY <2>1
  <2> QED
    BY <2>2 DEF SoundStack, PathOf, ItemsBacked, Backed, SymbolOf
<1>2. (state = Top.state)'
  BY DEF IInv, Top
<1>3. HandlesMatch'
  BY DEF IInv, HandlesMatch, SymbolOf
<1> QED
  BY <1>1, <1>2, <1>3


\* An error that leaves stack_ and reduction_ alone.
LEMMA ErrorIInv ==
  ASSUME IInv, Begin, LexicalError \/ SyntaxError
  PROVE  IInv'
<1>1. UNCHANGED <<state, stack, reduction>> /\ error_info'.type # "InternalError"
  BY DEF LexicalError, SyntaxError, Fail
<1>2. Next
  BY DEF Next, ParseStep, Act
<1> QED
  BY <1>1, <1>2, StackKept, EngineKept DEF NoInternalError

LEMMA ShiftIInv ==
  ASSUME IInv, Begin, Shift
  PROVE  IInv'
<1> DEFINE t  == Action(state, Lookahead).target
           it == [state |-> t, production |-> NoProd, token |-> token']
<1>1. HasAction(state, Lookahead) /\ Action(state, Lookahead).type = "Shift"
      /\ state' = t /\ stack' = Append(stack, it)
      /\ UNCHANGED <<reduction, error_info>>
  BY DEF Shift, Decides, Push
<1>2. token' \in Tokens /\ Lookahead \in Lexemes /\ Lookahead \in Symbols
  BY BeginFacts DEF IInv
<1>3. state \in States /\ stack \in Seq(StackItems) /\ SoundStack(stack)
      /\ state = stack[Len(stack)].state
  BY DEF IInv, TypeOK, Top
<1>4. t \in States
  BY <1>1, <1>2, <1>3, TablesTyped
<1>5. it \in StackItems /\ SymbolOf(it) = Lookahead /\ it.state = t
  BY <1>2, <1>4, SymbolOfToken DEF StackItems, Lookahead
<1>6. Edge(stack[Len(stack)].state, SymbolOf(it), it.state)
  BY <1>1, <1>3, <1>5 DEF Edge
<1> HIDE DEF it, t
<1>7. SoundStack(stack')
  BY <1>1, <1>2, <1>3, <1>5, <1>6, PushSound
<1>8. stack'[Len(stack')] = it
  BY <1>1, <1>3, <1>5, AppendProperties
<1>9. (state = Top.state /\ HandlesMatch /\ NoInternalError)'
  BY <1>1, <1>5, <1>8 DEF IInv, Top, HandlesMatch, NoInternalError, SymbolOf
<1>10. Next
  BY DEF Next, ParseStep, Act
<1> QED
  BY <1>7, <1>9, <1>10, EngineKept DEF SoundStack, PathOf, ItemsBacked, Backed, SymbolOf

LEMMA ReduceIInv ==
  ASSUME IInv, Begin, Reduce
  PROVE  IInv'
<1> DEFINE p    == Action(state, Lookahead).target
           head == Productions[p].head
           t    == Action(Exposed(p), head).target
           it   == [state |-> t, production |-> p, token |-> NoToken]
<1>1. HasAction(state, Lookahead) /\ Action(state, Lookahead).type = "Reduce"
      /\ HasGoto(Exposed(p), head)
      /\ state' = t /\ stack' = Append(Rest(p), it)
      /\ reduction' = [production |-> p, handles |-> Handles(p), head |-> Len(stack')]
      /\ UNCHANGED error_info
  BY DEF Reduce, Decides, Push
<1>2. Lookahead \in Lexemes /\ Lookahead \in Symbols
  BY BeginFacts DEF IInv
<1>3. /\ p \in ProdIdx
      /\ SoundStack(Rest(p)) /\ Rest(p) \in Seq(StackItems) /\ Rest(p) # <<>>
      /\ Handles(p) \in Seq(StackItems)
      /\ Len(Handles(p)) = Len(Productions[p].handles)
      /\ \A i \in 1..Len(Handles(p)) : SymbolOf(Handles(p)[i]) = Productions[p].handles[i]
  <2>1. Fits(p)
    BY <1>1, <1>2, ReduceFits
  <2> HIDE DEF p
  <2> QED
    BY <2>1 DEF Fits, SoundStack
<1>4. head \in Symbols
  BY <1>3, TablesTyped DEF OfType
<1>5. Exposed(p) \in States
  <2>1. Len(Rest(p)) \in 1..Len(Rest(p))
    BY <1>3, EmptySeq
  <2>2. Rest(p)[Len(Rest(p))] \in StackItems
    BY <1>3, <2>1, ElementOfSeq
  <2> QED
    BY <2>2 DEF Exposed, StackItems
<1>6. t \in States
  BY <1>1, <1>4, <1>5, TablesTyped DEF HasGoto
<1>7. it \in StackItems /\ it.state = t /\ SymbolOf(it) = head
  <2>1. NoToken \in Tokens
    BY DEF NoToken, Tokens
  <2> QED
    BY <1>3, <1>6, <2>1, SymbolOfItem DEF StackItems
<1>8. Edge(Rest(p)[Len(Rest(p))].state, SymbolOf(it), it.state)
  BY <1>1, <1>7 DEF Edge, HasGoto, Exposed
<1> HIDE DEF it, t, head, p
<1>9. SoundStack(stack')
  BY <1>1, <1>3, <1>4, <1>7, <1>8, PushSound
<1>10. stack'[Len(stack')] = it
  BY <1>1, <1>3, <1>7, AppendProperties
<1>11. (state = Top.state /\ HandlesMatch /\ NoInternalError)'
  BY <1>1, <1>3, <1>7, <1>10 DEF IInv, Top, HandlesMatch, NoInternalError, SymbolOf
<1>12. Next
  BY DEF Next, ParseStep, Act
<1> QED
  BY <1>9, <1>11, <1>12, EngineKept DEF SoundStack, PathOf, ItemsBacked, Backed, SymbolOf

LEMMA AcceptIInv ==
  ASSUME IInv, Begin, Accept
  PROVE  IInv'
<1>1. UNCHANGED <<state, stack, reduction, error_info>> /\ Next
  BY DEF Accept, engine, Next, ParseStep, Act
<1> QED
  BY <1>1, StackKept, EngineKept DEF IInv, NoInternalError

\* The two internal errors do not happen, nor does a reduction take more than there
\* is: the handles and the goto are there, and a lexeme's action is no goto.
LEMMA NoGotoError == ASSUME IInv, Begin PROVE ~GotoError /\ ~ActionError /\ ~Underflow
<1>1. Lookahead \in Lexemes /\ state \in States /\ stack \in Seq(StackItems)
  BY BeginFacts DEF IInv, TypeOK
<1>2. ASSUME Decides("Reduce"), NEW p, p = Action(state, Lookahead).target
      PROVE  HasGoto(Exposed(p), Productions[p].head) /\ Holds(p)
  <2>1. Fits(p)
    BY <1>1, <1>2, ReduceFits DEF Decides
  <2> QED
    BY <1>1, <2>1, LenProperties DEF Fits, Holds
<1>3. ~ActionError
  BY <1>1, GotosOfNonterminals DEF ActionError, Decides
<1> QED
  BY <1>2, <1>3 DEF GotoError, Underflow

\* When a text is accepted one item is on the stack beside the first: the start
\* symbol's.
LEMMA AcceptsWhole ==
  ASSUME IInv, Begin, Accept
  PROVE  Len(stack) = 2 /\ SymbolOf(stack[2]) = StartSymbol
<1> DEFINE n == Len(stack)
<1>1. HasAction(state, Lookahead) /\ Action(state, Lookahead).type = "Accept"
  BY DEF Accept, Decides
<1>2. Lookahead \in Lexemes
  BY BeginFacts DEF IInv
<1>3. stack \in Seq(StackItems) /\ stack # <<>> /\ n \in Nat /\ n >= 1 /\ PathOf(stack)
      /\ state = stack[n].state /\ state \in States
  BY EmptySeq, LenProperties DEF IInv, TypeOK, SoundStack, Top
<1>4. /\ state # LalrInit
      /\ \A s \in States, x \in Symbols : Edge(s, x, state) => s = LalrInit /\ x = StartSymbol
  BY <1>1, <1>2, <1>3, ItemsConsistent DEF AcceptsStart
<1>5. n >= 2
  <2>1. stack[1].state = LalrInit
    BY <1>3 DEF PathOf
  <2> QED
    BY <1>3, <1>4, <2>1
<1>6. ASSUME NEW i \in 2..n
      PROVE  /\ Edge(stack[i - 1].state, SymbolOf(stack[i]), stack[i].state)
             /\ stack[i - 1].state \in States
             /\ SymbolOf(stack[i]) \in Symbols
  <2>1. Edge(stack[i - 1].state, SymbolOf(stack[i]), stack[i].state)
    BY <1>6, <1>3 DEF PathOf
  <2>2. stack[i - 1].state \in States
    <3>1. i - 1 \in 1..n
      BY <1>3
    <3>2. stack[i - 1] \in StackItems
      BY <1>3, <3>1, ElementOfSeq
    <3> QED
      BY <3>2 DEF StackItems
  <2>3. SymbolOf(stack[i]) \in Symbols
    BY <2>1, <2>2, TablesTyped DEF Edge, HasAction
  <2> QED
    BY <2>1, <2>2, <2>3
<1>7. stack[n - 1].state = LalrInit /\ SymbolOf(stack[n]) = StartSymbol
  <2>1. n \in 2..n
    BY <1>3, <1>5
  <2> QED
    BY <1>3, <1>4, <1>6, <2>1
<1>8. n = 2
  <2>1. ASSUME n # 2 PROVE FALSE
    <3>1. n - 1 \in 2..n
      <4> HIDE DEF n
      <4> QED
        BY <1>3, <1>5, <2>1
    <3>2. LalrInit \in States
      BY TablesTyped
    <3> QED
      BY <1>6, <1>7, <3>1, <3>2, ItemsConsistent DEF AcceptsStart
  <2> QED
    BY <2>1
<1> QED
  BY <1>7, <1>8

LEMMA InitIInv == Init => IInv
<1> SUFFICES ASSUME Init PROVE IInv
  OBVIOUS
<1>1. SoundStack(InitialStack) /\ Len(InitialStack) = 1
  BY InitialSound DEF InitialStack
<1>2. EngineInv
  BY InitEngine
<1>3. state = Top.state
  BY <1>1 DEF Init, Top, InitialStack
<1>4. HandlesMatch /\ NoInternalError
  BY DEF Init, HandlesMatch, NoReduction, NoInternalError, NoError
<1> QED
  BY <1>1, <1>2, <1>3, <1>4 DEF IInv, EngineInv, Init

LEMMA ResetIInv ==
  ASSUME IInv, Load \/ ResetCursor
  PROVE  IInv'
<1>1. state' = LalrInit /\ stack' = InitialStack /\ UNCHANGED <<reduction, error_info>>
  BY DEF Load, ResetCursor, ResetState
<1>2. SoundStack(InitialStack) /\ Len(InitialStack) = 1
  BY InitialSound DEF InitialStack
<1>3. SoundStack(stack')
  BY <1>1, <1>2
<1>4. (state = Top.state /\ HandlesMatch /\ NoInternalError)'
  BY <1>1, <1>2 DEF IInv, Top, InitialStack, HandlesMatch, NoInternalError, SymbolOf
<1>5. Next
  BY DEF Next
<1> QED
  BY <1>3, <1>4, <1>5, EngineKept DEF SoundStack, PathOf, ItemsBacked, Backed, SymbolOf

LEMMA IdleIInv ==
  ASSUME IInv, (\E c \in Calls : Call(c)) \/ UNCHANGED vars
  PROVE  IInv'
<1>1. UNCHANGED <<state, stack, reduction, error_info>>
  BY DEF Call, vars, engine
<1>2. EngineInv'
  BY EngineToo, NextEngine DEF Next
<1>3. (SoundStack(stack) /\ state = Top.state /\ HandlesMatch /\ NoInternalError)'
  BY <1>1, StackKept DEF IInv, NoInternalError
<1> QED
  BY <1>2, <1>3 DEF IInv, EngineInv

LEMMA NextIInv == IInv /\ [Next]_vars => IInv'
<1> SUFFICES ASSUME IInv, [Next]_vars PROVE IInv'
  OBVIOUS
<1>1. CASE ParseStep
  <2>1. Begin /\ Act
    BY <1>1 DEF ParseStep
  <2> QED
    BY <2>1, NoGotoError, ErrorIInv, ShiftIInv, ReduceIInv, AcceptIInv DEF Act
<1>2. CASE Load \/ ResetCursor
  BY <1>2, ResetIInv
<1>3. CASE (\E c \in Calls : Call(c)) \/ UNCHANGED vars
  BY <1>3, IdleIInv
<1> QED
  BY <1>1, <1>2, <1>3 DEF Next

\* The invariant holds in every reachable state of the engine.
THEOREM Invariance == Spec => []IInv
BY InitIInv, NextIInv, PTL DEF Spec

\* The handles of a reduction are the right-hand side of its production, although
\* ParseStep pops them by their number alone.
THEOREM HandlesAlwaysMatch == Spec => []HandlesMatch
<1>1. IInv => HandlesMatch
  BY DEF IInv
<1> QED
  BY <1>1, Invariance, PTL

\* The kInternalError branches of ParseStep are dead with a well-made table.
THEOREM NeverInternal == Spec => []NoInternalError
<1>1. IInv => NoInternalError
  BY DEF IInv
<1> QED
  BY <1>1, Invariance, PTL
-----------------------------------------------------------------------------
(* The engine implements the abstract bottom-up parser, for every table    *)
(* with consistent items, and with it whatever it accepts is derived from  *)
(* the start symbol.                                                       *)

\* the form on a sequence of stack items
FormOf(s) == [i \in 1..Len(s) - 1 |-> SymbolOf(s[i + 1])]

LEMMA FormAppend ==
  ASSUME NEW s \in Seq(StackItems), s # <<>>, NEW it \in StackItems
  PROVE  FormOf(Append(s, it)) = Append(FormOf(s), SymbolOf(it))
<1> DEFINE n == Len(s)
<1>1. n \in Nat /\ n >= 1
  BY EmptySeq, LenProperties
<1>2. /\ Len(Append(s, it)) = n + 1
      /\ Append(s, it)[n + 1] = it
      /\ \A i \in 1..n : Append(s, it)[i] = s[i]
  BY AppendProperties
<1> HIDE DEF n
<1>3. FormOf(Append(s, it)) = [i \in 1..n |-> SymbolOf(Append(s, it)[i + 1])]
  BY <1>1, <1>2 DEF FormOf
<1>4. FormOf(s) = [i \in 1..n - 1 |-> SymbolOf(s[i + 1])]
  BY DEF FormOf, n
<1>5. Append(FormOf(s), SymbolOf(it))
        = [i \in 1..n |-> IF i = n THEN SymbolOf(it) ELSE FormOf(s)[i]]
  <2>1. FormOf(s) \in Seq({SymbolOf(s[i]) : i \in 1..n})
    <3>1. FormOf(s) \in [1..n - 1 -> {SymbolOf(s[i]) : i \in 1..n}]
      BY <1>1, <1>4
    <3> QED
      BY <1>1, <3>1, SeqDef
  <2>2. Len(FormOf(s)) = n - 1
    BY <1>1, <1>4, <2>1, LenProperties
  <2> QED
    BY <1>1, <2>1, <2>2 DEF FormOf
<1>6. \A i \in 1..n : SymbolOf(Append(s, it)[i + 1])
                        = IF i = n THEN SymbolOf(it) ELSE FormOf(s)[i]
  <2> TAKE i \in 1..n
  <2>1. CASE i = n
    BY <1>2, <2>1
  <2>2. CASE i # n
    <3>1. i \in 1..n - 1 /\ i + 1 \in 1..n
      BY <1>1, <2>2
    <3> QED
      BY <1>2, <1>4, <2>2, <3>1
  <2> QED
    BY <2>1, <2>2
<1> QED
  BY <1>3, <1>5, <1>6

LEMMA FormIsFormOf == Form = FormOf(stack) /\ Form' = FormOf(stack')
<1>1. Form = FormOf(stack)
  BY DEF Form, FormOf
<1>2. Form' = FormOf(stack')
  BY DEF Form, FormOf, SymbolOf
<1> QED
  BY <1>1, <1>2

\* The form has as many symbols as the stack has items above the first.
LEMMA FormLength ==
  ASSUME NEW s \in Seq(StackItems), s # <<>>
  PROVE  /\ Len(FormOf(s)) = Len(s) - 1
         /\ \A i \in 1..Len(s) - 1 : FormOf(s)[i] = SymbolOf(s[i + 1])
         /\ FormOf(s) \in Seq({SymbolOf(s[i]) : i \in 1..Len(s)})
<1> DEFINE n == Len(s)
           S == {SymbolOf(s[i]) : i \in 1..n}
<1>1. n \in Nat /\ n >= 1
  BY EmptySeq, LenProperties
<1>2. FormOf(s) = [i \in 1..n - 1 |-> SymbolOf(s[i + 1])]
  BY DEF FormOf
<1>3. FormOf(s) \in [1..n - 1 -> S]
  BY <1>1, <1>2
<1>4. FormOf(s) \in Seq(S)
  BY <1>1, <1>3, SeqDef
<1>5. Len(FormOf(s)) = n - 1
  BY <1>1, <1>2, <1>4, LenProperties
<1> QED
  BY <1>2, <1>4, <1>5

\* Results that leave the verdict open.
LEMMA VerdictIs ==
  ASSUME NEW r
  PROVE  /\ ret = r /\ r \notin {"Accept", "Error"} => Verdict = "open"
         /\ ret' = r /\ r \notin {"Accept", "Error"} => Verdict' = "open"
         /\ ret' = "Accept" => Verdict' = "accept"
         /\ ret' = "Error" => Verdict' = "reject"
BY DEF Verdict
-----------------------------------------------------------------------------
(* Each action implements a step of the abstract parser.                   *)

LEMMA ShiftReads ==
  ASSUME IInv, Begin, Shift, Verdict = "open"
  PROVE  Abstract!Read(Lookahead) /\ Lookahead \in Lexemes \ Eofs
<1> DEFINE t  == Action(state, Lookahead).target
           it == [state |-> t, production |-> NoProd, token |-> token']
<1>1. HasAction(state, Lookahead) /\ Action(state, Lookahead).type = "Shift"
      /\ stack' = Append(stack, it) /\ shifted' = Append(shifted, Lookahead)
      /\ ret' = "Shift"
  BY DEF Shift, Decides, Push, Return
<1>2. Lookahead \in Lexemes /\ Lookahead \in Symbols /\ token' \in Tokens
  BY BeginFacts DEF IInv
<1>3. state \in States /\ stack \in Seq(StackItems) /\ stack # <<>>
  BY DEF IInv, TypeOK
<1>4. Lookahead \in Lexemes \ Eofs /\ t \in States
  BY <1>1, <1>2, <1>3, TablesTyped
<1>5. it \in StackItems /\ SymbolOf(it) = Lookahead
  BY <1>2, <1>4, SymbolOfToken DEF StackItems, Lookahead
<1> HIDE DEF it
<1>6. Form' = Append(Form, Lookahead)
  BY <1>1, <1>3, <1>5, FormAppend, FormIsFormOf
<1>7. Verdict' = "open"
  BY <1>1, VerdictIs
<1> QED
  BY <1>1, <1>4, <1>6, <1>7 DEF Abstract!Read

\* A sequence is its first n elements and what it has behind them.
LEMMA SplitSeq ==
  ASSUME NEW S, NEW f \in Seq(S), NEW g \in Seq(S), NEW n \in Nat, n + Len(g) = Len(f),
         \A i \in 1..Len(g) : g[i] = f[n + i]
  PROVE  f = SubSeq(f, 1, n) \o g
<1> DEFINE front == SubSeq(f, 1, n)
<1>1. Len(f) \in Nat /\ Len(g) \in Nat
  BY LenProperties
<1>2. \A i \in 1..n : f[i] \in S
  BY <1>1, ElementOfSeq
<1>3. front \in Seq(S) /\ Len(front) = n /\ \A i \in 1..n : front[i] = f[i]
  <2>1. 1 \in Int /\ n \in Int
    OBVIOUS
  <2>2. /\ front \in Seq(S)
        /\ Len(front) = IF 1 <= n THEN n - 1 + 1 ELSE 0
        /\ \A i \in 1..n - 1 + 1 : front[i] = f[1 + i - 1]
    BY <1>2, <2>1, SubSeqProperties
  <2> HIDE DEF front
  <2> QED
    BY <2>2
<1> HIDE DEF front
<1>4. /\ front \o g \in Seq(S) /\ Len(front \o g) = n + Len(g)
      /\ \A i \in 1..n + Len(g) :
           (front \o g)[i] = IF i <= n THEN front[i] ELSE g[i - n]
  <2>1. /\ front \o g \in Seq(S) /\ Len(front \o g) = Len(front) + Len(g)
        /\ \A i \in 1..Len(front) + Len(g) :
             (front \o g)[i] = IF i <= Len(front) THEN front[i] ELSE g[i - Len(front)]
    <3>1. front \in Seq(S)
      BY <1>3
    <3> QED
      BY ONLY <3>1, g \in Seq(S), ConcatProperties
  <2> QED
    BY <1>3, <2>1, Zenon
<1>5. \A i \in 1..Len(f) : f[i] = (front \o g)[i]
  <2> TAKE i \in 1..Len(f)
  <2>1. CASE i <= n
    BY <1>1, <1>3, <1>4, <2>1
  <2>2. CASE ~(i <= n)
    <3>1. i - n \in 1..Len(g) /\ n + (i - n) = i
      BY <1>1, <2>2
    <3> QED
      BY <1>4, <2>2, <3>1
  <2> QED
    BY <2>1, <2>2
<1>6. f = front \o g
  BY <1>4, <1>5, SeqEqual
<1> QED
  BY <1>6 DEF front

\* The form below a reduction is a front of the form.
LEMMA FormOfPrefix ==
  ASSUME NEW s \in Seq(StackItems), NEW t \in Seq(StackItems), t # <<>>,
         Len(t) <= Len(s), \A i \in 1..Len(t) : t[i] = s[i]
  PROVE  FormOf(t) = SubSeq(FormOf(s), 1, Len(t) - 1)
<1> DEFINE n == Len(s)
           r == Len(t)
           S == {SymbolOf(s[i]) : i \in 1..n}
<1>1. n \in Nat /\ r \in Nat /\ r >= 1 /\ r <= n
  BY EmptySeq, LenProperties
<1>2. s # <<>>
  BY <1>1, EmptySeq
<1>3. Len(FormOf(s)) = n - 1 /\ \A i \in 1..n - 1 : FormOf(s)[i] = SymbolOf(s[i + 1])
  BY <1>2, FormLength
<1>4. FormOf(t) = [i \in 1..r - 1 |-> SymbolOf(t[i + 1])]
  BY DEF FormOf
<1>5. SubSeq(FormOf(s), 1, r - 1) = [i \in 1..r - 1 |-> FormOf(s)[i]]
  <2> HIDE DEF r
  <2> QED
    BY <1>1
<1>6. \A i \in 1..r - 1 : SymbolOf(t[i + 1]) = FormOf(s)[i]
  <2> TAKE i \in 1..r - 1
  <2>1. i + 1 \in 1..r /\ i \in 1..n - 1
    <3> HIDE DEF r, n
    <3> QED
      BY <1>1
  <2> QED
    BY <1>3, <2>1
<1> QED
  BY <1>4, <1>5, <1>6

LEMMA ReduceReplaces ==
  ASSUME IInv, Begin, Reduce, Verdict = "open"
  PROVE  \E p \in ProdIdx : \E front \in Abstract!Fronts : Abstract!Replace(p, front)
<1> DEFINE p     == Action(state, Lookahead).target
           head  == Productions[p].head
           t     == Action(Exposed(p), head).target
           it    == [state |-> t, production |-> p, token |-> NoToken]
           n     == Len(stack)
           r     == Len(Rest(p))
           m     == Len(Productions[p].handles)
           front == SubSeq(Form, 1, r - 1)
           S     == Symbols \cup {SymbolOf(stack[i]) : i \in 1..n}
<1>1. HasAction(state, Lookahead) /\ Action(state, Lookahead).type = "Reduce"
      /\ HasGoto(Exposed(p), head)
      /\ stack' = Append(Rest(p), it) /\ shifted' = shifted
      /\ ret' = "Reduce"
  BY DEF Reduce, Decides, Push, Return
<1>2. Lookahead \in Lexemes
  BY BeginFacts DEF IInv
<1>3. stack \in Seq(StackItems) /\ stack # <<>> /\ n \in Nat
  BY LenProperties DEF IInv, TypeOK
<1>4. /\ p \in ProdIdx /\ m \in Nat
      /\ r = n - m /\ r \in 1..n
      /\ SoundStack(Rest(p))
      /\ \A i \in 1..r : Rest(p)[i] = stack[i]
      /\ Len(Handles(p)) = m
      /\ \A i \in 1..Len(Handles(p)) : /\ Handles(p)[i] = stack[r + i]
                                       /\ SymbolOf(Handles(p)[i]) = Productions[p].handles[i]
  <2>1. Fits(p)
    BY <1>1, <1>2, ReduceFits
  <2> HIDE DEF p
  <2> QED
    BY <2>1 DEF Fits
<1>5. r \in Nat /\ r >= 1 /\ r <= n /\ (r - 1) + m = n - 1
  <2> HIDE DEF r, n, m
  <2> QED
    BY <1>3, <1>4
<1>6. Rest(p) \in Seq(StackItems) /\ Rest(p) # <<>>
  BY <1>4 DEF SoundStack
<1>7. it \in StackItems /\ SymbolOf(it) = head
  <2>1. Exposed(p) \in States
    <3>1. r \in 1..r
      BY <1>5
    <3>2. Rest(p)[r] \in StackItems
      BY <1>6, <3>1, ElementOfSeq
    <3> QED
      BY <3>2 DEF Exposed, StackItems
  <2>2. head \in Symbols
    BY <1>4, TablesTyped DEF OfType
  <2>3. t \in States
    BY <1>1, <2>1, <2>2, TablesTyped DEF HasGoto
  <2>4. NoToken \in Tokens
    BY DEF NoToken, Tokens
  <2> QED
    BY <1>4, <2>3, <2>4, SymbolOfItem DEF StackItems
<1>8. FormOf(Rest(p)) = front
  BY <1>3, <1>4, <1>5, <1>6, FormOfPrefix, FormIsFormOf
<1>9. Form' = Append(front, head)
  <2> HIDE DEF it, front
  <2> QED
    BY <1>1, <1>6, <1>7, <1>8, FormAppend, FormIsFormOf
<1>10. /\ Len(Form) = n - 1 /\ Form \in Seq({SymbolOf(stack[i]) : i \in 1..n})
       /\ \A i \in 1..n - 1 : Form[i] = SymbolOf(stack[i + 1])
  BY <1>3, FormLength, FormIsFormOf
<1>11. \A i \in 1..m : Productions[p].handles[i] = Form[(r - 1) + i]
  <2> TAKE i \in 1..m
  <2> HIDE DEF r, n, m
  <2>1. (r - 1) + i \in 1..n - 1 /\ ((r - 1) + i) + 1 = r + i
    BY <1>3, <1>4, <1>5
  <2>2. SymbolOf(stack[r + i]) = Productions[p].handles[i]
    BY <1>4
  <2> QED
    BY <1>10, <2>1, <2>2
<1>12. Form = front \o Productions[p].handles
  <2>1. Form \in Seq(S) /\ Productions[p].handles \in Seq(S)
    <3>1. Productions[p].handles \in Seq(Symbols)
      BY <1>4, TablesTyped
    <3> QED
      BY <1>10, <3>1, SeqMonotonic
  <2>2. r - 1 \in Nat /\ (r - 1) + m = Len(Form)
    <3> HIDE DEF r, n, m
    <3> QED
      BY <1>5, <1>10
  <2> QED
    BY <1>11, <2>1, <2>2, SplitSeq
<1>13. front \in Abstract!Fronts
  <2>1. r - 1 \in 0..Len(Form)
    <3> HIDE DEF r, n
    <3> QED
      BY <1>3, <1>5, <1>10
  <2> QED
    BY <2>1 DEF Abstract!Fronts
<1>14. Verdict' = "open"
  BY <1>1, VerdictIs
<1>15. Abstract!Replace(p, front)
  BY <1>1, <1>9, <1>12, <1>14 DEF Abstract!Replace
<1> QED
  BY <1>4, <1>13, <1>15

LEMMA AcceptAccepts ==
  ASSUME IInv, Begin, Accept, Verdict = "open"
  PROVE  Abstract!Accept
<1>1. UNCHANGED <<stack, shifted>> /\ ret' = "Accept"
  BY DEF Accept, Return, engine
<1>2. Len(stack) = 2 /\ SymbolOf(stack[2]) = StartSymbol
  BY AcceptsWhole
<1>3. Form = <<StartSymbol>>
  <2>1. Form = [i \in 1..1 |-> SymbolOf(stack[i + 1])]
    BY <1>2 DEF Form
  <2>2. \A i \in 1..1 : SymbolOf(stack[i + 1]) = StartSymbol
    BY <1>2
  <2> QED
    BY <2>1, <2>2
<1>4. Form' = Form /\ Verdict' = "accept"
  BY <1>1, FormIsFormOf, VerdictIs
<1> QED
  BY <1>1, <1>3, <1>4 DEF Abstract!Accept

LEMMA ErrorRejects ==
  ASSUME IInv, LexicalError \/ SyntaxError, Verdict = "open"
  PROVE  Abstract!Reject
<1>1. UNCHANGED <<stack, shifted>> /\ ret' = "Error"
  BY DEF LexicalError, SyntaxError, Fail, Return
<1>2. Form' = Form /\ Verdict' = "reject"
  BY <1>1, FormIsFormOf, VerdictIs
<1> QED
  BY <1>1, <1>2 DEF Abstract!Reject

LEMMA ResetRestarts ==
  ASSUME Load \/ ResetCursor
  PROVE  Abstract!Restart
<1>1. stack' = InitialStack /\ shifted' = <<>> /\ ret' = "none"
  BY DEF Load, ResetCursor, ResetState
<1>2. Form' = <<>>
  <2>1. Len(InitialStack) = 1
    BY InitialSound DEF InitialStack
  <2>2. FormOf(InitialStack) = [i \in 1..0 |-> SymbolOf(InitialStack[i + 1])]
    BY <2>1 DEF FormOf
  <2> QED
    BY <1>1, <2>2, FormIsFormOf
<1>3. Verdict' = "open"
  BY <1>1, VerdictIs
<1> QED
  BY <1>1, <1>2, <1>3 DEF Abstract!Restart

LEMMA StutterKeeps ==
  ASSUME UNCHANGED <<stack, shifted, ret>>
  PROVE  UNCHANGED Abstract!vars
<1>1. Form' = Form
  BY FormIsFormOf
<1>2. Verdict' = Verdict
  BY DEF Verdict
<1> QED
  BY <1>1, <1>2 DEF Abstract!vars

LEMMA StepImplements == IInv /\ [Next]_vars => [Abstract!Next]_(Abstract!vars)
<1> SUFFICES ASSUME IInv, [Next]_vars PROVE [Abstract!Next]_(Abstract!vars)
  OBVIOUS
<1>1. CASE Load \/ ResetCursor
  BY <1>1, ResetRestarts DEF Abstract!Next
<1>2. CASE (\E c \in Calls : Call(c)) \/ UNCHANGED vars
  <2>1. UNCHANGED <<stack, shifted, ret>>
    BY <1>2 DEF Call, engine, vars
  <2> QED
    BY <2>1, StutterKeeps
<1>3. CASE ParseStep
  <2>1. CASE ret \in {"Accept", "Error"}
    <3>1. UNCHANGED <<stack, shifted, ret>>
      BY <1>3, <2>1, EngineToo, FinalRepeats DEF IInv, NoInternalError, InternalError, engine
    <3> QED
      BY <3>1, StutterKeeps
  <2>2. CASE ret \notin {"Accept", "Error"}
    <3>1. Verdict = "open"
      BY <2>2 DEF Verdict
    <3>2. Begin /\ ~GotoError /\ ~ActionError /\ ~Underflow
      BY <1>3, NoGotoError DEF ParseStep
    <3>3. CASE LexicalError \/ SyntaxError
      BY <3>1, <3>3, ErrorRejects DEF Abstract!Next
    <3>4. CASE Shift
      BY <3>1, <3>2, <3>4, ShiftReads DEF Abstract!Next
    <3>5. CASE Reduce
      BY <3>1, <3>2, <3>5, ReduceReplaces DEF Abstract!Next, ProdIdx
    <3>6. CASE Accept
      BY <3>1, <3>2, <3>6, AcceptAccepts DEF Abstract!Next
    <3> QED
      BY <1>3, <3>2, <3>3, <3>4, <3>5, <3>6 DEF ParseStep, Act
  <2> QED
    BY <2>1, <2>2
<1> QED
  BY <1>1, <1>2, <1>3 DEF Next

LEMMA InitImplements == Init => Abstract!Init
<1> SUFFICES ASSUME Init PROVE Abstract!Init
  OBVIOUS
<1>1. stack = InitialStack /\ shifted = <<>> /\ ret = "none"
  BY DEF Init
<1>2. Form = <<>>
  <2>1. Len(InitialStack) = 1
    BY InitialSound DEF InitialStack
  <2>2. FormOf(InitialStack) = [i \in 1..0 |-> SymbolOf(InitialStack[i + 1])]
    BY <2>1 DEF FormOf
  <2> QED
    BY <1>1, <2>2, FormIsFormOf
<1> QED
  BY <1>1, <1>2 DEF Abstract!Init, Verdict

\* Every behaviour of ParseStep, its callers and the resets is one of the abstract
\* bottom-up parser: no table entry, lookahead or reset makes the engine do
\* anything but read, reduce, accept the start symbol or reject.
THEOREM EngineImplements == Spec => ImplementsDerivation
BY InitImplements, StepImplements, Invariance, PTL DEF Spec, ImplementsDerivation, Abstract!Spec

Proofs == INSTANCE DerivationProofs
  WITH form <- Form, consumed <- shifted, verdict <- Verdict,
       Terminals <- Lexemes \ Eofs

LEMMA GrammarIsTyped == Proofs!GrammarTyped
BY TablesTyped DEF Proofs!GrammarTyped, Lexemes, OfType, ProdIdx

\* When ParseStep returns kAccept, the tokens shifted since the last reset are
\* derived from the grammar's start symbol.
THEOREM AcceptedTextDerived ==
  Spec => [](ret = "Accept" => Proofs!Derives(<<StartSymbol>>, shifted))
<1>2. Proofs!Spec => []Proofs!AcceptSound
  BY GrammarIsTyped, Proofs!AcceptsDerived
<1>3. Abstract!Init => Proofs!Init
  BY DEF Abstract!Init, Proofs!Init
<1>4. [Abstract!Next]_(Abstract!vars) => [Proofs!Next]_(Proofs!vars)
  BY DEF Abstract!Next, Abstract!vars, Abstract!Read, Abstract!Replace, Abstract!Fronts,
         Abstract!Accept, Abstract!Reject, Abstract!Restart,
         Proofs!Next, Proofs!vars, Proofs!Read, Proofs!Replace, Proofs!Fronts,
         Proofs!Accept, Proofs!Reject, Proofs!Restart
<1>5. ImplementsDerivation => Proofs!Spec
  BY <1>3, <1>4, PTL DEF ImplementsDerivation, Abstract!Spec, Proofs!Spec
<1>6. Proofs!AcceptSound => (ret = "Accept" => Proofs!Derives(<<StartSymbol>>, shifted))
  BY DEF Proofs!AcceptSound, Verdict
<1> QED
  BY <1>2, <1>5, <1>6, EngineImplements, PTL
-----------------------------------------------------------------------------
(* No token is shifted in vain.                                            *)

\* The tokens of w begin a text that the start symbol derives.
Begins(w) == \E z \in Seq(Lexemes \ Eofs) : Proofs!Derives(<<StartSymbol>>, w \o z)

\* No token is shifted that no sentence could go on with: the property ShiftsViable of
\* MCParser, with derivations in the place of the words it enumerates.
ShiftsBegin == Begins(shifted)

\* The form a ends with the first d handles of production p, whose head can stand in
\* their place, with symbols behind it that have phrases.
Fitting(a, p, d) ==
  \E b \in Seq(Symbols), c \in Seq(Phrasal) :
    /\ a = b \o SubSeq(Productions[p].handles, 1, d)
    /\ Proofs!Derives(<<StartSymbol>>, b \o <<Productions[p].head>> \o c)

LEMMA PredictedSteps ==
  /\ Predicted[0] = OwnItems
  /\ \A n \in Nat : Predicted[n + 1] = WithPredictions(Predicted[n])
  /\ \A n \in Nat : Predicted[n] \subseteq Items
<1> DEFINE V == SUBSET Items
           step == [x \in (Nat \ {0}) \X V |-> WithPredictions(x[2])]
<1>1. OwnItems \in V /\ \A k \in V : WithPredictions(k) \in V
  BY DEF OwnItems, WithPredictions
<1>2. step \in [(Nat \ {0}) \X V -> V]
  <2>1. ASSUME NEW x \in (Nat \ {0}) \X V PROVE x[2] \in V
    OBVIOUS
  <2> HIDE DEF V
  <2> QED
    BY <1>1, <2>1
<1>3. \A n \in Nat \ {0}, k \in V : step[<<n, k>>] = WithPredictions(k)
  <2> HIDE DEF V
  <2> QED
    OBVIOUS
<1> HIDE DEF step, V
<1>4. PICK f : Recurs(f, V, OwnItems, step)
  BY <1>1, <1>2, RecursiveFunction
<1> DEFINE Is(g) == g = [n \in Nat |-> IF n = 0 THEN OwnItems ELSE WithPredictions(g[n - 1])]
<1>5. Is(f)
  <2>1. \A n \in Nat : n # 0 => step[<<n, f[n - 1]>>] = WithPredictions(f[n - 1])
    <3>1. f \in [Nat -> V]
      BY <1>4 DEF Recurs
    <3>2. \A n \in Nat : n # 0 => n \in Nat \ {0} /\ f[n - 1] \in V
      BY <3>1
    <3> QED
      BY <1>3, <3>2
  <2> QED
    BY <1>4, <2>1 DEF Recurs
<1>6. Predicted = CHOOSE g : Is(g)
  BY DEF Predicted
<1> HIDE DEF Is
<1>7. Is(Predicted)
  BY <1>5, <1>6
<1>8. \A n \in Nat : Predicted[n + 1] = WithPredictions(Predicted[n]) /\ Predicted[0] = OwnItems
  BY <1>7 DEF Is
<1> DEFINE T == {n \in Nat : Predicted[n] \in V}
<1>9. \A n \in Nat : n \in T
  <2>1. 0 \in T
    BY <1>1, <1>8
  <2>2. ASSUME NEW n \in Nat, n \in T PROVE n + 1 \in T
    BY <1>1, <1>8, <2>2
  <2> HIDE DEF T
  <2> QED
    BY <2>1, <2>2, Induction
<1> QED
  BY <1>8, <1>9 DEF V

LEMMA PhrasedSteps ==
  /\ Phrased[0] = Lexemes \ Eofs
  /\ \A n \in Nat : Phrased[n + 1] = WithHeads(Phrased[n])
  /\ \A n \in Nat : Phrased[n] \subseteq Symbols
<1> DEFINE V == SUBSET Symbols
           step == [x \in (Nat \ {0}) \X V |-> WithHeads(x[2])]
<1>1. Lexemes \ Eofs \in V /\ \A k \in V : WithHeads(k) \in V
  BY TablesTyped DEF Lexemes, WithHeads, OfType
<1>2. step \in [(Nat \ {0}) \X V -> V]
  <2>1. ASSUME NEW x \in (Nat \ {0}) \X V PROVE x[2] \in V
    OBVIOUS
  <2> HIDE DEF V
  <2> QED
    BY <1>1, <2>1
<1>3. \A n \in Nat \ {0}, k \in V : step[<<n, k>>] = WithHeads(k)
  <2> HIDE DEF V
  <2> QED
    OBVIOUS
<1> HIDE DEF step, V
<1>4. PICK f : Recurs(f, V, Lexemes \ Eofs, step)
  BY <1>1, <1>2, RecursiveFunction
<1> DEFINE Is(g) == g = [n \in Nat |-> IF n = 0 THEN Lexemes \ Eofs ELSE WithHeads(g[n - 1])]
<1>5. Is(f)
  <2>1. \A n \in Nat : n # 0 => step[<<n, f[n - 1]>>] = WithHeads(f[n - 1])
    <3>1. f \in [Nat -> V]
      BY <1>4 DEF Recurs
    <3>2. \A n \in Nat : n # 0 => n \in Nat \ {0} /\ f[n - 1] \in V
      BY <3>1
    <3> QED
      BY <1>3, <3>2
  <2> QED
    BY <1>4, <2>1 DEF Recurs
<1>6. Phrased = CHOOSE g : Is(g)
  BY DEF Phrased
<1> HIDE DEF Is
<1>7. Is(Phrased)
  BY <1>5, <1>6
<1>8. \A n \in Nat : Phrased[n + 1] = WithHeads(Phrased[n]) /\ Phrased[0] = Lexemes \ Eofs
  BY <1>7 DEF Is
<1> DEFINE T == {n \in Nat : Phrased[n] \in V}
<1>9. \A n \in Nat : n \in T
  <2>1. 0 \in T
    BY <1>1, <1>8
  <2>2. ASSUME NEW n \in Nat, n \in T PROVE n + 1 \in T
    BY <1>1, <1>8, <2>2
  <2> HIDE DEF T
  <2> QED
    BY <2>1, <2>2, Induction
<1> QED
  BY <1>8, <1>9 DEF V

\* A symbol that has a phrase derives one.
LEMMA PhrasesDerived ==
  \A n \in Nat : \A x \in Phrased[n] : \E w \in Seq(Lexemes \ Eofs) : Proofs!Derives(<<x>>, w)
<1> DEFINE L == Lexemes \ Eofs
           Word(x) == \E w \in Seq(L) : Proofs!Derives(<<x>>, w)
           T == {n \in Nat : \A x \in Phrased[n] : Word(x)}
<1>1. L \subseteq Symbols
  BY DEF Lexemes
<1>2. 0 \in T
  <2> SUFFICES ASSUME NEW x \in L PROVE Word(x)
    BY PhrasedSteps
  <2>1. <<x>> \in Seq(L) /\ <<x>> \in Seq(Symbols)
    BY <1>1
  <2> QED
    BY <2>1, Proofs!DerivesReflexive
<1>3. ASSUME NEW n \in Nat, n \in T PROVE n + 1 \in T
  <2> SUFFICES ASSUME NEW x \in WithHeads(Phrased[n]) PROVE Word(x)
    BY PhrasedSteps
  <2>1. CASE x \in Phrased[n]
    BY <1>3, <2>1
  <2>2. CASE x \notin Phrased[n]
    <3>1. PICK p \in ProdIdx : /\ x = Productions[p].head
                               /\ \A i \in DOMAIN Productions[p].handles :
                                    Productions[p].handles[i] \in Phrased[n]
      BY <2>2 DEF WithHeads
    <3> DEFINE h == Productions[p].handles
    <3>2. x \in Symbols /\ h \in Seq(Symbols)
      BY <3>1, TablesTyped DEF OfType
    <3>3. h \in Seq(Phrased[n])
      <4>1. Len(h) \in Nat /\ h \in [1..Len(h) -> Symbols] /\ DOMAIN h = 1..Len(h)
        BY <3>2, LenProperties
      <4>2. h \in [1..Len(h) -> Phrased[n]]
        BY <3>1, <4>1
      <4> QED
        BY <4>1, <4>2, SeqDef
    <3> HIDE DEF h
    <3>4. PICK w \in Seq(L) : Proofs!Derives(h, w)
      BY <1>1, <1>3, <3>3, PhrasedSteps, GrammarIsTyped, Proofs!WordOfWords
    <3>5. Proofs!Derives(<<x>>, h)
      <4>1. <<>> \in Seq(Symbols) /\ <<x>> \in Seq(Symbols)
        BY <3>2
      <4>2. Proofs!Derives(<<>> \o <<x>> \o <<>>, <<>> \o h \o <<>>)
        BY <3>1, <4>1, GrammarIsTyped, Proofs!DerivesProduction DEF h, ProdIdx
      <4>3. <<>> \o <<x>> \o <<>> = <<x>> /\ <<>> \o h \o <<>> = h
        BY <3>2, <4>1, ConcatEmptySeq
      <4> QED
        BY <4>2, <4>3
    <3>6. <<x>> \in Seq(Symbols) /\ w \in Seq(Symbols)
      BY <1>1, <3>2, SeqMonotonic
    <3> QED
      BY <3>2, <3>4, <3>5, <3>6, Proofs!DerivesTransitive
  <2> QED
    BY <2>1, <2>2
<1>4. \A n \in Nat : n \in T
  <2> HIDE DEF T
  <2> QED
    BY <1>2, <1>3, Induction
<1> QED
  BY <1>4

\* What the stack is built of are symbols.
LEMMA FormSymbols ==
  ASSUME NEW s, SoundStack(s)
  PROVE  FormOf(s) \in Seq(Symbols)
<1> DEFINE n == Len(s)
<1>1. s \in Seq(StackItems) /\ s # <<>> /\ n \in Nat /\ PathOf(s)
  BY LenProperties DEF SoundStack
<1>2. ASSUME NEW i \in 1..n - 1 PROVE SymbolOf(s[i + 1]) \in Symbols
  <2>1. i + 1 \in 2..n /\ i \in 1..n /\ (i + 1) - 1 = i
    BY <1>1
  <2>2. Edge(s[i].state, SymbolOf(s[i + 1]), s[i + 1].state)
    BY <1>1, <2>1 DEF PathOf
  <2>3. s[i].state \in States
    <3>1. s[i] \in StackItems
      BY <1>1, <2>1, ElementOfSeq
    <3> QED
      BY <3>1 DEF StackItems
  <2> QED
    BY <2>2, <2>3, TablesTyped DEF Edge, HasAction
<1>3. FormOf(s) = [i \in 1..n - 1 |-> SymbolOf(s[i + 1])]
  BY DEF FormOf
<1>4. n - 1 \in Nat
  BY <1>1, EmptySeq
<1> HIDE DEF n
<1>5. FormOf(s) \in [1..n - 1 -> Symbols]
  <2> DEFINE Sym(i) == SymbolOf(s[i + 1])
  <2>1. \A i \in 1..n - 1 : Sym(i) \in Symbols
    BY <1>2
  <2>2. FormOf(s) = [i \in 1..n - 1 |-> Sym(i)]
    BY <1>3
  <2> HIDE DEF Sym
  <2> QED
    BY <2>1, <2>2
<1> QED
  BY <1>4, <1>5, SeqDef

LEMMA SymbolsAssociate ==
  ASSUME NEW a \in Seq(Symbols), NEW b \in Seq(Symbols), NEW c \in Seq(Symbols)
  PROVE  (a \o b) \o c = a \o (b \o c)
BY ConcatAssociative

Regroups(b, q, y, r, c) == b \o ((q \o y) \o r) \o c = ((b \o q) \o y) \o (r \o c)

LEMMA Regroup ==
  ASSUME NEW b \in Seq(Symbols), NEW q \in Seq(Symbols), NEW y \in Seq(Symbols),
         NEW r \in Seq(Symbols), NEW c \in Seq(Symbols)
  PROVE  Regroups(b, q, y, r, c)
<1>1. q \o y \in Seq(Symbols) /\ b \o q \in Seq(Symbols)
  BY ConcatProperties
<1>2. (b \o (q \o y)) \o r = b \o ((q \o y) \o r)
  BY <1>1, SymbolsAssociate, SMTT(60)
<1>3. (b \o q) \o y = b \o (q \o y)
  BY SymbolsAssociate, SMTT(60)
<1>4. (b \o q) \o y \in Seq(Symbols)
  BY <1>1, ConcatProperties
<1>5. (((b \o q) \o y) \o r) \o c = ((b \o q) \o y) \o (r \o c)
  BY <1>4, SymbolsAssociate
<1> QED
  BY <1>2, <1>3, <1>5 DEF Regroups

\* A production that fits and has x behind the d handles that are there: the form,
\* then x, then symbols that have phrases.
LEMMA FittingOpens ==
  ASSUME TablesUseful, NEW a \in Seq(Symbols), NEW p \in ProdIdx,
         NEW d \in 0..Len(Productions[p].handles) - 1, Fitting(a, p, d),
         NEW x, x = Productions[p].handles[d + 1]
  PROVE  /\ x \in Symbols
         /\ \E c \in Seq(Phrasal) : Proofs!Derives(<<StartSymbol>>, a \o <<x>> \o c)
<1> DEFINE h == Productions[p].handles
           n == Len(h)
           q == SubSeq(h, 1, d)
           r == SubSeq(h, d + 2, n)
<1>1. PICK b \in Seq(Symbols), c \in Seq(Phrasal) :
        /\ a = b \o q
        /\ Proofs!Derives(<<StartSymbol>>, b \o <<Productions[p].head>> \o c)
  BY DEF Fitting
<1>2. Phrasal \subseteq Symbols
  BY PhrasedSteps, FS_CardinalityType DEF TablesUseful, Phrasal
<1>3. /\ h \in Seq(Symbols) /\ h \in Seq(Phrasal) /\ n \in Nat /\ d + 1 \in 1..n
      /\ Productions[p].head \in Symbols /\ StartSymbol \in Symbols
  <2>1. h \in Seq(Symbols) /\ h \in Seq(Phrasal) /\ Productions[p].head \in Symbols /\ StartSymbol \in Symbols
    BY <1>2, TablesTyped DEF TablesUseful, OfType
  <2>2. n \in Nat
    BY <2>1, LenProperties
  <2> HIDE DEF h, n
  <2>3. d \in 0..n - 1
    BY DEF h, n
  <2> QED
    BY <2>1, <2>2, <2>3
<1> HIDE DEF n
<1>4. q \in Seq(Symbols)
  <2>1. \A i \in 1..d : h[i] \in Symbols
    <3> HIDE DEF h
    <3> QED
      BY <1>3, ElementOfSeq DEF n
  <2> HIDE DEF h
  <2> QED
    BY <1>3, <2>1, SubSeqProperties
<1>5. r \in Seq(Phrasal)
  <2>1. \A i \in d + 2..n : h[i] \in Phrasal
    <3> HIDE DEF h
    <3> QED
      BY <1>3, ElementOfSeq DEF n
  <2> HIDE DEF h
  <2> QED
    BY <1>3, <2>1, SubSeqProperties
<1>6. x \in Symbols /\ h = q \o <<x>> \o r
  <2> HIDE DEF h
  <2>1. x = h[d + 1] /\ x \in Symbols
    BY <1>3, ElementOfSeq DEF n, h
  <2>2. SubSeq(h, 1, d + 1) = q \o <<x>>
    <3>1. SubSeq(h, 1, d + 1) = SubSeq(h, 1, (d + 1) - 1) \o <<h[d + 1]>>
      <4>1. 1 \in 1..Len(h) /\ d + 1 \in 1..Len(h)
        BY <1>3 DEF n
      <4> QED
        BY <1>3, <4>1, SubSeqRecursiveSecond
    <3>2. (d + 1) - 1 = d
      BY <1>3
    <3> QED
      BY <2>1, <3>1, <3>2
  <2>3. SubSeq(h, 1, d + 1) \o r = h
    <3>1. 1 \in 1..Len(h) + 1 /\ d + 1 \in 1 - 1..Len(h) /\ Len(h) \in d + 1..Len(h)
      BY <1>3 DEF n
    <3>2. SubSeq(h, 1, d + 1) \o SubSeq(h, (d + 1) + 1, Len(h)) = SubSeq(h, 1, Len(h))
      BY <1>3, <3>1, ConcatAdjacentSubSeq
    <3>3. (d + 1) + 1 = d + 2
      BY <1>3
    <3> QED
      BY <1>3, <3>2, <3>3, SubSeqFull DEF n
  <2> QED
    BY <2>1, <2>2, <2>3
<1> DEFINE hd == <<Productions[p].head>>
           y  == <<x>>
           st == <<StartSymbol>>
<1>7. /\ hd \in Seq(Symbols) /\ y \in Seq(Symbols) /\ st \in Seq(Symbols) /\ c \in Seq(Symbols)
      /\ r \in Seq(Symbols)
  BY <1>2, <1>3, <1>5, <1>6, SeqMonotonic
<1>8. Proofs!Derives(st, b \o h \o c)
  <2>1. Proofs!Derives(b \o hd \o c, b \o h \o c)
    BY <1>7, GrammarIsTyped, Proofs!DerivesProduction DEF ProdIdx
  <2>2. b \o hd \o c \in Seq(Symbols) /\ b \o h \o c \in Seq(Symbols)
    <3>1. b \o hd \in Seq(Symbols) /\ b \o h \in Seq(Symbols)
      BY <1>3, <1>7, ConcatProperties
    <3> QED
      BY <1>7, <3>1, ConcatProperties
  <2> QED
    BY <1>1, <1>7, <2>1, <2>2, Proofs!DerivesTransitive
<1> HIDE DEF h, q, r, hd, y, st
<1>9. b \o h \o c = a \o y \o (r \o c)
  <2>1. h = (q \o y) \o r
    BY <1>6 DEF y
  <2>2. b \o ((q \o y) \o r) \o c = ((b \o q) \o y) \o (r \o c)
    <3>1. /\ b \in Seq(Symbols) /\ q \in Seq(Symbols) /\ y \in Seq(Symbols)
          /\ r \in Seq(Symbols) /\ c \in Seq(Symbols)
      BY <1>4, <1>7
    <3>2. Regroups(b, q, y, r, c)
      BY <3>1, Regroup
    <3> QED
      BY <3>2 DEF Regroups
  <2> QED
    BY <1>1, <2>1, <2>2 DEF q, h
<1>10. r \o c \in Seq(Phrasal)
  BY <1>5, ConcatProperties
<1> QED
  BY <1>6, <1>8, <1>9, <1>10 DEF y, st

\* The own items of a state fit when those below it do.
LEMMA OwnFits ==
  ASSUME TablesUseful, NEW s, SoundStack(s), NEW n, n = Len(s),
         n > 1 => \A p \in ProdIdx, d \in Nat : <<s[n - 1].state, p, d>> \in Items =>
                    Fitting(FormOf(SubSeq(s, 1, n - 1)), p, d),
         NEW p \in ProdIdx, NEW d \in Nat, <<s[n].state, p, d>> \in OwnItems
  PROVE  Fitting(FormOf(s), p, d)
<1> DEFINE h == Productions[p].handles
<1>1. /\ s \in Seq(StackItems) /\ s # <<>> /\ n \in Nat /\ n >= 1 /\ PathOf(s) /\ ItemsBacked(s)
      /\ n \in 1..n
  BY EmptySeq DEF SoundStack
<1>2. <<s[n].state, p, d>> \in Items /\ h \in Seq(Symbols) /\ Productions[p].head \in Symbols
  BY TablesTyped DEF OwnItems, OfType
<1>3. CASE d = 0
  <2>1. s[n].state = LalrInit /\ Productions[p].head = StartSymbol
    BY <1>3 DEF OwnItems
  <2>2. n = 1
    <3> SUFFICES ASSUME n # 1 PROVE FALSE
      OBVIOUS
    <3>1. n \in 2..n /\ n - 1 \in 1..n
      BY <1>1
    <3>2. Edge(s[n - 1].state, SymbolOf(s[n]), LalrInit)
      BY <1>1, <2>1, <3>1 DEF PathOf
    <3>3. s[n - 1].state \in States
      <4>1. s[n - 1] \in StackItems
        BY <1>1, <3>1, ElementOfSeq
      <4> QED
        BY <4>1 DEF StackItems
    <3>4. SymbolOf(s[n]) \in Symbols
      BY <3>2, <3>3, TablesTyped DEF Edge, HasAction
    <3> QED
      BY <3>2, <3>3, <3>4, ItemsConsistent, TablesTyped DEF AcceptsStart
  <2>3. FormOf(s) = <<>>
    <3>1. FormOf(s) \in Seq(Symbols)
      BY FormSymbols
    <3>2. Len(FormOf(s)) = Len(s) - 1 /\ Len(s) = 1
      BY <1>1, <2>2, FormLength
    <3>3. Len(FormOf(s)) = 0
      BY <3>2
    <3> QED
      BY <3>1, <3>3, EmptySeq
  <2>4. SubSeq(h, 1, d) = <<>>
    BY <1>3, SubSeqEmpty
  <2>5. Proofs!Derives(<<StartSymbol>>, <<>> \o <<Productions[p].head>> \o <<>>)
    <3>1. <<StartSymbol>> \in Seq(Symbols) /\ StartSymbol = Productions[p].head
      BY <1>2, <2>1
    <3>2. <<>> \o <<StartSymbol>> \o <<>> = <<StartSymbol>>
      BY <3>1, ConcatEmptySeq
    <3> QED
      BY <3>1, <3>2, Proofs!DerivesReflexive
  <2>6. <<>> \in Seq(Symbols) /\ <<>> \in Seq(Phrasal) /\ <<>> \o <<>> = <<>>
    BY EmptySeq, ConcatEmptySeq
  <2> QED
    BY <2>3, <2>4, <2>5, <2>6 DEF Fitting
<1>4. CASE d # 0
  <2> DEFINE t == SubSeq(s, 1, n - 1)
             x == SymbolOf(s[n])
             q == SubSeq(h, 1, d - 1)
  <2>1. Backed(s, n, p, d)
    BY <1>1, <1>2 DEF ItemsBacked
  <2>2. /\ n > 1 /\ n - 1 \in 1..n /\ d - 1 \in Nat
        /\ <<s[n - 1].state, p, d - 1>> \in Items /\ x = h[d]
    <3>1. d < n /\ 0 \in 0..d /\ 1 \in 0..d /\ 0 < d
      BY <1>4, <2>1 DEF Backed
    <3>2. <<s[n - 1].state, p, d - 1>> \in Items
      BY <2>1, <3>1 DEF Backed
    <3>3. SymbolOf(s[n - 0]) = h[d - 0]
      BY <2>1, <3>1 DEF Backed
    <3> QED
      BY <1>1, <1>4, <3>1, <3>2, <3>3
  <2>3. Fitting(FormOf(t), p, d - 1)
    BY <2>2
  <2>4. d \in 1..Len(h) /\ Len(h) \in Nat
    <3>1. <<s[n].state, p, d>> \in AllItems
      BY <1>2, ItemsConsistent
    <3> QED
      BY <1>2, <1>4, <3>1, LenProperties DEF AllItems
  <2>5. FormOf(s) = Append(FormOf(t), x) /\ FormOf(t) \in Seq(Symbols) /\ x \in Symbols
    <3>1. SoundStack(t) /\ Len(t) = n - 1 /\ \A i \in 1..n - 1 : t[i] = s[i]
      BY <2>2, PrefixSound
    <3>2. t \in Seq(StackItems) /\ t # <<>> /\ s[n] \in StackItems
      BY <1>1, <3>1, ElementOfSeq DEF SoundStack
    <3> HIDE DEF t
    <3>3. s = Append(t, s[n])
      <4>1. /\ Append(t, s[n]) \in Seq(StackItems) /\ Len(Append(t, s[n])) = n
            /\ \A i \in 1..n - 1 : Append(t, s[n])[i] = t[i]
            /\ Append(t, s[n])[n] = s[n]
        BY <1>1, <3>1, <3>2, AppendProperties
      <4>2. \A i \in 1..n : Append(t, s[n])[i] = s[i]
        BY <1>1, <3>1, <4>1
      <4> QED
        BY <1>1, <4>1, <4>2, SeqEqual
    <3>4. FormOf(s) = Append(FormOf(t), x)
      BY <3>2, <3>3, FormAppend
    <3>5. x \in Symbols
      <4> HIDE DEF h, x
      <4> QED
        BY <1>2, <2>2, <2>4, ElementOfSeq
    <3> QED
      BY <3>1, <3>4, <3>5, FormSymbols
  <2> HIDE DEF t, x
  <2>6. PICK b \in Seq(Symbols), c \in Seq(Phrasal) :
          /\ FormOf(t) = b \o q
          /\ Proofs!Derives(<<StartSymbol>>, b \o <<Productions[p].head>> \o c)
    BY <2>3 DEF Fitting
  <2>7. SubSeq(h, 1, d) = q \o <<x>>
    <3> HIDE DEF h
    <3>1. 1 \in 1..Len(h)
      BY <2>4
    <3>2. SubSeq(h, 1, d) = SubSeq(h, 1, d - 1) \o <<h[d]>>
      BY <1>2, <2>4, <3>1, SubSeqRecursiveSecond
    <3> QED
      BY <2>2, <3>2
  <2>8. q \in Seq(Symbols)
    <3> HIDE DEF h
    <3>1. \A i \in 1..d - 1 : h[i] \in Symbols
      BY <1>2, <2>4, ElementOfSeq
    <3> QED
      BY <2>4, <3>1, SubSeqProperties
  <2>9. FormOf(s) = b \o SubSeq(h, 1, d)
    <3> HIDE DEF h, q
    <3> DEFINE y == <<x>>
    <3>1. y \in Seq(Symbols)
      BY <2>5
    <3>2. FormOf(s) = FormOf(t) \o y
      BY <2>5, AppendIsConcat
    <3> HIDE DEF y
    <3>3. (b \o q) \o y = b \o (q \o y)
      BY <2>8, <3>1, SymbolsAssociate
    <3> QED
      BY <2>6, <2>7, <3>2, <3>3 DEF y
  <2> QED
    BY <2>6, <2>9 DEF Fitting
<1> QED
  BY <1>3, <1>4

\* The items predicted in at most k + 1 steps fit when those in at most k do.
LEMMA PredictionFits ==
  ASSUME TablesUseful, NEW a \in Seq(Symbols), NEW st, NEW k \in Nat,
         \A q \in ProdIdx, e \in Nat : <<st, q, e>> \in Predicted[k] => Fitting(a, q, e),
         NEW p \in ProdIdx, NEW d \in Nat, <<st, p, d>> \in Predicted[k + 1]
  PROVE  Fitting(a, p, d)
<1> SUFFICES ASSUME <<st, p, d>> \notin Predicted[k] PROVE Fitting(a, p, d)
  OBVIOUS
<1>1. PICK by \in Predicted[k] : by[1] = st /\ DotBefore(by, Productions[p].head) /\ d = 0
  BY PredictedSteps, SMTT(30) DEF WithPredictions
<1>2. by \in AllItems
  BY PredictedSteps, ItemsConsistent
<1>3. by = <<st, by[2], by[3]>> /\ by[2] \in ProdIdx /\ by[3] \in Nat
  BY <1>1, <1>2 DEF AllItems
<1> DEFINE q == by[2]
           e == by[3]
           h == Productions[q].handles
           x == Productions[p].head
<1>4. e \in 0..Len(h) - 1 /\ x = h[e + 1]
  <2>1. Len(h) \in Nat
    BY <1>3, TablesTyped, LenProperties
  <2>2. e < Len(h) /\ x = h[e + 1]
    BY <1>1 DEF DotBefore
  <2> HIDE DEF h, x
  <2> QED
    BY <1>3, <2>1, <2>2
<1>5. Fitting(a, q, e)
  BY <1>1, <1>3
<1> HIDE DEF q, e
<1>6. PICK c \in Seq(Phrasal) : Proofs!Derives(<<StartSymbol>>, a \o <<x>> \o c)
  BY <1>3, <1>4, <1>5, FittingOpens DEF q
<1>7. a = a \o SubSeq(Productions[p].handles, 1, d)
  <2>1. SubSeq(Productions[p].handles, 1, d) = <<>>
    BY <1>1, SubSeqEmpty
  <2> QED
    BY <2>1, ConcatEmptySeq
<1> QED
  BY <1>6, <1>7 DEF Fitting

\* Every item of the state on top of a sound stack fits what the stack holds.
LEMMA ItemsFit ==
  ASSUME TablesUseful
  PROVE  \A s : SoundStack(s) => \A p \in ProdIdx, d \in Nat :
           <<s[Len(s)].state, p, d>> \in Items => Fitting(FormOf(s), p, d)
<1> DEFINE Fit(s) == \A p \in ProdIdx, d \in Nat :
                       <<s[Len(s)].state, p, d>> \in Items => Fitting(FormOf(s), p, d)
           T == {n \in Nat : \A s : SoundStack(s) /\ Len(s) = n => Fit(s)}
<1>1. 0 \in T
  <2>1. \A s : SoundStack(s) => Len(s) # 0
    BY EmptySeq DEF SoundStack
  <2> HIDE DEF Fit
  <2> QED
    BY <2>1
<1>2. ASSUME NEW n \in Nat, n \in T PROVE n + 1 \in T
  <2> DEFINE m == n + 1
  <2> SUFFICES ASSUME NEW s, SoundStack(s), Len(s) = m PROVE Fit(s)
    OBVIOUS
  <2> DEFINE K == {k \in Nat : \A p \in ProdIdx, d \in Nat :
                     <<s[m].state, p, d>> \in Predicted[k] => Fitting(FormOf(s), p, d)}
             u == SubSeq(s, 1, m - 1)
  <2>1. m > 1 => \A p \in ProdIdx, d \in Nat :
                   <<s[m - 1].state, p, d>> \in Items => Fitting(FormOf(u), p, d)
    <3> SUFFICES ASSUME m > 1
                 PROVE  \A p \in ProdIdx, d \in Nat :
                          <<s[m - 1].state, p, d>> \in Items => Fitting(FormOf(u), p, d)
      OBVIOUS
    <3>1. m - 1 = n /\ m - 1 \in 1..Len(s)
      OBVIOUS
    <3>2. SoundStack(u) /\ Len(u) = n /\ u[n] = s[n]
      BY <3>1, PrefixSound
    <3> HIDE DEF u
    <3>3. Fit(u)
      BY <1>2, <3>2
    <3> QED
      BY <3>1, <3>2, <3>3
  <2> HIDE DEF m
  <2>2. 0 \in K
    BY <2>1, OwnFits, PredictedSteps
  <2>3. ASSUME NEW k \in Nat, k \in K PROVE k + 1 \in K
    <3> SUFFICES ASSUME NEW p \in ProdIdx, NEW d \in Nat, <<s[m].state, p, d>> \in Predicted[k + 1]
                 PROVE  Fitting(FormOf(s), p, d)
      OBVIOUS
    <3>1. FormOf(s) \in Seq(Symbols)
      BY FormSymbols
    <3> DEFINE a == FormOf(s)
               st == s[m].state
    <3>2. \A q \in ProdIdx, e \in Nat : <<st, q, e>> \in Predicted[k] => Fitting(a, q, e)
      BY <2>3
    <3>3. a \in Seq(Symbols) /\ <<st, p, d>> \in Predicted[k + 1]
      BY <3>1
    <3> HIDE DEF a, st
    <3>4. Fitting(a, p, d)
      BY <3>2, <3>3, PredictionFits
    <3> QED
      BY <3>4 DEF a
  <2>4. \A k \in Nat : k \in K
    <3> HIDE DEF K
    <3> QED
      BY <2>2, <2>3, Induction
  <2>5. Cardinality(ProdIdx) \in Nat /\ Items = Predicted[Cardinality(ProdIdx)]
    BY FS_CardinalityType DEF TablesUseful
  <2> QED
    BY <2>4, <2>5
<1>3. \A n \in Nat : n \in T
  <2> HIDE DEF T
  <2> QED
    BY <1>1, <1>2, Induction
<1> SUFFICES ASSUME NEW s, SoundStack(s) PROVE Fit(s)
  OBVIOUS
<1>4. Len(s) \in Nat
  BY LenProperties DEF SoundStack
<1> HIDE DEF Fit
<1> QED
  BY <1>3, <1>4

\* In the form that the stack spells out the shifted tokens go on with the lookahead.
LEMMA ShiftBegins ==
  ASSUME TablesUseful, IInv, Proofs!IInv, Begin, Shift
  PROVE  ShiftsBegin'
<1> DEFINE x == Lookahead
           st == <<StartSymbol>>
           L == Lexemes \ Eofs
<1>1. /\ HasAction(state, x) /\ Action(state, x).type = "Shift"
      /\ shifted' = Append(shifted, x) /\ x \in Lexemes /\ x \in Symbols
  BY BeginFacts DEF IInv, Shift, Decides
<1>2. SoundStack(stack) /\ state = stack[Len(stack)].state /\ state \in States /\ shifted \in Seq(Lexemes)
  BY DEF IInv, TypeOK, Top
<1>3. PICK it \in Items : it[1] = state /\ DotBefore(it, x)
  BY <1>1, <1>2 DEF TablesUseful
<1>4. it = <<state, it[2], it[3]>> /\ it[2] \in ProdIdx /\ it[3] \in Nat
  BY <1>3, ItemsConsistent DEF AllItems
<1> DEFINE p == it[2]
           d == it[3]
           h == Productions[p].handles
           a == FormOf(stack)
<1>5. Fitting(a, p, d)
  BY <1>2, <1>4, ItemsFit
<1>6. d \in 0..Len(h) - 1 /\ x = h[d + 1]
  <2>1. Len(h) \in Nat
    BY <1>4, TablesTyped, LenProperties
  <2>2. d < Len(h) /\ x = h[d + 1]
    BY <1>3 DEF DotBefore
  <2> HIDE DEF h, x
  <2> QED
    BY <1>4, <2>1, <2>2
<1>7. a \in Seq(Symbols)
  BY <1>2, FormSymbols
<1>8. PICK c \in Seq(Phrasal) : Proofs!Derives(st, a \o <<x>> \o c)
  <2> HIDE DEF p, d, a, x
  <2> QED
    BY <1>4, <1>5, <1>6, <1>7, FittingOpens DEF p
<1>9. Proofs!Derives(a, shifted) /\ shifted \in Seq(Symbols)
  <2>1. Proofs!Derives(Form, shifted)
    BY DEF Proofs!IInv, Proofs!FormDerives
  <2>2. shifted \in Seq(Symbols)
    BY <1>2 DEF Lexemes
  <2> QED
    BY <2>1, <2>2, FormIsFormOf
<1>10. Phrasal \subseteq Symbols /\ L \subseteq Symbols
  BY PhrasedSteps, FS_CardinalityType DEF TablesUseful, Phrasal, Lexemes
<1>11. PICK z \in Seq(L) : Proofs!Derives(c, z)
  <2>1. Cardinality(ProdIdx) \in Nat
    BY FS_CardinalityType DEF TablesUseful
  <2>2. \A y \in Phrasal : \E w \in Seq(L) : Proofs!Derives(<<y>>, w)
    BY <2>1, PhrasesDerived DEF Phrasal
  <2> HIDE DEF L
  <2> QED
    BY <1>10, <2>2, GrammarIsTyped, Proofs!WordOfWords
<1> DEFINE y == <<x>>
           w == shifted \o y
<1>12. y \in Seq(Symbols) /\ c \in Seq(Symbols) /\ z \in Seq(Symbols) /\ st \in Seq(Symbols)
  BY <1>1, <1>10, TablesTyped, StartTyped, SeqMonotonic DEF OfType
<1>13. shifted' = w
  BY <1>1, <1>9, AppendIsConcat
<1> HIDE DEF x, y, st, L, a
<1>14. /\ a \o y \in Seq(Symbols) /\ w \in Seq(Symbols) /\ y \o c \in Seq(Symbols)
       /\ <<>> \in Seq(Symbols)
  BY <1>7, <1>9, <1>12, ConcatProperties
<1> HIDE DEF w
<1>15. /\ (a \o y) \o c \in Seq(Symbols) /\ w \o c \in Seq(Symbols) /\ w \o z \in Seq(Symbols)
  BY <1>12, <1>14, ConcatProperties
<1>16. Proofs!Derives((a \o y) \o c, w \o c)
  <2>1. Proofs!Derives(<<>> \o a \o (y \o c), <<>> \o shifted \o (y \o c))
    BY <1>7, <1>9, <1>14, GrammarIsTyped, Proofs!DerivesWithin
  <2>2. <<>> \o a = a /\ <<>> \o shifted = shifted
    BY <1>7, <1>9, ConcatEmptySeq
  <2>3. (a \o y) \o c = a \o (y \o c)
    BY <1>7, <1>12, SymbolsAssociate
  <2>4. (shifted \o y) \o c = shifted \o (y \o c)
    BY <1>9, <1>12, SymbolsAssociate
  <2> QED
    BY <2>1, <2>2, <2>3, <2>4 DEF w
<1>17. Proofs!Derives(w \o c, w \o z)
  <2>1. Proofs!Derives(w \o c \o <<>>, w \o z \o <<>>)
    BY <1>11, <1>12, <1>14, GrammarIsTyped, Proofs!DerivesWithin
  <2>2. (w \o c) \o <<>> = w \o c /\ (w \o z) \o <<>> = w \o z
    BY <1>15, ConcatEmptySeq
  <2> QED
    BY <2>1, <2>2
<1>18. Proofs!Derives(st, w \o z)
  <2>1. Proofs!Derives(st, (a \o y) \o c)
    BY <1>8 DEF y
  <2>2. Proofs!Derives(st, w \o c)
    BY <1>12, <1>15, <1>16, <2>1, Proofs!DerivesTransitive
  <2> QED
    BY <1>12, <1>15, <1>17, <2>2, Proofs!DerivesTransitive
<1> QED
  BY <1>13, <1>18 DEF ShiftsBegin, Begins, st, L

\* Before the first token every sentence is open.
LEMMA NothingBegins == TablesUseful => Begins(<<>>)
<1> SUFFICES ASSUME TablesUseful PROVE Begins(<<>>)
  OBVIOUS
<1>1. Cardinality(ProdIdx) \in Nat /\ StartSymbol \in Phrased[Cardinality(ProdIdx)]
  BY FS_CardinalityType DEF TablesUseful, Phrasal
<1>2. PICK w \in Seq(Lexemes \ Eofs) : Proofs!Derives(<<StartSymbol>>, w)
  BY <1>1, PhrasesDerived
<1>3. <<>> \o w = w
  BY ConcatEmptySeq
<1> QED
  BY <1>2, <1>3 DEF Begins

LEMMA StepBegins ==
  ASSUME TablesUseful, IInv, Proofs!IInv, ShiftsBegin, [Next]_vars
  PROVE  ShiftsBegin'
<1>1. CASE shifted' = shifted
  BY <1>1 DEF ShiftsBegin, Begins
<1>2. CASE Load \/ ResetCursor
  <2>1. shifted' = <<>>
    BY <1>2 DEF Load, ResetCursor, ResetState
  <2> QED
    BY <2>1, NothingBegins DEF ShiftsBegin, Begins
<1>3. CASE (\E c \in Calls : Call(c)) \/ UNCHANGED vars
  BY <1>1, <1>3 DEF Call, engine, vars
<1>4. CASE ParseStep
  <2>1. CASE Shift
    BY <1>4, <2>1, ShiftBegins DEF ParseStep
  <2>2. CASE ~Shift
    BY <1>1, <1>4, <2>2 DEF ParseStep, Act, LexicalError, SyntaxError, Reduce, GotoError,
                            ActionError, Accept, Underflow, Fail, engine
  <2> QED
    BY <2>1, <2>2
<1> QED
  BY <1>2, <1>3, <1>4 DEF Next

\* The tokens shifted since the last reset always begin a text that the grammar's start
\* symbol derives, whatever became of the parse since: ParseStep never shifts a token that
\* no sentence could go on with, so an error is reported at the first wrong token.
THEOREM ShiftsAlwaysBegin ==
  ASSUME TablesUseful
  PROVE  Spec => []ShiftsBegin
<1>1. Init => ShiftsBegin
  BY NothingBegins DEF Init, ShiftsBegin, Begins
<1>2. Init => Proofs!IInv
  BY InitImplements, Proofs!InitIInv DEF Abstract!Init, Proofs!Init
<1>3. IInv /\ Proofs!IInv /\ [Next]_vars => Proofs!IInv'
  <2>1. [Abstract!Next]_(Abstract!vars) => [Proofs!Next]_(Proofs!vars)
    BY DEF Abstract!Next, Abstract!vars, Abstract!Read, Abstract!Replace, Abstract!Fronts,
           Abstract!Accept, Abstract!Reject, Abstract!Restart,
           Proofs!Next, Proofs!vars, Proofs!Read, Proofs!Replace, Proofs!Fronts,
           Proofs!Accept, Proofs!Reject, Proofs!Restart
  <2> QED
    BY <2>1, StepImplements, GrammarIsTyped, Proofs!NextIInv
<1>4. IInv /\ Proofs!IInv /\ ShiftsBegin /\ [Next]_vars => ShiftsBegin'
  BY StepBegins
<1> QED
  BY <1>1, <1>2, <1>3, <1>4, Invariance, PTL DEF Spec
=============================================================================
