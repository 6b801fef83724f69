---------------------------- MODULE EngineProofs ----------------------------
(***************************************************************************)
(* Proofs about the LALR engine for every table Grammar::LoadBuffer can    *)
(* have made, whether it is the table of a grammar or damaged.  Only its   *)
(* indices are assumed to be in range (TablesTyped).  Two arguments do not *)
(* depend on each other: whatever the table says, the stack is pushed      *)
(* along its edges only, and the lookahead is read only when the last one  *)
(* was used up.  A client may call again after every answer, an internal   *)
(* error among them; when a reduction takes more than the stack holds, the *)
(* behaviour stays where it is.                                            *)
(***************************************************************************)
EXTENDS Parser, Induction, SequenceTheorems

\* StackIsPath, of any sequence of stack items
PathOf(s) ==
  /\ s[1].state = LalrInit
  /\ \A i \in 2..Len(s) : Edge(s[i - 1].state, SymbolOf(s[i]), s[i].state)

\* the lookahead that is kept is a lexeme
LookaheadRead == ~token_used => token.symbol \in Lexemes

\* The lookahead and the state that gave a result are kept, and so they would give
\* it again; but for an internal error, after which the stack may be another.
Final ==
  /\ ret = "Accept" => /\ ~token_used
                       /\ SymbolType[token.symbol] # "Error"
                       /\ HasAction(state, token.symbol)
                       /\ Action(state, token.symbol).type = "Accept"
  /\ ret = "Error" =>
       /\ ~token_used
       /\ \/ SymbolType[token.symbol] = "Error" /\ error_info =
               [type |-> "LexicalError", pos |-> cursor, state |-> state,
                token |-> token, expected |-> {}]
          \/ /\ SymbolType[token.symbol] # "Error"
             /\ ~HasAction(state, token.symbol)
             /\ error_info = [type |-> "SyntaxError", pos |-> cursor, state |-> state,
                              token |-> token, expected |-> ExpectedSymbols(state)]
          \/ error_info.type = "InternalError"

\* state_ is not that of the top: a reduction has popped and found no goto, and as
\* state_ and the lookahead are kept every further step tries to reduce again
Popped ==
  /\ InternalError \/ ret = "undefined"
  /\ ~token_used
  /\ SymbolType[token.symbol] # "Error"
  /\ HasAction(state, token.symbol)
  /\ Action(state, token.symbol).type = "Reduce"

EngineInv == /\ TypeOK
             /\ LookaheadRead
             /\ PathOf(stack)
             /\ state = Top.state \/ Popped
             /\ Final
-----------------------------------------------------------------------------
(* The stack.                                                              *)

LEMMA SymbolOfItem ==
  ASSUME NEW t \in States, NEW p \in ProdIdx, NEW tok
  PROVE  SymbolOf([state |-> t, production |-> p, token |-> tok]) = Productions[p].head
BY TablesTyped DEF SymbolOf, NoProd

LEMMA SymbolOfToken ==
  ASSUME NEW t, NEW tok
  PROVE  SymbolOf([state |-> t, production |-> NoProd, token |-> tok]) = tok.symbol
BY DEF SymbolOf


LEMMA InitialPath ==
  /\ InitialStack \in Seq(StackItems) /\ InitialStack # <<>> /\ PathOf(InitialStack)
  /\ Len(InitialStack) = 1 /\ InitialStack[1].state = LalrInit
<1> DEFINE it == [state |-> LalrInit, production |-> NoProd, token |-> NoToken]
<1>1. it \in StackItems
  BY TablesTyped DEF StackItems, Tokens, NoToken
<1>2. InitialStack \in Seq(StackItems) /\ InitialStack # <<>> /\ Len(InitialStack) = 1
      /\ InitialStack[1] = it
  BY <1>1 DEF InitialStack
<1> QED
  BY <1>2 DEF PathOf

\* What is left when items are popped is a path.
LEMMA PathPrefix ==
  ASSUME NEW s \in Seq(StackItems), PathOf(s), NEW n \in 1..Len(s)
  PROVE  /\ SubSeq(s, 1, n) \in Seq(StackItems)
         /\ PathOf(SubSeq(s, 1, n))
         /\ Len(SubSeq(s, 1, n)) = n
         /\ \A i \in 1..n : SubSeq(s, 1, n)[i] = s[i]
<1> DEFINE t == SubSeq(s, 1, n)
<1>1. Len(s) \in Nat
  OBVIOUS
<1>2. t \in Seq(StackItems) /\ Len(t) = n /\ \A i \in 1..n : t[i] = s[i]
  BY <1>1, SubSeqProperties, ElementOfSeq
<1> HIDE DEF t
<1>3. PathOf(t)
  BY <1>1, <1>2 DEF PathOf
<1> QED
  BY <1>2, <1>3 DEF t

\* An item pushed along an edge of the automaton prolongs the path.
LEMMA PathPush ==
  ASSUME NEW s \in Seq(StackItems), s # <<>>, PathOf(s), NEW it \in StackItems,
         Edge(s[Len(s)].state, SymbolOf(it), it.state)
  PROVE  /\ Append(s, it) \in Seq(StackItems) /\ Append(s, it) # <<>>
         /\ PathOf(Append(s, it))
         /\ Len(Append(s, it)) \in Nat
         /\ Append(s, it)[Len(Append(s, it))] = it
<1> DEFINE t == Append(s, it)
           n == Len(s)
<1>1. n \in Nat /\ n >= 1
  BY EmptySeq
<1>2. t \in Seq(StackItems) /\ Len(t) = n + 1 /\ t[n + 1] = it
      /\ \A i \in 1..n : t[i] = s[i]
  BY <1>1, AppendProperties
<1> HIDE DEF t
<1>3. t # <<>>
  BY <1>1, <1>2
<1>4. PathOf(t)
  BY <1>1, <1>2 DEF PathOf
<1> QED
  BY <1>1, <1>2, <1>3, <1>4 DEF t
-----------------------------------------------------------------------------
(* Reading the lookahead.                                                  *)

LEMMA UnseenLexemes ==
  ASSUME NEW run \in Unseen
  PROVE  run \in Seq(Lexemes) /\ Len(run) \in Nat \ {0} /\ run[Len(run)] \in Lexemes
<1>1. Noises \subseteq Lexemes /\ Eofs \subseteq Lexemes
  BY DEF Noises, Eofs, Lexemes, OfType
<1>2. PICK gap \in NextGaps, x \in NextTokens : run = Append(gap, x)
  BY DEF Unseen
<1>3. x \in Lexemes
  BY <1>1 DEF NextTokens
<1>4. gap \in Seq(Lexemes)
  <2>1. CASE AtEof
    BY <2>1 DEF NextGaps
  <2>2. CASE ~AtEof
    <3>1. PICK g \in 0..MaxGap : gap \in [1..g -> Noises]
      BY <2>2 DEF NextGaps, Gaps
    <3>2. g \in Nat
      BY BoundsTyped
    <3>3. gap \in [1..g -> Lexemes]
      BY <1>1, <3>1
    <3> QED
      BY <3>2, <3>3, SeqDef
  <2> QED
    BY <2>1, <2>2
<1> QED
  BY <1>2, <1>3, <1>4, AppendProperties

LEMMA ReadTokenTyped ==
  ASSUME TypeOK, LookaheadRead, ReadToken
  PROVE  /\ text' \in Seq(Lexemes)
         /\ cursor' \in 0..Len(text')
         /\ token' \in Tokens
         /\ token'.symbol \in Lexemes
<1>1. text \in Seq(Lexemes) /\ cursor \in 0..Len(text) /\ token \in Tokens
  BY DEF TypeOK
<1>2. CASE ~token_used
  BY <1>1, <1>2 DEF ReadToken, LookaheadRead
<1>3. CASE token_used /\ cursor = Len(text)
  <2>1. PICK run \in Unseen :
          /\ text' = text \o run
          /\ cursor' = Len(text')
          /\ token' = [symbol |-> run[Len(run)], pos |-> cursor']
    BY <1>3 DEF ReadToken, ReadNew
  <2>2. run \in Seq(Lexemes) /\ run[Len(run)] \in Lexemes
    BY UnseenLexemes
  <2>3. text' \in Seq(Lexemes)
    BY <1>1, <2>1, <2>2, ConcatProperties
  <2>4. cursor' \in Nat /\ cursor' = Len(text')
    BY <2>1, <2>3, LenProperties
  <2> QED
    BY <2>1, <2>2, <2>3, <2>4 DEF Tokens
<1>4. CASE token_used /\ cursor # Len(text)
  <2>1. PICK k \in cursor + 1 .. Len(text) :
          /\ text' = text
          /\ cursor' = k
          /\ token' = [symbol |-> text[k], pos |-> k]
    BY <1>4 DEF ReadToken, ReadAgain
  <2>2. k \in 1..Len(text) /\ k \in Nat
    BY <1>1, LenProperties
  <2>3. text[k] \in Lexemes
    BY <1>1, <2>2, ElementOfSeq
  <2> QED
    BY <1>1, <2>1, <2>2, <2>3 DEF Tokens
<1> QED
  BY <1>2, <1>3, <1>4

\* A result that keeps the lookahead is repeated with the same lookahead.
LEMMA KeptToken ==
  ASSUME ReadToken, ~token_used
  PROVE  UNCHANGED <<text, cursor, token>>
BY DEF ReadToken
-----------------------------------------------------------------------------
(* The invariant of the stack, action by action.                           *)

\* What every return of ParseStep has in common.
LEMMA BeginFacts ==
  ASSUME TypeOK, LookaheadRead, Begin
  PROVE  /\ text' \in Seq(Lexemes) /\ cursor' \in 0..Len(text') /\ token' \in Tokens
         /\ Lookahead \in Lexemes /\ Lookahead \in Symbols
         /\ call \in Calls
         /\ resets' = resets
<1>1. ReadToken /\ call \in Calls
  BY DEF Begin, TypeOK
<1> QED
  BY <1>1, ReadTokenTyped DEF Begin, Lookahead, Lexemes

LEMMA ReturnFacts ==
  ASSUME NEW r \in Results, call \in Calls, Return(r)
  PROVE  ret' = r /\ ret' \in Results /\ call' \in Calls \cup {"idle"}
BY DEF Return

\* The record Fail puts into error_info_ is one.
LEMMA FailFacts ==
  ASSUME TypeOK, LookaheadRead, Begin,
         NEW type \in {"LexicalError", "SyntaxError", "InternalError"},
         NEW expected \in SUBSET Symbols, Fail(type, expected)
  PROVE  /\ error_info' = [type |-> type, pos |-> cursor', state |-> state',
                           token |-> token', expected |-> expected]
         /\ error_info' \in [type : {"None", "LexicalError", "SyntaxError", "InternalError"},
                             pos : Nat, state : States \cup {NoState}, token : Tokens,
                             expected : SUBSET Symbols]
         /\ token_used' = FALSE /\ state' = state /\ shifted' = shifted
         /\ ret' = "Error" /\ call' \in Calls \cup {"idle"}
<1>1. cursor' \in Nat /\ token' \in Tokens /\ call \in Calls
  BY BeginFacts, LenProperties
<1>2. state \in States
  BY DEF TypeOK
<1>3. "Error" \in Results
  BY DEF Results
<1> QED
  BY <1>1, <1>2, <1>3, ReturnFacts DEF Fail

\* A lookahead that is decided on and is not for a reduction finds the stack and
\* state_ together: the step after a reduction without a goto reduces.
LEMMA Together ==
  ASSUME EngineInv, Begin,
         SymbolType[Lookahead] = "Error" \/ ~HasAction(state, Lookahead)
           \/ Action(state, Lookahead).type # "Reduce"
  PROVE  state = Top.state
<1>1. ASSUME Popped PROVE FALSE
  <2>1. token' = token
    BY <1>1, KeptToken DEF Popped, Begin
  <2> QED
    BY <1>1, <2>1 DEF Popped, Lookahead
<1> QED
  BY <1>1 DEF EngineInv

\* A step that leaves the stack and state_ as they were together.
LEMMA StackLeft ==
  ASSUME EngineInv, UNCHANGED <<state, stack>>
  PROVE  (PathOf(stack))' /\ (state = Top.state => (state = Top.state)')
BY DEF EngineInv, PathOf, Top, SymbolOf

LEMMA ErrorStep ==
  ASSUME EngineInv, Begin, LexicalError \/ SyntaxError \/ ActionError
  PROVE  EngineInv'
<1> DEFINE type     == CASE SymbolType[Lookahead] = "Error" -> "LexicalError"
                         [] SymbolType[Lookahead] # "Error" /\ ~HasAction(state, Lookahead) -> "SyntaxError"
                         [] OTHER -> "InternalError"
           expected == IF type = "SyntaxError" THEN ExpectedSymbols(state) ELSE {}
<1>1. /\ UNCHANGED <<stack, reduction>> /\ Fail(type, expected)
      /\ SymbolType[Lookahead] = "Error" \/ ~HasAction(state, Lookahead)
           \/ Action(state, Lookahead).type # "Reduce"
  <2>1. CASE LexicalError
    BY <2>1 DEF LexicalError
  <2>2. CASE SyntaxError
    BY <2>2 DEF SyntaxError
  <2>3. CASE ActionError
    BY <2>3 DEF ActionError, Decides
  <2> QED
    BY <2>1, <2>2, <2>3
<1>2. type \in {"LexicalError", "SyntaxError", "InternalError"}
  OBVIOUS
<1>3. expected \in SUBSET Symbols
  BY DEF ExpectedSymbols, OfType
<1>4. /\ text' \in Seq(Lexemes) /\ cursor' \in 0..Len(text') /\ token' \in Tokens
      /\ Lookahead \in Lexemes /\ resets' = resets
  BY BeginFacts DEF EngineInv
<1>5. /\ error_info' = [type |-> type, pos |-> cursor', state |-> state',
                        token |-> token', expected |-> expected]
      /\ error_info' \in [type : {"None", "LexicalError", "SyntaxError", "InternalError"},
                          pos : Nat, state : States \cup {NoState}, token : Tokens, expected : SUBSET Symbols]
      /\ token_used' = FALSE /\ state' = state /\ shifted' = shifted
      /\ ret' = "Error" /\ call' \in Calls \cup {"idle"}
  BY <1>1, <1>2, <1>3, FailFacts DEF EngineInv
<1>6. TypeOK'
  BY <1>1, <1>4, <1>5 DEF EngineInv, TypeOK, Results
<1>7. LookaheadRead'
  BY <1>4 DEF LookaheadRead, Lookahead
<1>8. (PathOf(stack) /\ state = Top.state)'
  BY <1>1, <1>5, Together, StackLeft
<1>9. Final'
  <2>1. CASE SymbolType[Lookahead] = "Error"
    BY <1>5, <2>1 DEF Final, Lookahead
  <2>2. CASE SymbolType[Lookahead] # "Error" /\ ~HasAction(state, Lookahead)
    BY <1>5, <2>2 DEF Final, Lookahead, HasAction, ExpectedSymbols
  <2>3. CASE SymbolType[Lookahead] # "Error" /\ HasAction(state, Lookahead)
    BY <1>5, <2>3 DEF Final
  <2> QED
    BY <2>1, <2>2, <2>3
<1> QED
  BY <1>6, <1>7, <1>8, <1>9 DEF EngineInv

LEMMA ShiftStep ==
  ASSUME EngineInv, Begin, Shift
  PROVE  EngineInv'
<1> DEFINE t  == Action(state, Lookahead).target
           it == [state |-> t, production |-> NoProd, token |-> token']
<1>1. HasAction(state, Lookahead) /\ Action(state, Lookahead).type = "Shift"
      /\ state' = t /\ stack' = Append(stack, it)
      /\ token_used' = TRUE /\ shifted' = Append(shifted, Lookahead)
      /\ UNCHANGED <<reduction, error_info>> /\ Return("Shift")
  BY DEF Shift, Decides, Push
<1>2. /\ text' \in Seq(Lexemes) /\ cursor' \in 0..Len(text') /\ token' \in Tokens
      /\ Lookahead \in Lexemes /\ Lookahead \in Symbols /\ resets' = resets /\ call \in Calls
  BY BeginFacts DEF EngineInv
<1>3. /\ state \in States /\ stack \in Seq(StackItems) /\ stack # <<>> /\ PathOf(stack)
      /\ shifted \in Seq(Lexemes) /\ state = stack[Len(stack)].state
  BY <1>1, Together DEF EngineInv, TypeOK, Top
<1>4. t \in States
  BY <1>1, <1>2, <1>3, TablesTyped
<1>5. it \in StackItems /\ SymbolOf(it) = Lookahead /\ it.state = t
  BY <1>2, <1>4, SymbolOfToken DEF StackItems, Lookahead
<1>6. Edge(stack[Len(stack)].state, SymbolOf(it), it.state)
  BY <1>1, <1>3, <1>5 DEF Edge
<1> HIDE DEF it, t
<1>7. /\ stack' \in Seq(StackItems) /\ stack' # <<>> /\ PathOf(stack')
      /\ stack'[Len(stack')] = it
  BY <1>1, <1>3, <1>5, <1>6, PathPush
<1>8. ret' = "Shift" /\ call' \in Calls \cup {"idle"}
  BY <1>1, <1>2, ReturnFacts DEF Results
<1>9. shifted' \in Seq(Lexemes)
  BY <1>1, <1>2, <1>3, AppendProperties
<1>10. TypeOK'
  BY <1>1, <1>2, <1>4, <1>7, <1>8, <1>9 DEF EngineInv, TypeOK, Results
<1>11. (LookaheadRead /\ state = Top.state)'
  BY <1>1, <1>5, <1>7 DEF LookaheadRead, Top
<1>12. Final' /\ PathOf(stack)'
  BY <1>7, <1>8 DEF Final, PathOf, SymbolOf
<1> QED
  BY <1>10, <1>11, <1>12 DEF EngineInv

\* What a reduction finds when the stack holds its handles.
LEMMA ReduceFinds ==
  ASSUME EngineInv, Begin, Decides("Reduce"), NEW p, p = Action(state, Lookahead).target,
         Holds(p)
  PROVE  /\ p \in ProdIdx /\ Productions[p].head \in Symbols
         /\ Rest(p) \in Seq(StackItems) /\ Rest(p) # <<>> /\ PathOf(Rest(p))
         /\ Exposed(p) \in States
         /\ Handles(p) \in Seq(StackItems)
<1> DEFINE n == Len(stack)
           m == Len(Productions[p].handles)
<1>1. stack \in Seq(StackItems) /\ n \in Nat /\ PathOf(stack) /\ state \in States
      /\ Lookahead \in Symbols
  BY BeginFacts DEF EngineInv, TypeOK
<1>2. p \in ProdIdx /\ m \in Nat /\ Productions[p].head \in Symbols
  <2>1. p \in ProdIdx
    BY <1>1, TablesTyped DEF Decides
  <2>2. Productions[p].handles \in Seq(Symbols) /\ m \in Nat
    BY <2>1, TablesTyped
  <2> HIDE DEF m
  <2>3. Productions[p].head \in Symbols
    BY <2>1, TablesTyped DEF OfType
  <2> QED
    BY <2>1, <2>2, <2>3
<1>3. n - m \in 1..n
  <2>1. m < n
    BY DEF Holds
  <2> HIDE DEF n, m
  <2> QED
    BY <1>1, <1>2, <2>1
<1>4. Rest(p) \in Seq(StackItems) /\ PathOf(Rest(p)) /\ Len(Rest(p)) = n - m
  BY <1>1, <1>3, PathPrefix DEF Rest
<1>5. Rest(p) # <<>> /\ Exposed(p) \in States
  <2>1. Len(Rest(p)) \in 1..Len(Rest(p))
    BY <1>3, <1>4
  <2>2. Rest(p)[Len(Rest(p))] \in StackItems
    BY <1>4, <2>1, ElementOfSeq
  <2> QED
    BY <2>1, <2>2 DEF Exposed, StackItems
<1>6. Handles(p) \in Seq(StackItems)
  <2>1. n - m + 1 \in 1..n + 1 /\ n - m + 1 \in Int /\ n \in Int
    <3> HIDE DEF n, m
    <3> QED
      BY <1>1, <1>2, <1>3
  <2>2. \A i \in (n - m + 1)..n : stack[i] \in StackItems
    BY <1>1, <2>1, ElementOfSeq
  <2> QED
    BY <2>1, <2>2, SubSeqProperties DEF Handles
<1> QED
  BY <1>2, <1>4, <1>5, <1>6

LEMMA ReduceStep ==
  ASSUME EngineInv, Begin, Reduce
  PROVE  EngineInv'
<1> DEFINE p    == Action(state, Lookahead).target
           head == Productions[p].head
           t    == Action(Exposed(p), head).target
           it   == [state |-> t, production |-> p, token |-> NoToken]
<1>1. Decides("Reduce") /\ Holds(p) /\ HasGoto(Exposed(p), head)
      /\ state' = t /\ stack' = Append(Rest(p), it)
      /\ reduction' = [production |-> p, handles |-> Handles(p), head |-> Len(stack')]
      /\ token_used' = FALSE
      /\ UNCHANGED <<error_info, shifted>> /\ Return("Reduce")
  BY DEF Reduce, Push
<1>2. /\ text' \in Seq(Lexemes) /\ cursor' \in 0..Len(text') /\ token' \in Tokens
      /\ Lookahead \in Lexemes /\ resets' = resets /\ call \in Calls
  BY BeginFacts DEF EngineInv
<1>3. /\ p \in ProdIdx /\ head \in Symbols
      /\ Rest(p) \in Seq(StackItems) /\ Rest(p) # <<>> /\ PathOf(Rest(p))
      /\ Exposed(p) \in States
      /\ Handles(p) \in Seq(StackItems)
  BY <1>1, ReduceFinds
<1>4. t \in States
  BY <1>1, <1>3, TablesTyped DEF HasGoto
<1>5. it \in StackItems /\ it.state = t /\ SymbolOf(it) = head
  <2>1. NoToken \in Tokens
    BY DEF NoToken, Tokens
  <2> QED
    BY <1>3, <1>4, <2>1, SymbolOfItem DEF StackItems
<1>6. Edge(Rest(p)[Len(Rest(p))].state, SymbolOf(it), it.state)
  BY <1>1, <1>5 DEF Edge, HasGoto, Exposed
<1> HIDE DEF it, t, head, p
<1>7. /\ stack' \in Seq(StackItems) /\ stack' # <<>> /\ PathOf(stack')
      /\ Len(stack') \in Nat /\ stack'[Len(stack')] = it
  BY <1>1, <1>3, <1>5, <1>6, PathPush
<1>8. ret' = "Reduce" /\ call' \in Calls \cup {"idle"}
  BY <1>1, <1>2, ReturnFacts DEF Results
<1>9. reduction' \in [production : ProdIdx \cup {NoProd}, handles : Seq(StackItems), head : Nat]
  BY <1>1, <1>3, <1>7
<1>10. TypeOK'
  BY <1>1, <1>2, <1>4, <1>7, <1>8, <1>9 DEF EngineInv, TypeOK, Results
<1>11. (LookaheadRead /\ state = Top.state)'
  BY <1>1, <1>2, <1>5, <1>7 DEF LookaheadRead, Lookahead, Top
<1>12. Final' /\ PathOf(stack)'
  BY <1>7, <1>8 DEF Final, PathOf, SymbolOf
<1> QED
  BY <1>10, <1>11, <1>12 DEF EngineInv

\* The handles are popped and state_ is not moved.
LEMMA GotoErrorStep ==
  ASSUME EngineInv, Begin, GotoError
  PROVE  EngineInv'
<1> DEFINE p == Action(state, Lookahead).target
<1>1. /\ Decides("Reduce") /\ Holds(p) /\ stack' = Rest(p)
      /\ reduction' = [reduction EXCEPT !.production = p, !.handles = Handles(p)]
      /\ Fail("InternalError", {})
  BY DEF GotoError
<1>2. /\ text' \in Seq(Lexemes) /\ cursor' \in 0..Len(text') /\ token' \in Tokens
      /\ Lookahead \in Lexemes /\ resets' = resets
  BY BeginFacts DEF EngineInv
<1>3. /\ p \in ProdIdx /\ Handles(p) \in Seq(StackItems)
      /\ Rest(p) \in Seq(StackItems) /\ Rest(p) # <<>> /\ PathOf(Rest(p))
  BY <1>1, ReduceFinds
<1>4. /\ error_info' = [type |-> "InternalError", pos |-> cursor', state |-> state',
                        token |-> token', expected |-> {}]
      /\ error_info' \in [type : {"None", "LexicalError", "SyntaxError", "InternalError"},
                          pos : Nat, state : States \cup {NoState}, token : Tokens, expected : SUBSET Symbols]
      /\ token_used' = FALSE /\ state' = state /\ shifted' = shifted
      /\ ret' = "Error" /\ call' \in Calls \cup {"idle"}
  BY <1>1, FailFacts DEF EngineInv
<1> HIDE DEF p
<1>5. reduction' \in [production : ProdIdx \cup {NoProd}, handles : Seq(StackItems), head : Nat]
  BY <1>1, <1>3 DEF EngineInv, TypeOK
<1>6. TypeOK'
  BY <1>1, <1>2, <1>3, <1>4, <1>5 DEF EngineInv, TypeOK, Results
<1>7. (LookaheadRead /\ PathOf(stack))'
  BY <1>1, <1>2, <1>3 DEF LookaheadRead, Lookahead, PathOf, SymbolOf
<1>8. Popped'
  BY <1>1, <1>4 DEF Popped, InternalError, Decides, Lookahead, HasAction, Action
<1>9. Final'
  BY <1>4 DEF Final
<1> QED
  BY <1>6, <1>7, <1>8, <1>9 DEF EngineInv

LEMMA UnderflowStep ==
  ASSUME EngineInv, Begin, Underflow
  PROVE  EngineInv'
<1>1. /\ Decides("Reduce") /\ token_used' = FALSE /\ ret' = "undefined"
      /\ UNCHANGED <<state, stack, reduction, error_info, shifted, call>>
  BY DEF Underflow, engine
<1>2. /\ text' \in Seq(Lexemes) /\ cursor' \in 0..Len(text') /\ token' \in Tokens
      /\ Lookahead \in Lexemes /\ resets' = resets
  BY BeginFacts DEF EngineInv
<1>3. TypeOK'
  BY <1>1, <1>2 DEF EngineInv, TypeOK
<1>4. (LookaheadRead /\ PathOf(stack))'
  BY <1>1, <1>2, StackLeft DEF LookaheadRead, Lookahead
<1>5. Popped'
  BY <1>1 DEF Popped, Decides, Lookahead, HasAction, Action
<1>6. Final'
  BY <1>1 DEF Final
<1> QED
  BY <1>3, <1>4, <1>5, <1>6 DEF EngineInv

LEMMA AcceptStep ==
  ASSUME EngineInv, Begin, Accept
  PROVE  EngineInv'
<1>1. /\ SymbolType[Lookahead] # "Error" /\ HasAction(state, Lookahead)
      /\ Action(state, Lookahead).type = "Accept"
      /\ token_used' = FALSE
      /\ UNCHANGED <<state, stack, reduction, error_info, shifted>> /\ Return("Accept")
  BY DEF Accept, Decides, engine
<1>2. /\ text' \in Seq(Lexemes) /\ cursor' \in 0..Len(text') /\ token' \in Tokens
      /\ Lookahead \in Lexemes /\ resets' = resets /\ call \in Calls
  BY BeginFacts DEF EngineInv
<1>3. ret' = "Accept" /\ call' \in Calls \cup {"idle"}
  BY <1>1, <1>2, ReturnFacts DEF Results
<1>4. TypeOK'
  BY <1>1, <1>2, <1>3 DEF EngineInv, TypeOK, Results
<1>5. LookaheadRead'
  BY <1>2 DEF LookaheadRead, Lookahead
<1>6. (PathOf(stack) /\ state = Top.state)'
  BY <1>1, Together, StackLeft
<1>7. Final'
  BY <1>1, <1>3 DEF Final, Lookahead, HasAction, Action
<1> QED
  BY <1>4, <1>5, <1>6, <1>7 DEF EngineInv

LEMMA InitEngine == Init => EngineInv
<1> SUFFICES ASSUME Init PROVE EngineInv
  OBVIOUS
<1>1. /\ InitialStack \in Seq(StackItems) /\ InitialStack # <<>> /\ PathOf(InitialStack)
      /\ Len(InitialStack) = 1 /\ InitialStack[1].state = LalrInit
  BY InitialPath
<1>2. LalrInit \in States /\ NoToken \in Tokens
  BY TablesTyped DEF NoToken, Tokens
<1>3. TypeOK
  BY <1>1, <1>2 DEF Init, TypeOK, NoReduction, NoError
<1>4. state = Top.state /\ PathOf(stack)
  BY <1>1 DEF Init, Top
<1>5. Final /\ LookaheadRead
  BY DEF Init, Final, LookaheadRead
<1> QED
  BY <1>3, <1>4, <1>5 DEF EngineInv

LEMMA ResetEngine ==
  ASSUME EngineInv, Load \/ ResetCursor
  PROVE  EngineInv'
<1>1. /\ state' = LalrInit /\ stack' = InitialStack /\ token' = NoToken
      /\ token_used' = TRUE /\ shifted' = <<>> /\ ret' = "none"
      /\ UNCHANGED <<reduction, error_info, call>>
      /\ resets' = resets + 1 /\ cursor' = 0 /\ (text' = <<>> \/ text' = text)
  BY DEF Load, ResetCursor, ResetState
<1>2. /\ InitialStack \in Seq(StackItems) /\ InitialStack # <<>> /\ PathOf(InitialStack)
      /\ Len(InitialStack) = 1 /\ InitialStack[1].state = LalrInit
  BY InitialPath
<1>3. LalrInit \in States /\ NoToken \in Tokens
  BY TablesTyped DEF NoToken, Tokens
<1>4. text' \in Seq(Lexemes) /\ cursor' \in 0..Len(text')
  <2>1. text' \in Seq(Lexemes)
    <3>1. text \in Seq(Lexemes) /\ <<>> \in Seq(Lexemes)
      BY DEF EngineInv, TypeOK
    <3>2. text' = <<>> \/ text' = text
      BY <1>1
    <3> QED
      BY <3>1, <3>2
  <2> QED
    BY <1>1, <2>1, LenProperties
<1>5. TypeOK'
  BY <1>1, <1>2, <1>3, <1>4 DEF EngineInv, TypeOK
<1>6. (state = Top.state /\ PathOf(stack))'
  BY <1>1, <1>2 DEF Top, PathOf, SymbolOf
<1>7. (Final /\ LookaheadRead)'
  BY <1>1 DEF Final, LookaheadRead
<1> QED
  BY <1>5, <1>6, <1>7 DEF EngineInv

LEMMA IdleEngine ==
  ASSUME EngineInv, (\E c \in Calls : Call(c)) \/ UNCHANGED vars
  PROVE  EngineInv'
<1>1. UNCHANGED <<text, cursor, state, stack, token, token_used, reduction, error_info,
                  ret, shifted, resets>>
      /\ call' \in Calls \cup {"idle"}
  BY DEF Call, vars, lexer, engine, EngineInv, TypeOK
<1>2. TypeOK'
  BY <1>1 DEF EngineInv, TypeOK
<1>3. (PathOf(stack))' /\ (state = Top.state => (state = Top.state)')
  BY <1>1, StackLeft
<1>4. (Popped => Popped') /\ Final' /\ LookaheadRead'
  BY <1>1 DEF EngineInv, Popped, Final, LookaheadRead, InternalError, HasAction, Action,
              ExpectedSymbols
<1> QED
  BY <1>2, <1>3, <1>4 DEF EngineInv

LEMMA NextEngine == EngineInv /\ [Next]_vars => EngineInv'
<1> SUFFICES ASSUME EngineInv, [Next]_vars PROVE EngineInv'
  OBVIOUS
<1>1. CASE ParseStep
  <2>1. Begin /\ Act
    BY <1>1 DEF ParseStep
  <2> QED
    BY <2>1, ErrorStep, ShiftStep, ReduceStep, GotoErrorStep, UnderflowStep, AcceptStep DEF Act
<1>2. CASE Load \/ ResetCursor
  BY <1>2, ResetEngine
<1>3. CASE (\E c \in Calls : Call(c)) \/ UNCHANGED vars
  BY <1>3, IdleEngine
<1> QED
  BY <1>1, <1>2, <1>3 DEF Next

THEOREM EngineInvariance == Spec => []EngineInv
BY InitEngine, NextEngine, PTL DEF Spec

\* Every variable keeps to the values its C++ member can hold.
THEOREM TypeCorrect == Spec => []TypeOK
<1>1. EngineInv => TypeOK
  BY DEF EngineInv
<1> QED
  BY <1>1, EngineInvariance, PTL

\* stack_ is always a path of the automaton, and state_ its end but after an internal
\* error, whatever the table says and however often a client calls again: the places
\* in ParseStep that move them move both.
THEOREM StackStaysPath == Spec => []StackIsPath
<1>1. EngineInv => StackIsPath
  BY DEF EngineInv, Popped, PathOf, StackIsPath
<1> QED
  BY <1>1, EngineInvariance, PTL

\* A step of the engine after a final result repeats it.
LEMMA FinalRepeats ==
  ASSUME EngineInv, ParseStep, ret \in {"Accept", "Error"}, ~InternalError
  PROVE  UNCHANGED <<lexer, engine, token, ret>>
<1>1. ReadToken /\ Act
  BY DEF ParseStep, Begin
<1>2. ~token_used
  BY DEF EngineInv, Final
<1>3. UNCHANGED <<text, cursor, token>>
  BY <1>1, <1>2, KeptToken
<1>4. CASE ret = "Accept"
  <2>1. SymbolType[Lookahead] # "Error" /\ HasAction(state, Lookahead)
        /\ Action(state, Lookahead).type = "Accept"
    BY <1>3, <1>4 DEF EngineInv, Final, Lookahead
  <2>2. Accept
    BY <1>1, <2>1 DEF Act, LexicalError, SyntaxError, Shift, Reduce, GotoError, ActionError,
                      Underflow, Decides
  <2> QED
    BY <1>3, <1>4, <2>2 DEF Accept, Return, lexer
<1>5. CASE ret = "Error"
  <2>1. CASE SymbolType[Lookahead] = "Error"
    <3>1. LexicalError
      BY <1>1, <2>1 DEF Act, SyntaxError, Shift, Reduce, GotoError, ActionError, Accept,
                        Underflow, Decides
    <3>2. error_info = [type |-> "LexicalError", pos |-> cursor, state |-> state,
                        token |-> token, expected |-> {}]
      BY <1>3, <1>5, <2>1 DEF EngineInv, Final, Lookahead, InternalError
    <3> QED
      BY <1>3, <1>5, <3>1, <3>2 DEF LexicalError, Fail, Return, lexer, engine
  <2>2. CASE SymbolType[Lookahead] # "Error"
    <3>1. ~HasAction(state, Lookahead)
          /\ error_info = [type |-> "SyntaxError", pos |-> cursor, state |-> state,
                           token |-> token, expected |-> ExpectedSymbols(state)]
      BY <1>3, <1>5, <2>2 DEF EngineInv, Final, Lookahead, InternalError
    <3>2. SyntaxError
      BY <1>1, <2>2, <3>1 DEF Act, LexicalError, Shift, Reduce, GotoError, ActionError,
                              Accept, Underflow, Decides
    <3> QED
      BY <1>3, <1>5, <3>1, <3>2 DEF SyntaxError, Fail, Return, lexer, engine
  <2> QED
    BY <2>1, <2>2
<1> QED
  BY <1>4, <1>5

\* A client that calls again after accept, a lexical or a syntax error gets the same
\* answer and moves nothing, until it loads or resets, whatever the table says.
THEOREM VerdictsStick == Spec => VerdictSticks
<1> DEFINE Sticks == (resets' = resets /\ ret \in {"Accept", "Error"} /\ ~InternalError)
                       => UNCHANGED <<lexer, engine, token, ret>>
<1>1. EngineInv /\ [Next]_vars => [Sticks]_vars
  <2> SUFFICES ASSUME EngineInv, Next, resets' = resets, ret \in {"Accept", "Error"},
                      ~InternalError
               PROVE  UNCHANGED <<lexer, engine, token, ret>>
    BY DEF vars
  <2>1. CASE ParseStep
    BY <2>1, FinalRepeats
  <2>2. CASE \E c \in Calls : Call(c)
    BY <2>2 DEF Call
  <2>3. CASE Load \/ ResetCursor
    <3>1. resets' = resets + 1 /\ resets \in Nat
      BY <2>3 DEF Load, ResetCursor, EngineInv, TypeOK
    <3> QED
      BY <3>1
  <2> QED
    BY <2>1, <2>2, <2>3 DEF Next
<1> QED
  BY <1>1, EngineInvariance, PTL DEF Spec, VerdictSticks
-----------------------------------------------------------------------------
(* The tokens of a text: the lookahead is kept or read anew whatever the   *)
(* automaton does.                                                         *)

LEMMA TokensUnfold ==
  ASSUME NEW lexemes, NEW shown
  PROVE  /\ TokensOf(lexemes, shown)[0] = <<>>
         /\ \A n \in Nat : TokensOf(lexemes, shown)[n + 1] =
              IF lexemes[n + 1] \in Noises THEN TokensOf(lexemes, shown)[n]
              ELSE Append(TokensOf(lexemes, shown)[n], shown[n + 1])
         /\ \A n \in Nat : TokensOf(lexemes, shown)[n] \in Seq({shown[k] : k \in Nat})
<1> DEFINE V    == Seq({shown[k] : k \in Nat})
           step == [m \in (Nat \ {0}) \X V |->
                      IF lexemes[m[1]] \in Noises THEN m[2] ELSE Append(m[2], shown[m[1]])]
           Kept(f) == f = [n \in Nat |-> IF n = 0 THEN <<>>
                                         ELSE IF lexemes[n] \in Noises THEN f[n - 1]
                                              ELSE Append(f[n - 1], shown[n])]
<1>1. <<>> \in V
  OBVIOUS
<1>2. step \in [(Nat \ {0}) \X V -> V]
  OBVIOUS
<1>3. PICK f : Recurs(f, V, <<>>, step)
  <2> HIDE DEF V, step
  <2> QED
    BY <1>1, <1>2, RecursiveFunction
<1>4. Kept(f)
  <2>1. f \in [Nat -> V]
    BY <1>3 DEF Recurs
  <2>2. \A n \in Nat : f[n] = IF n = 0 THEN <<>> ELSE step[<<n, f[n - 1]>>]
    <3> HIDE DEF step, V
    <3> QED
      BY <1>3 DEF Recurs
  <2>3. ASSUME NEW n \in Nat, n # 0
        PROVE  step[<<n, f[n - 1]>>] = IF lexemes[n] \in Noises THEN f[n - 1]
                                       ELSE Append(f[n - 1], shown[n])
    <3>1. n - 1 \in Nat /\ f[n - 1] \in V
      BY <2>1, <2>3
    <3>2. <<n, f[n - 1]>> \in (Nat \ {0}) \X V
      BY <2>3, <3>1
    <3> HIDE DEF V
    <3> QED
      BY <3>2
  <2> HIDE DEF step, V
  <2> QED
    BY <2>1, <2>2, <2>3
<1>5. TokensOf(lexemes, shown) = CHOOSE f1 : Kept(f1)
  BY DEF TokensOf
<1> DEFINE T == TokensOf(lexemes, shown)
<1> HIDE DEF Kept
<1>6. Kept(T)
  BY <1>4, <1>5
<1>7. T = [n \in Nat |-> IF n = 0 THEN <<>>
                        ELSE IF lexemes[n] \in Noises THEN T[n - 1]
                             ELSE Append(T[n - 1], shown[n])]
  BY <1>6 DEF Kept
<1> HIDE DEF T
<1>8. T[0] = <<>>
  BY <1>7
<1>9. ASSUME NEW n \in Nat
      PROVE  T[n + 1] = IF lexemes[n + 1] \in Noises THEN T[n] ELSE Append(T[n], shown[n + 1])
  <2>1. n + 1 \in Nat /\ n + 1 # 0 /\ n + 1 - 1 = n
    OBVIOUS
  <2>2. \A k \in Nat \ {0} : T[k] = IF lexemes[k] \in Noises THEN T[k - 1]
                                   ELSE Append(T[k - 1], shown[k])
    BY <1>7
  <2> QED
    BY <2>1, <2>2
<1>10. \A n \in Nat : T[n] \in V
  <2> DEFINE S == {n \in Nat : T[n] \in V}
  <2>1. 0 \in S
    BY <1>1, <1>8
  <2>2. ASSUME NEW n \in Nat, n \in S PROVE n + 1 \in S
    <3> DEFINE L == {shown[k] : k \in Nat}
    <3>1. shown[n + 1] \in L /\ T[n] \in Seq(L)
      BY <2>2
    <3> HIDE DEF L
    <3>2. Append(T[n], shown[n + 1]) \in Seq(L)
      BY <3>1, AppendProperties
    <3>3. T[n + 1] \in Seq(L)
      BY <1>9, <3>1, <3>2
    <3> QED
      BY <3>3 DEF L
  <2>3. \A n \in Nat : n \in S
    <3> HIDE DEF S
    <3> QED
      BY <2>1, <2>2, Induction
  <2> QED
    BY <2>3
<1> QED
  BY <1>8, <1>9, <1>10 DEF T

\* The tokens among the first n lexemes depend on these only.
LEMMA TokensAgree ==
  ASSUME NEW t, NEW u, NEW f, NEW g, NEW n \in Nat,
         \A k \in 1..n : t[k] = u[k] /\ f[k] = g[k]
  PROVE  TokensOf(t, f)[n] = TokensOf(u, g)[n]
<1> DEFINE S == {m \in Nat : m <= n => TokensOf(t, f)[m] = TokensOf(u, g)[m]}
<1>1. 0 \in S
  BY TokensUnfold
<1>2. ASSUME NEW m \in Nat, m \in S PROVE m + 1 \in S
  <2> SUFFICES ASSUME m + 1 <= n PROVE TokensOf(t, f)[m + 1] = TokensOf(u, g)[m + 1]
    OBVIOUS
  <2>1. m + 1 \in 1..n /\ TokensOf(t, f)[m] = TokensOf(u, g)[m] /\ t[m + 1] = u[m + 1]
        /\ f[m + 1] = g[m + 1]
    BY <1>2
  <2> QED
    BY <2>1, TokensUnfold
<1>3. \A m \in Nat : m \in S
  <2> HIDE DEF S
  <2> QED
    BY <1>1, <1>2, Induction
<1> QED
  BY <1>3

\* Noise adds nothing to the tokens, and the lexeme behind it one.
LEMMA TokensPastNoise ==
  ASSUME NEW t, NEW f, NEW m \in Nat, NEW n \in Nat, m < n,
         \A k \in m + 1..n - 1 : t[k] \in Noises, t[n] \notin Noises
  PROVE  /\ TokensOf(t, f)[n - 1] = TokensOf(t, f)[m]
         /\ TokensOf(t, f)[n] = Append(TokensOf(t, f)[m], f[n])
<1> DEFINE S == {k \in Nat : m + k <= n - 1 => TokensOf(t, f)[m + k] = TokensOf(t, f)[m]}
<1>1. 0 \in S
  OBVIOUS
<1>2. ASSUME NEW k \in Nat, k \in S PROVE k + 1 \in S
  <2> SUFFICES ASSUME m + (k + 1) <= n - 1 PROVE TokensOf(t, f)[m + (k + 1)] = TokensOf(t, f)[m]
    OBVIOUS
  <2>1. m + k \in Nat /\ m + (k + 1) = (m + k) + 1 /\ (m + k) + 1 \in m + 1..n - 1
        /\ TokensOf(t, f)[m + k] = TokensOf(t, f)[m]
    BY <1>2
  <2>2. t[(m + k) + 1] \in Noises
    BY <2>1
  <2>3. TokensOf(t, f)[(m + k) + 1] = TokensOf(t, f)[m + k]
    BY <2>1, <2>2, TokensUnfold
  <2> QED
    BY <2>1, <2>3
<1>3. \A k \in Nat : k \in S
  <2> HIDE DEF S
  <2> QED
    BY <1>1, <1>2, Induction
<1>4. (n - 1) - m \in Nat /\ m + ((n - 1) - m) = n - 1 /\ n - 1 \in Nat /\ (n - 1) + 1 = n
  OBVIOUS
<1>5. TokensOf(t, f)[n - 1] = TokensOf(t, f)[m]
  <2> DEFINE k == (n - 1) - m
  <2>1. k \in Nat /\ m + k = n - 1
    BY <1>4
  <2> HIDE DEF k
  <2> QED
    BY <1>3, <2>1
<1>6. TokensOf(t, f)[(n - 1) + 1] = Append(TokensOf(t, f)[n - 1], f[(n - 1) + 1])
  <2>1. t[(n - 1) + 1] \notin Noises
    BY <1>4
  <2> DEFINE k == n - 1
  <2>2. k \in Nat /\ t[k + 1] \notin Noises
    BY <1>4, <2>1
  <2> HIDE DEF k
  <2>3. TokensOf(t, f)[k + 1] = Append(TokensOf(t, f)[k], f[k + 1])
    BY <2>2, TokensUnfold
  <2> QED
    BY <2>3 DEF k
<1> QED
  BY <1>4, <1>5, <1>6
-----------------------------------------------------------------------------
(* Reading.                                                                *)

\* The lookahead that is kept is the token before cursor.
ReadInv ==
  /\ text \in Seq(Lexemes) /\ cursor \in 0..Len(text) /\ token_used \in BOOLEAN
  /\ ~token_used => /\ cursor \in 1..Len(text)
                    /\ token = [symbol |-> text[cursor], pos |-> cursor]
                    /\ text[cursor] \notin Noises

\* how many lexemes were used up
Used == IF token_used THEN cursor ELSE cursor - 1

\* What was used up was shifted; an error was recorded for the lookahead.
TextInv ==
  /\ ReadInv
  /\ shifted = TokensOf(text, text)[Used]
  /\ ret = "Error" => /\ ~token_used
                      /\ error_info.pos = cursor /\ error_info.token = token

\* what is behind the text is noise and then a token
LEMMA UnseenShape ==
  ASSUME NEW run \in Unseen
  PROVE  /\ run \in Seq(Lexemes) /\ Len(run) \in Nat \ {0}
         /\ run[Len(run)] \notin Noises
         /\ \A k \in 1..Len(run) - 1 : run[k] \in Noises
<1>1. run \in Seq(Lexemes) /\ Len(run) \in Nat \ {0}
  BY UnseenLexemes
<1>2. PICK gap \in NextGaps, x \in NextTokens : run = Append(gap, x)
  BY DEF Unseen
<1>3. x \notin Noises
  BY DEF NextTokens, Eofs, Noises, OfType
<1>4. gap \in Seq(Noises)
  <2>1. CASE AtEof
    BY <2>1 DEF NextGaps
  <2>2. CASE ~AtEof
    <3>1. PICK g \in 0..MaxGap : gap \in [1..g -> Noises]
      BY <2>2 DEF NextGaps, Gaps
    <3>2. g \in Nat
      BY BoundsTyped
    <3> QED
      BY <3>1, <3>2, SeqDef
  <2> QED
    BY <2>1, <2>2
<1>5. Len(run) = Len(gap) + 1 /\ run[Len(gap) + 1] = x
      /\ \A k \in 1..Len(gap) : run[k] = gap[k] /\ gap[k] \in Noises
  BY <1>2, <1>4
<1>6. Len(gap) \in Nat
  BY <1>4
<1> QED
  BY <1>1, <1>3, <1>5, <1>6

\* After ReadToken the lookahead is at hand; the text has grown at most.
LEMMA ReadTokenInv ==
  ASSUME ReadInv, ReadToken
  PROVE  /\ text' \in Seq(Lexemes) /\ cursor' \in 1..Len(text')
         /\ token' = [symbol |-> text'[cursor'], pos |-> cursor']
         /\ text'[cursor'] \notin Noises
         /\ Used \in Nat /\ Used < cursor' /\ Used <= Len(text)
         /\ Len(text) <= Len(text') /\ \A k \in 1..Len(text) : text'[k] = text[k]
         /\ \A k \in Used + 1..cursor' - 1 : text'[k] \in Noises
<1>1. text \in Seq(Lexemes) /\ cursor \in 0..Len(text) /\ Len(text) \in Nat /\ cursor \in Nat
  BY LenProperties DEF ReadInv
<1>2. CASE ~token_used
  <2>1. UNCHANGED <<text, cursor, token>>
    BY <1>2 DEF ReadToken
  <2>2. /\ cursor \in 1..Len(text) /\ token = [symbol |-> text[cursor], pos |-> cursor]
        /\ text[cursor] \notin Noises
    BY <1>2 DEF ReadInv
  <2> QED
    BY <1>1, <1>2, <2>1, <2>2 DEF Used
<1>3. CASE token_used /\ cursor = Len(text)
  <2>1. PICK run \in Unseen :
          /\ text' = text \o run
          /\ cursor' = Len(text')
          /\ token' = [symbol |-> run[Len(run)], pos |-> cursor']
    BY <1>3 DEF ReadToken, ReadNew
  <2>2. /\ run \in Seq(Lexemes) /\ Len(run) \in Nat \ {0}
        /\ run[Len(run)] \notin Noises
        /\ \A k \in 1..Len(run) - 1 : run[k] \in Noises
    BY UnseenShape
  <2> DEFINE u == text \o run
             m == Len(text)
             n == Len(text) + Len(run)
  <2>3. /\ u \in Seq(Lexemes) /\ Len(u) = n
        /\ \A k \in 1..m : u[k] = text[k]
        /\ \A k \in m + 1..n : u[k] = run[k - m]
    BY <1>1, <2>2, ConcatProperties
  <2>4. m \in Nat /\ n \in Nat /\ m < n /\ n - m = Len(run)
    BY <1>1, <2>2
  <2> HIDE DEF u, n
  <2>5. /\ \A k \in m + 1..n - 1 : u[k] \in Noises
        /\ u[n] = run[Len(run)] /\ u[n] \notin Noises
    <3>1. \A k \in m + 1..n - 1 : k \in m + 1..n /\ k - m \in 1..Len(run) - 1
      BY <2>4
    <3>2. n \in m + 1..n
      BY <2>4
    <3> QED
      BY <2>2, <2>3, <2>4, <3>1, <3>2
  <2>6. text' = u /\ cursor' = n /\ n \in 1..Len(u) /\ token' = [symbol |-> u[n], pos |-> n]
    <3>1. text' = u
      BY <2>1 DEF u
    <3> QED
      BY <2>1, <2>3, <2>4, <2>5, <3>1
  <2>7. Used = m
    BY <1>3 DEF Used
  <2> QED
    BY <2>3, <2>4, <2>5, <2>6, <2>7
<1>4. CASE token_used /\ cursor # Len(text)
  <2>1. PICK k \in cursor + 1 .. Len(text) :
          /\ text[k] \notin Noises
          /\ \A j \in cursor + 1 .. k - 1 : text[j] \in Noises
          /\ text' = text
          /\ cursor' = k
          /\ token' = [symbol |-> text[k], pos |-> k]
    BY <1>4 DEF ReadToken, ReadAgain
  <2>2. k \in Nat /\ cursor < k /\ k \in 1..Len(text)
    BY <1>1
  <2>3. Used = cursor
    BY <1>4 DEF Used
  <2> QED
    BY <1>1, <2>1, <2>2, <2>3
<1> QED
  BY <1>2, <1>3, <1>4 DEF ReadInv

\* ... and is the next token behind those that were used up.
LEMMA ReadTokenNext ==
  ASSUME ReadInv, ReadToken, NEW f, NEW g, \A k \in 1..Len(text) : f[k] = g[k]
  PROVE  /\ TokensOf(text', g)[cursor' - 1] = TokensOf(text, f)[Used]
         /\ TokensOf(text', g)[cursor'] = Append(TokensOf(text, f)[Used], g[cursor'])
<1> DEFINE u == text'
           m == Used
           n == cursor'
<1>1. /\ n \in Nat /\ m \in Nat /\ m < n /\ m <= Len(text) /\ Len(text) \in Nat
      /\ u[n] \notin Noises /\ \A k \in m + 1..n - 1 : u[k] \in Noises
      /\ \A k \in 1..Len(text) : u[k] = text[k]
  BY ReadTokenInv, LenProperties DEF ReadInv
<1> HIDE DEF u, m, n
<1>2. TokensOf(u, g)[n - 1] = TokensOf(u, g)[m]
      /\ TokensOf(u, g)[n] = Append(TokensOf(u, g)[m], g[n])
  BY <1>1, TokensPastNoise
<1>3. \A k \in 1..m : u[k] = text[k] /\ g[k] = f[k]
  BY <1>1
<1>4. TokensOf(u, g)[m] = TokensOf(text, f)[m]
  BY <1>1, <1>3, TokensAgree
<1> QED
  BY <1>2, <1>4 DEF u, m, n

\* what every return of ParseStep does about the lookahead
LEMMA ParseStepShape ==
  ASSUME ParseStep
  PROVE  /\ ReadToken
         /\ \/ /\ token_used' = FALSE /\ shifted' = shifted
               /\ ret' = "Error" =>
                    error_info'.pos = cursor' /\ error_info'.token = token'
            \/ token_used' = TRUE /\ shifted' = Append(shifted, Lookahead) /\ ret' = "Shift"
<1>1. ASSUME NEW type, NEW expected, Fail(type, expected)
      PROVE  /\ token_used' = FALSE /\ shifted' = shifted
             /\ error_info'.pos = cursor' /\ error_info'.token = token'
  BY <1>1 DEF Fail
<1>2. CASE LexicalError \/ SyntaxError \/ GotoError \/ ActionError
  BY <1>1, <1>2 DEF ParseStep, Begin, LexicalError, SyntaxError, GotoError, ActionError
<1>3. CASE Shift
  BY <1>3 DEF ParseStep, Begin, Shift, Return
<1>4. CASE Reduce
  BY <1>4 DEF ParseStep, Begin, Reduce, Return
<1>5. CASE Accept
  BY <1>5 DEF ParseStep, Begin, Accept, Return, engine
<1>6. CASE Underflow
  BY <1>6 DEF ParseStep, Begin, Underflow, engine
<1> QED
  BY <1>2, <1>3, <1>4, <1>5, <1>6 DEF ParseStep, Act

LEMMA InitTextInv == Init => TextInv
<1> SUFFICES ASSUME Init PROVE TextInv
  OBVIOUS
<1>1. TokensOf(text, text)[0] = <<>>
  BY TokensUnfold
<1> QED
  BY <1>1 DEF Init, TextInv, ReadInv, Used

\* Load* and ResetCursor go back to the start.
LEMMA ResetReads ==
  ASSUME ReadInv, Load \/ ResetCursor
  PROVE  ReadInv' /\ Used' = 0 /\ shifted' = <<>> /\ ret' = "none"
<1>1. /\ token_used' = TRUE /\ shifted' = <<>> /\ ret' = "none" /\ cursor' = 0
      /\ (text' = <<>> \/ text' = text)
  BY DEF Load, ResetCursor, ResetState
<1>2. text' \in Seq(Lexemes)
  <2>1. text \in Seq(Lexemes) /\ <<>> \in Seq(Lexemes)
    BY DEF ReadInv
  <2> QED
    BY <1>1, <2>1
<1>3. cursor' \in 0..Len(text')
  BY <1>1, <1>2, LenProperties
<1> QED
  BY <1>1, <1>2, <1>3 DEF ReadInv, Used

LEMMA NextTextInv == TextInv /\ [Next]_vars => TextInv'
<1> SUFFICES ASSUME TextInv, [Next]_vars PROVE TextInv'
  OBVIOUS
<1>1. CASE ParseStep
  <2>1. /\ text' \in Seq(Lexemes) /\ cursor' \in 1..Len(text')
        /\ token' = [symbol |-> text'[cursor'], pos |-> cursor']
        /\ text'[cursor'] \notin Noises
        /\ \A k \in 1..Len(text) : text'[k] = text[k]
    BY <1>1, ParseStepShape, ReadTokenInv DEF TextInv
  <2>2. /\ shifted = TokensOf(text', text')[cursor' - 1]
        /\ TokensOf(text', text')[cursor'] = Append(shifted, Lookahead)
    <3>1. ReadInv /\ ReadToken /\ shifted = TokensOf(text, text)[Used]
          /\ Lookahead = text'[cursor']
      BY <1>1, <2>1, ParseStepShape DEF TextInv, Lookahead
    <3> DEFINE u == text'
    <3>2. \A k \in 1..Len(text) : text[k] = u[k]
      BY <2>1
    <3> HIDE DEF u
    <3>3. /\ TokensOf(text', u)[cursor' - 1] = TokensOf(text, text)[Used]
          /\ TokensOf(text', u)[cursor'] = Append(TokensOf(text, text)[Used], u[cursor'])
      BY <3>1, <3>2, ReadTokenNext
    <3> QED
      BY <3>1, <3>3 DEF u
  <2>3. cursor' \in 0..Len(text')
    BY <2>1, LenProperties
  <2>4. CASE /\ token_used' = FALSE /\ shifted' = shifted
             /\ ret' = "Error" => error_info'.pos = cursor' /\ error_info'.token = token'
    BY <2>1, <2>2, <2>3, <2>4 DEF TextInv, ReadInv, Used
  <2>5. CASE token_used' = TRUE /\ shifted' = Append(shifted, Lookahead) /\ ret' = "Shift"
    BY <2>1, <2>2, <2>3, <2>5 DEF TextInv, ReadInv, Used
  <2> QED
    BY <1>1, <2>4, <2>5, ParseStepShape
<1>2. CASE Load \/ ResetCursor
  <2>1. TokensOf(text', text')[0] = <<>>
    BY TokensUnfold
  <2> QED
    BY <1>2, <2>1, ResetReads DEF TextInv
<1>3. CASE (\E c \in Calls : Call(c)) \/ UNCHANGED vars
  <2>1. UNCHANGED <<text, cursor, token, token_used, shifted, ret, error_info>>
    BY <1>3 DEF Call, vars, lexer, engine
  <2> QED
    BY <2>1 DEF TextInv, ReadInv, Used
<1> QED
  BY <1>1, <1>2, <1>3 DEF Next

\* What was read is in place in every reachable state.
THEOREM TextInvariance == Spec => []TextInv
BY InitTextInv, NextTextInv, PTL DEF Spec

\* No token is lost, read twice or put out of order, whatever the table says and
\* however often a client calls again after an accept or an error of any kind:
\* ParseStep reads only when it has used the lookahead up.
THEOREM TextIsConserved == Spec => []TextConserved
<1>1. TextInv => TextConserved
  <2> SUFFICES ASSUME TextInv PROVE TextConserved
    OBVIOUS
  <2>1. /\ text \in Seq(Lexemes) /\ cursor \in Nat /\ token_used \in BOOLEAN
        /\ shifted = TokensOf(text, text)[Used]
    BY LenProperties DEF TextInv, ReadInv
  <2>2. CASE token_used
    <3>1. shifted = TokensOf(text, text)[cursor]
      BY <2>1, <2>2 DEF Used
    <3>2. shifted \in Seq({text[k] : k \in Nat})
      <4>1. TokensOf(text, text)[cursor] \in Seq({text[k] : k \in Nat})
        BY <2>1, TokensUnfold
      <4> QED
        BY <3>1, <4>1
    <3>3. shifted \o <<>> = shifted
      BY <3>2
    <3> QED
      BY <2>2, <3>1, <3>3 DEF TextConserved
  <2>3. CASE ~token_used
    <3>1. /\ cursor \in 1..Len(text) /\ token.symbol = text[cursor]
          /\ text[cursor] \notin Noises /\ shifted = TokensOf(text, text)[cursor - 1]
      BY <2>1, <2>3 DEF TextInv, ReadInv, Used
    <3>2. cursor - 1 \in Nat /\ (cursor - 1) + 1 = cursor
      BY <2>1, <3>1, LenProperties
    <3>3. TokensOf(text, text)[(cursor - 1) + 1] = IF text[(cursor - 1) + 1] \in Noises
            THEN TokensOf(text, text)[cursor - 1]
            ELSE Append(TokensOf(text, text)[cursor - 1], text[(cursor - 1) + 1])
      BY <3>2, TokensUnfold
    <3>4. TokensOf(text, text)[cursor] = Append(shifted, text[cursor])
      BY <3>1, <3>2, <3>3
    <3>5. shifted \in Seq({text[k] : k \in Nat})
      BY <3>1, <3>2, TokensUnfold
    <3>6. Append(shifted, text[cursor]) = shifted \o <<text[cursor]>>
      BY <3>5
    <3> QED
      BY <2>3, <3>1, <3>4, <3>6 DEF TextConserved
  <2> QED
    BY <2>2, <2>3
<1> QED
  BY <1>1, TextInvariance, PTL

\* An error names the first token that was not shifted and the place behind it, in
\* every text and after every reset.
THEOREM ErrorsPointAt == Spec => []ErrorPointsAt
<1>1. TextInv => ErrorPointsAt
  BY DEF TextInv, ReadInv, Used, ErrorPointsAt
<1> QED
  BY <1>1, TextInvariance, PTL
=============================================================================
