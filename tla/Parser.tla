------------------------------- MODULE Parser -------------------------------
(***************************************************************************)
(* The LALR engine of src/parser.cpp: Parser::ParseStep, the two loops     *)
(* ParseReduce and ParseAll that a client calls instead of it, Load* and   *)
(* ResetCursor.  The lexer is what the parser sees of it: it hands over    *)
(* the lexemes of a text one after the other, and EOF for ever after the   *)
(* last.  The text is revealed as it is read, so that one behaviour stands *)
(* for every text with the same beginning; after ResetCursor it is read    *)
(* again from its start.  A text that ended inside a group is not: the     *)
(* lexer keeps the group open, finds other lexemes the second time, and    *)
(* counts as having been given another text, by Load.                      *)
(*                                                                         *)
(* Parser::trim_reduction_ is false and has no setter: the branches it     *)
(* guards (kReduceEliminated) are dead code and are left out.  The data    *)
(* pointer of a stack item belongs to the handlers; the modules that model *)
(* handlers keep it beside the stack.                                      *)
(***************************************************************************)
EXTENDS LalrTables

CONSTANTS MaxText,   \* bound on the lexemes of a text
          MaxGap,    \* bound on the noise lexemes between two tokens
          MaxResets  \* bound on the calls of Load* and ResetCursor

ASSUME BoundsTyped == MaxText \in Nat /\ MaxGap \in Nat /\ MaxResets \in Nat

VARIABLES
  text,        \* the lexemes revealed so far
  cursor,      \* how many of them the lexer has handed over
  state,       \* state_
  stack,       \* stack_
  token,       \* token_
  token_used,  \* token_used_
  reduction,   \* reduction_, its head pointer an index of stack
  error_info,  \* error_info_
  call,        \* the client's call in progress, or "idle"
  ret,         \* what the last ParseStep since Load or ResetCursor returned, or
               \* "undefined" if it did what C++ does not define
  shifted,     \* history: the symbols of the tokens shifted, in order
  resets       \* bound: how often Load* and ResetCursor were called

lexer  == <<text, cursor>>
engine == <<state, stack, reduction, error_info, shifted>>
vars   == <<text, cursor, state, stack, token, token_used, reduction, error_info,
            call, ret, shifted, resets>>

Results == {"Accept", "Shift", "Reduce", "Error"}

\* mutant: ParseAll goes on after an error
ReturnsOnAccept == [ParseStep   |-> Results,
                    ParseReduce |-> {"Accept", "Reduce", "Error"},
                    ParseAll    |-> {"Accept"}]

\* the results that end a call: ParseStep returns each, the loops go on
Returns == [ParseStep   |-> Results,
            ParseReduce |-> {"Accept", "Reduce", "Error"},
            ParseAll    |-> {"Accept", "Error"}]
Calls == DOMAIN Returns

NoToken     == [symbol |-> "NULL", pos |-> 0]   \* Token()
NoProd      == -1                               \* production == NULL
NoState     == -1                               \* state == NULL
NoReduction == [production |-> NoProd, handles |-> <<>>, head |-> 0]  \* before any is made
NoError     == [type |-> "None", pos |-> 0, state |-> NoState,        \* ParseErrorInfo()
                token |-> NoToken, expected |-> {}]

\* the symbol a stack item stands for
SymbolOf(item) == IF item.production = NoProd THEN item.token.symbol
                                              ELSE Productions[item.production].head

Top == stack[Len(stack)]
-----------------------------------------------------------------------------
(* The lexer, and Parser::ReadToken, which skips its noise.                *)

AtEof == cursor > 0 /\ text[cursor] \in Eofs

Gaps == UNION {[1..g -> Noises] : g \in 0..MaxGap}

\* what the lexer may find behind the part of the text revealed so far
NextGaps   == IF AtEof THEN {<<>>} ELSE Gaps
NextTokens == IF AtEof THEN Eofs ELSE Lexemes \ Noises
Unseen     == {Append(gap, x) : gap \in NextGaps, x \in NextTokens}

\* mutant: the lexer is left one character behind the token
ReadTooFar == \E run \in Unseen :
  /\ Len(text) + Len(run) <= MaxText \/ run[Len(run)] \in Eofs
  /\ text' = text \o run
  /\ cursor' = Len(text') + 1
  /\ token' = [symbol |-> run[Len(run)], pos |-> cursor']

ReadNew == \E run \in Unseen :
  /\ Len(text) + Len(run) <= MaxText \/ run[Len(run)] \in Eofs
  /\ text' = text \o run
  /\ cursor' = Len(text')
  /\ token' = [symbol |-> run[Len(run)], pos |-> cursor']

\* in a text that is being read again the next token is known
ReadAgain == \E k \in cursor + 1 .. Len(text) :
  /\ text[k] \notin Noises
  /\ \A j \in cursor + 1 .. k - 1 : text[j] \in Noises
  /\ text' = text
  /\ cursor' = k
  /\ token' = [symbol |-> text[k], pos |-> k]

\* the first lines of ParseStep: the lookahead token is read unless it is kept
ReadToken == IF ~token_used THEN UNCHANGED <<text, cursor, token>>
             ELSE IF cursor = Len(text) THEN ReadNew ELSE ReadAgain
-----------------------------------------------------------------------------
(* ParseStep.  It reads the lookahead if it has to (Begin) and then does   *)
(* one of the actions of Act, each for one of its returns, with the primed *)
(* token as the lookahead; the result ends the call or lets the loop run   *)
(* on.                                                                     *)

Return(r) == /\ ret' = r
             /\ call' = IF r \in Returns[call] THEN "idle" ELSE call

Begin == call # "idle" /\ ReadToken /\ UNCHANGED resets

Lookahead == token'.symbol

Decides(type) == /\ SymbolType[Lookahead] # "Error"
                 /\ HasAction(state, Lookahead)
                 /\ Action(state, Lookahead).type = type

\* mutants: error_info_ is not set; the refused token is dropped
FailUnrecorded(type, expected) == /\ token_used' = FALSE
                                  /\ UNCHANGED <<state, error_info, shifted>>
                                  /\ Return("Error")

FailSkips(type, expected) ==
  /\ error_info' = [type |-> type, pos |-> cursor', state |-> state,
                    token |-> token', expected |-> expected]
  /\ token_used' = TRUE
  /\ UNCHANGED <<state, shifted>>
  /\ Return("Error")

\* error_info_ is set, state_ and the lookahead stay as they are
Fail(type, expected) ==
  /\ error_info' = [type |-> type, pos |-> cursor', state |-> state,
                    token |-> token', expected |-> expected]
  /\ token_used' = FALSE
  /\ UNCHANGED <<state, shifted>>
  /\ Return("Error")

\* mutant: state_ is not moved
PushOnly(t, below, p, tok) ==
  /\ state' = state
  /\ stack' = Append(below, [state |-> t, production |-> p, token |-> tok])

\* the automaton goes to state t and pushes an item on what is below
Push(t, below, p, tok) ==
  /\ state' = t
  /\ stack' = Append(below, [state |-> t, production |-> p, token |-> tok])

LexicalError ==
  /\ SymbolType[Lookahead] = "Error"
  /\ UNCHANGED <<stack, reduction>>
  /\ Fail("LexicalError", {})

SyntaxError ==
  /\ SymbolType[Lookahead] # "Error"
  /\ ~HasAction(state, Lookahead)
  /\ UNCHANGED <<stack, reduction>>
  /\ Fail("SyntaxError", ExpectedSymbols(state))

Shift ==
  /\ Decides("Shift")
  /\ Push(Action(state, Lookahead).target, stack, NoProd, token')
  /\ token_used' = TRUE
  /\ shifted' = Append(shifted, Lookahead)
  /\ UNCHANGED <<reduction, error_info>>
  /\ Return("Shift")

\* mutants: one item too few is popped; the handles are taken one item too low
RestPopsLess(p)  == SubSeq(stack, 1, Len(stack) - Len(Productions[p].handles) + 1)
HandlesTooLow(p) == SubSeq(stack, Len(stack) - Len(Productions[p].handles), Len(stack) - 1)

\* the part of the stack a reduction by p leaves, and the part it takes
Rest(p)    == SubSeq(stack, 1, Len(stack) - Len(Productions[p].handles))
Handles(p) == SubSeq(stack, Len(stack) - Len(Productions[p].handles) + 1, Len(stack))

\* mutant: the goto is looked up in the bottom of the stack
ExposedBottom(p) == stack[1].state

\* the state the reduction uncovers
Exposed(p) == Rest(p)[Len(Rest(p))].state

\* there is an item below the handles
Holds(p) == Len(Productions[p].handles) < Len(stack)

Reduce ==
  /\ Decides("Reduce")
  /\ LET p    == Action(state, Lookahead).target
         head == Productions[p].head
     IN /\ Holds(p)
        /\ HasGoto(Exposed(p), head)
        /\ Push(Action(Exposed(p), head).target, Rest(p), p, NoToken)
        /\ reduction' = [production |-> p, handles |-> Handles(p), head |-> Len(stack')]
  /\ token_used' = FALSE
  /\ UNCHANGED <<error_info, shifted>>
  /\ Return("Reduce")

\* The goto entry is missing or is no goto.  The handles are off the stack and
\* recorded in reduction_ by then; state_ still belongs to the old top, so that
\* another call reduces by the same production again, with the items below.
GotoError ==
  /\ Decides("Reduce")
  /\ LET p == Action(state, Lookahead).target
     IN /\ Holds(p)
        /\ ~HasGoto(Exposed(p), Productions[p].head)
        /\ stack' = Rest(p)
        /\ reduction' = [reduction EXCEPT !.production = p, !.handles = Handles(p)]
  /\ Fail("InternalError", {})

\* the action for a token is a goto, which only a nonterminal can have
ActionError ==
  /\ Decides("Goto")
  /\ UNCHANGED <<stack, reduction>>
  /\ Fail("InternalError", {})

Accept ==
  /\ Decides("Accept")
  /\ token_used' = FALSE
  /\ UNCHANGED engine
  /\ Return("Accept")

\* Nothing compares the number of handles with the size of stack_: the iterator in
\* front of begin(), the size that resize is given or back() of what is left is
\* undefined.  Nothing is said of the program from here on.
Underflow ==
  /\ Decides("Reduce")
  /\ ~Holds(Action(state, Lookahead).target)
  /\ token_used' = FALSE
  /\ ret' = "undefined"
  /\ UNCHANGED <<engine, call>>

Act == \/ LexicalError \/ SyntaxError \/ Shift \/ Reduce
       \/ GotoError \/ ActionError \/ Accept \/ Underflow

ParseStep == Begin /\ Act
-----------------------------------------------------------------------------
(* The client.                                                             *)

\* whatever the last call returned
Call(c) == /\ call = "idle"
           /\ call' = c
           /\ UNCHANGED <<lexer, engine, token, token_used, ret, resets>>

InitialStack == <<[state |-> LalrInit, production |-> NoProd, token |-> NoToken]>>

\* mutants: the stack is not emptied; the lookahead of the last text is kept
ResetKeepsStack == /\ state' = LalrInit
                   /\ stack' = stack
                   /\ token' = NoToken
                   /\ token_used' = TRUE
                   /\ shifted' = <<>>
                   /\ ret' = "none"
                   /\ UNCHANGED <<reduction, error_info, call>>

ResetKeepsToken == /\ state' = LalrInit
                   /\ stack' = InitialStack
                   /\ shifted' = <<>>
                   /\ ret' = "none"
                   /\ UNCHANGED <<token, token_used, reduction, error_info, call>>

\* reduction_ and error_info_ keep what they hold
ResetState == /\ state' = LalrInit
              /\ stack' = InitialStack
              /\ token' = NoToken
              /\ token_used' = TRUE
              /\ shifted' = <<>>
              /\ ret' = "none"
              /\ UNCHANGED <<reduction, error_info, call>>

\* LoadString, LoadBuffer and LoadFile: a new text, read from its start
Load == /\ call = "idle"
        /\ resets < MaxResets
        /\ resets' = resets + 1
        /\ text' = <<>> /\ cursor' = 0
        /\ ResetState

ResetCursor == /\ call = "idle"
               /\ resets < MaxResets
               /\ resets' = resets + 1
               /\ cursor' = 0
               /\ UNCHANGED text
               /\ ResetState

\* a parser that was constructed and given its first text
Init == /\ text = <<>> /\ cursor = 0
        /\ state = LalrInit
        /\ stack = InitialStack
        /\ token = NoToken
        /\ token_used = TRUE
        /\ reduction = NoReduction
        /\ error_info = NoError
        /\ call = "idle" /\ ret = "none"
        /\ shifted = <<>>
        /\ resets = 0

Next == \/ ParseStep
        \/ \E c \in Calls : Call(c)
        \/ Load
        \/ ResetCursor

Spec == Init /\ [][Next]_vars
-----------------------------------------------------------------------------
(* Properties.                                                             *)

Tokens == [symbol : Lexemes \cup {"NULL"}, pos : Nat]
StackItems == [state : States, production : ProdIdx \cup {NoProd}, token : Tokens]

\* Every variable keeps to the values its C++ member can hold.
TypeOK ==
  /\ text \in Seq(Lexemes) /\ cursor \in 0..Len(text)
  /\ state \in States
  /\ stack \in Seq(StackItems) /\ stack # <<>>
  /\ token \in Tokens /\ token_used \in BOOLEAN
  /\ reduction \in [production : ProdIdx \cup {NoProd}, handles : Seq(StackItems), head : Nat]
  /\ error_info \in [type : {"None", "LexicalError", "SyntaxError", "InternalError"},
                     pos : Nat, state : States \cup {NoState}, token : Tokens,
                     expected : SUBSET Symbols]
  /\ call \in Calls \cup {"idle"} /\ ret \in Results \cup {"none", "undefined"}
  /\ shifted \in Seq(Lexemes)
  /\ resets \in Nat

InternalError == ret = "Error" /\ error_info.type = "InternalError"

\* The stack is a path of the LALR automaton from its initial state, spelt by
\* the symbols on the stack, and state_ is its end: ParseStep keeps state_ and
\* stack_ apart and must move both on every shift and every reduction.  After an
\* internal error state_ is what it was before the handles were popped; a later call
\* that finds a goto brings both together again.
StackIsPath ==
  /\ stack[1].state = LalrInit
  /\ \A i \in 2..Len(stack) : Edge(stack[i - 1].state, SymbolOf(stack[i]), stack[i].state)
  /\ state = Top.state \/ InternalError \/ ret = "undefined"

\* The handles a reduction hands to the handlers are exactly the right-hand side
\* of its production, whatever was popped: nothing in ParseStep compares them.
HandlesMatch ==
  reduction.production # NoProd =>
    LET p == Productions[reduction.production]
    IN /\ Len(reduction.handles) = Len(p.handles)
       /\ \A i \in 1..Len(p.handles) : SymbolOf(reduction.handles[i]) = p.handles[i]

\* With a well-made table the goto behind a reduction is always there: the two
\* kInternalError branches of the reduction are never taken.
NoInternalError == error_info.type # "InternalError"

\* the tokens among the first lexemes of a text, those that are no noise, each shown
\* as what stands at its place in another sequence
TokensOf(lexemes, shown) ==
  LET kept[n \in Nat] == IF n = 0 THEN <<>>
                         ELSE IF lexemes[n] \in Noises THEN kept[n - 1]
                              ELSE Append(kept[n - 1], shown[n])
  IN kept

\* No token is lost, read twice or put out of order: the tokens shifted, with the
\* lookahead that is kept in token_ while token_used_ is false, are the text read
\* so far without its noise.
TextConserved ==
  shifted \o (IF token_used THEN <<>> ELSE <<token.symbol>>) = TokensOf(text, text)[cursor]

\* An error is reported for the first token that was not shifted, at the place
\* where the lexer stands behind it, also after a reset and in a second text.
ErrorPointsAt ==
  ret = "Error" =>
    /\ error_info.pos \in 1..Len(text)
    /\ error_info.token = [symbol |-> text[error_info.pos], pos |-> error_info.pos]
    /\ shifted = TokensOf(text, text)[error_info.pos - 1]

\* Accept and the errors of the text, lexical and syntax error, are final: a client
\* that calls again before it resets gets the same answer from the same state, and
\* no further token is read.  An internal error is not final: the next call pops
\* more handles and may answer otherwise.
VerdictSticks ==
  [][(resets' = resets /\ ret \in {"Accept", "Error"} /\ ~InternalError)
       => UNCHANGED <<lexer, engine, token, ret>>]_vars
=============================================================================
