---------------------------- MODULE LexedParser ----------------------------
(***************************************************************************)
(* The parser on the bytes of a buffer: src/parser.cpp with the lexer of   *)
(* src/lexer.cpp inside it.  Parser::ReadToken calls the lexer until the   *)
(* token is no noise; Load* and ResetCursor set both back.  What Parser    *)
(* leaves open, which lexemes come, is settled here by the buffer; it has  *)
(* to be what Parser allows.                                               *)
(***************************************************************************)
EXTENDS Lexer

CONSTANTS Productions, LalrStates, LalrInit, MaxText, MaxGap  \* see Parser

VARIABLES text, cursor, state, stack, token_used, reduction, error_info,
          call, ret, shifted,   \* see Parser
          lookahead,            \* token_ of the parser
          fetched               \* the symbols of the lexemes that this call of
                                \* Parser::ReadToken has got

\* what GOLD Parser Builder guarantees: no nonterminal is text or stands for a group
ASSUME LexemesTyped ==
  /\ \A s \in DOMAIN DfaStates : DfaStates[s].accept # NoSymbol =>
       SymbolType[DfaStates[s].accept] # "NonTerminal"
  /\ \A g \in DOMAIN Groups : SymbolType[Groups[g].container] # "NonTerminal"

ASSUME GapTyped == MaxGap \in Nat

Parse == INSTANCE Parser WITH token <- lookahead, resets <- loads, MaxResets <- MaxLoads

parserVars == <<text, cursor, state, stack, token_used, reduction, error_info,
                call, ret, shifted, lookahead>>
lexerVars  == <<buf, buf_cur, place, group_stack, token, reading, begun, stale>>
lexedVars  == <<parserVars, lexerVars, loads, fetched>>

\* mutant: noise is handed to the parser
ReadsOnce == fetched = <<>>

\* Parser::ReadToken goes on as long as it gets noise
Skipping == \A i \in DOMAIN fetched : SymbolType[fetched[i]] = "Noise"

\* ParseStep needs a token that is not there yet
Awaiting == call # "idle" /\ token_used /\ Skipping

NextLexeme == /\ Awaiting
              /\ ReadToken
              /\ UNCHANGED <<parserVars, fetched>>

LexerTurn == /\ ReadTurn
             /\ fetched' = IF reading' THEN fetched ELSE Append(fetched, token'.symbol)
             /\ UNCHANGED parserVars

\* What was fetched stands in the text behind cursor, and its last lexeme is the
\* token.  No variable of the code is text or cursor, which are the text as Parser
\* imagines it.
TakeToken ==
  IF ~token_used THEN UNCHANGED <<text, cursor, lookahead>>
  ELSE /\ text' = SubSeq(text, 1, cursor) \o fetched
                    \o SubSeq(text, cursor + Len(fetched) + 1, Len(text))
       /\ cursor' = cursor + Len(fetched)
       /\ lookahead' = [symbol |-> Last(fetched), pos |-> cursor']

\* ParseStep on whatever the lexer gave
ParserStep == /\ call # "idle" /\ ~Awaiting
              /\ TakeToken
              /\ Parse!Act
              /\ fetched' = <<>>
              /\ UNCHANGED <<lexerVars, loads>>

CallParser == /\ \E c \in Parse!Calls : Parse!Call(c)
              /\ UNCHANGED <<lexerVars, fetched>>

LoadBoth == Load /\ Parse!Load /\ UNCHANGED fetched

\* mutant: the lexer stays where it is
ResetParserOnly == Parse!ResetCursor /\ UNCHANGED <<lexerVars, fetched>>

\* Lexer::ResetCursor keeps group_stack_.  If a group was left open the lexer starts
\* within it and finds other lexemes in the same bytes, which to Parser are another text.
ResetBoth == /\ ResetCursor
             /\ IF stale' THEN Parse!Load ELSE Parse!ResetCursor
             /\ UNCHANGED fetched

LexedInit == Init /\ Parse!Init /\ fetched = <<>>

LexedNext == NextLexeme \/ LexerTurn \/ ParserStep \/ CallParser \/ LoadBoth \/ ResetBoth

\* a call runs on the caller's thread until it returns
LexedSpec == /\ LexedInit /\ [][LexedNext]_lexedVars
             /\ WF_lexedVars(NextLexeme \/ LexerTurn \/ ParserStep)
-----------------------------------------------------------------------------
(* Properties.                                                             *)

\* The lexer hands over what Parser takes for granted: EOF is the last lexeme and
\* only the last, noise comes to an end, and in a text that is read again after
\* ResetCursor the lexemes are those of the first reading, one for one.  A text that
\* was left inside a group is not read again in this sense: ResetBoth begins another.
LexerAsAssumed ==
  call # "idle" /\ token_used /\ ~Skipping =>
    IF cursor = Len(text) THEN fetched \in Parse!Unseen
    ELSE fetched = SubSeq(text, cursor + 1, cursor + Len(fetched))

\* what Parser is bounded by: the noise between two tokens and the lexemes of a text
WithinBounds ==
  fetched # <<>> => /\ Len(fetched) <= MaxGap + 1
                    /\ cursor + Len(fetched) <= MaxText \/ Last(fetched) \in Parse!Eofs

\* Lexer and parser together do only what Parser allows an engine that is handed the
\* lexemes of a text: the token is taken as the lexer left it, and that it is one
\* Parser may read, in a new text and after a reset, is up to the lexer.
LexedImplementsParser == Parse!Spec

\* A call of the parser returns on every buffer: the groups, the noise, the tokens
\* and the reductions between them all come to an end.
LexedCallReturns == call # "idle" ~> call = "idle"
=============================================================================
