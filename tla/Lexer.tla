------------------------------- MODULE Lexer -------------------------------
(***************************************************************************)
(* The lexer of src/lexer.cpp on the bytes of a buffer: PeekToken, the     *)
(* loop of ReadToken with its stack of lexical groups, Load* and           *)
(* ResetCursor.  A pointer into the buffer is the number of bytes before   *)
(* it; a lexeme is a pair of them, its end excluded.  Each action is one   *)
(* turn of the loop.                                                       *)
(***************************************************************************)
EXTENDS DfaTables

CONSTANTS Texts,       \* the buffers that are loaded first
          LaterTexts,  \* the buffers that are loaded after them
          Padding,     \* the byte found behind the end of a buffer
          MaxLoads     \* bound on the calls of Load* and ResetCursor

ASSUME TextsTyped == /\ Texts \cup LaterTexts \subseteq Seq(0..255)
                     /\ Padding \in 0..255
                     /\ MaxLoads \in Nat

VARIABLES
  buf,          \* the bytes from buf_ to buf_end_
  buf_cur,      \* buf_cur_
  place,        \* line_ and column_
  group_stack,  \* group_stack_
  token,        \* *token
  reading,      \* ReadToken has not returned
  begun,        \* history: buf_cur when it was called
  stale,        \* history: a group was open when a text was loaded or reset
  loads         \* bound: how often Load* and ResetCursor were called

vars == <<buf, buf_cur, place, group_stack, token, reading, begun, stale, loads>>

Elsewhere == -1   \* a pointer into a buffer loaded before

NoToken == [symbol |-> NoSymbol, from |-> 0, to |-> 0, place |-> <<0, 0>>]

OfType(type) == CHOOSE x \in DOMAIN SymbolType : SymbolType[x] = type
Eof   == OfType("EndOfFile")
Error == OfType("Error")

ByteAt(i) == IF i < Len(buf) THEN buf[i + 1] ELSE Padding
-----------------------------------------------------------------------------
(* PeekToken.                                                              *)

\* the character at i and the pointer behind it; nothing checks that the bytes
\* after the first are in the buffer or continue it
Decode(i) ==
  LET c   == ByteAt(i)
      low == [k \in 1..3 |-> ByteAt(i + k) % 64]
  IN CASE c < 128              -> [char |-> c, next |-> i + 1]
       [] c \in 128..(224 - 1) -> [char |-> (c % 32) * 64 + low[1], next |-> i + 2]
       [] c \in 224..(240 - 1) -> [char |-> (c % 16) * 4096 + low[1] * 64 + low[2], next |-> i + 3]
       [] c >= 240             -> [char |-> 65535, next |-> i + 4]

Lexeme(symbol, to) == [symbol |-> symbol, from |-> buf_cur, to |-> to, place |-> place]

\* *token and buf_peek_
Peeked(lexeme, to) == [lexeme |-> lexeme, buf_peek |-> to]

\* what becomes of a scan that stops at cur, the last accepting state it passed
\* being symbol's and end the place behind it
Found(symbol, end, cur) ==
  CASE symbol # NoSymbol                     -> Peeked(Lexeme(symbol, end), end)
    [] symbol = NoSymbol /\ cur = buf_cur    -> Peeked([Lexeme(Eof, 0) EXCEPT !.from = 0], cur)
    [] symbol = NoSymbol /\ cur # buf_cur    -> Peeked(Lexeme(Error, cur), cur)

\* what the loop keeps: cur, state, hit_symbol and hit_cur, and whether it was left
\* by break
LoopState == [cur : Nat, state : DOMAIN DfaStates, hit_symbol : DOMAIN SymbolType \cup {NoSymbol},
              hit_cur : Nat, broken : BOOLEAN]

\* One turn, while there is a byte left.  A self-loop moves the end only if its
\* character is ASCII.
Turn == [l \in LoopState |->
  LET c    == Decode(l.cur)
      t    == Lookup(l.state, c.char)
      past == [l EXCEPT !.cur = c.next]
  IN IF l.broken \/ l.cur >= Len(buf) THEN l
     ELSE CASE t = NoTarget -> [past EXCEPT !.broken = TRUE]
            [] t = MissLoop -> past
            [] t = HitLoop  -> IF c.char \in Ascii THEN [past EXCEPT !.hit_cur = c.next] ELSE past
            [] OTHER        -> IF DfaStates[t].accept = NoSymbol THEN [past EXCEPT !.state = t]
                               ELSE [past EXCEPT !.state = t, !.hit_symbol = DfaStates[t].accept,
                                                 !.hit_cur = c.next]]

\* the loop; each turn takes a byte at least
Scan ==
  LET loop[n \in Nat] ==
        IF n = 0 THEN [cur |-> buf_cur, state |-> DfaInit, hit_symbol |-> NoSymbol,
                       hit_cur |-> 0, broken |-> FALSE]
        ELSE Turn[loop[n - 1]]
  IN loop

Peek == LET l == Scan[Len(buf)]
        IN Found(l.hit_symbol, l.hit_cur, l.cur)
-----------------------------------------------------------------------------
(* ReadToken.                                                              *)

NewLine == 19   \* the byte that counts as the end of a line: 0x13

\* the place behind a byte
Behind(byte) == [p \in Nat \X Nat |-> IF byte = NewLine THEN <<p[1] + 1, 1>> ELSE <<p[1], p[2] + 1>>]

\* the places behind the bytes, the first of which is at a place
Places(at, bytes) ==
  LET behind[n \in Nat] == IF n = 0 THEN at ELSE Behind(bytes[n])[behind[n - 1]]
  IN behind

Past(at, bytes) == Places(at, bytes)[Len(bytes)]

Bytes(from, to) == [k \in 1..(to - from) |-> ByteAt(from + k - 1)]

\* mutant: a new line does not start a new column
AdvanceKeepsColumn(to) == /\ buf_cur' = to
                          /\ place' = <<Past(place, Bytes(buf_cur, to))[1],
                                        place[2] + to - buf_cur>>

Advance(to) == buf_cur' = to /\ place' = Past(place, Bytes(buf_cur, to))

\* the first group that starts with a symbol
GroupOf(x) == CHOOSE g \in DOMAIN Groups :
                /\ Groups[g].start = x
                /\ \A h \in DOMAIN Groups : Groups[h].start = x => g <= h

Open == Last(group_stack)   \* the innermost group

Nests(x) == /\ SymbolType[x] = "GroupStart"
            /\ group_stack # <<>> => GroupOf(x) \in Groups[Open.group].nesting

Ends(x) == group_stack # <<>> /\ Groups[Open.group].end = x

Return == reading' = FALSE
Continue == reading' = TRUE

IntoNested(t) ==
  /\ Nests(t.lexeme.symbol)
  /\ Advance(t.buf_peek)
  /\ token' = t.lexeme
  /\ group_stack' = Append(group_stack, [group |-> GroupOf(t.lexeme.symbol),
                                         from  |-> t.lexeme.from])
  /\ Continue

PlainToken(t) ==
  /\ group_stack = <<>>
  /\ ~Nests(t.lexeme.symbol)
  /\ Advance(t.buf_peek)
  /\ token' = t.lexeme
  /\ Return /\ UNCHANGED group_stack

\* the token of a group that was closed, from where it started to an end
GroupToken(t, to) ==
  IF Len(group_stack) > 1 THEN t
  ELSE [t EXCEPT !.symbol = Groups[Open.group].container, !.from = Open.from, !.to = to]

\* mutant: the end of an open group is read with it
OutAlwaysAdvances(t) ==
  /\ ~Nests(t.lexeme.symbol) /\ Ends(t.lexeme.symbol)
  /\ Advance(t.buf_peek)
  /\ token' = GroupToken(t.lexeme, IF Groups[Open.group].ending = "Closed"
                                   THEN t.lexeme.to ELSE t.lexeme.from)
  /\ group_stack' = Front(group_stack)
  /\ Return

\* The end of an inner group is returned as a token of its own.
OutOfNested(t) ==
  /\ ~Nests(t.lexeme.symbol) /\ Ends(t.lexeme.symbol)
  /\ IF Groups[Open.group].ending = "Closed"
     THEN Advance(t.buf_peek) /\ token' = GroupToken(t.lexeme, t.lexeme.to)
     ELSE UNCHANGED <<buf_cur, place>> /\ token' = GroupToken(t.lexeme, t.lexeme.from)
  /\ group_stack' = Front(group_stack)
  /\ Return

\* the groups that are open stay on group_stack_
EofInNested(t) ==
  /\ group_stack # <<>>
  /\ ~Ends(t.lexeme.symbol) /\ SymbolType[t.lexeme.symbol] = "EndOfFile"
  /\ token' = t.lexeme
  /\ Return /\ UNCHANGED <<buf_cur, place, group_stack>>

Inside(x) == /\ group_stack # <<>>
             /\ ~Nests(x) /\ ~Ends(x) /\ SymbolType[x] # "EndOfFile"

\* mutants: a group is always passed by whole tokens; the text in it is not passed
InsideByToken(t) == /\ Inside(t.lexeme.symbol) /\ token' = t.lexeme /\ Advance(t.buf_peek)
                    /\ Continue /\ UNCHANGED group_stack

InsideStays(t) == /\ Inside(t.lexeme.symbol) /\ token' = t.lexeme
                  /\ Continue /\ UNCHANGED <<buf_cur, place, group_stack>>

TokenInNested(t) ==
  /\ Inside(t.lexeme.symbol)
  /\ token' = t.lexeme
  /\ Advance(IF Groups[Open.group].advance = "Token" THEN t.buf_peek ELSE buf_cur + 1)
  /\ Continue /\ UNCHANGED group_stack

ReadTurn == /\ reading
            /\ \E t \in {Peek} : \/ IntoNested(t)
                                \/ PlainToken(t)
                                \/ OutOfNested(t)
                                \/ EofInNested(t)
                                \/ TokenInNested(t)
            /\ UNCHANGED <<buf, begun, stale, loads>>
-----------------------------------------------------------------------------
(* The parser's calls.                                                     *)

ReadToken == /\ ~reading
             /\ reading' = TRUE /\ begun' = buf_cur
             /\ UNCHANGED <<buf, buf_cur, place, group_stack, token, stale, loads>>

\* The groups that are open stay so, and with them their pointers.  The token is
\* the parser's, whose ResetState follows.
FromStart == /\ ~reading /\ loads < MaxLoads
             /\ loads' = loads + 1
             /\ buf_cur' = 0 /\ place' = <<1, 1>>
             /\ token' = NoToken /\ begun' = 0
             /\ stale' = (stale \/ group_stack # <<>>)
             /\ UNCHANGED reading

Load == /\ FromStart
        /\ buf' \in LaterTexts
        /\ group_stack' = [i \in DOMAIN group_stack |-> [group_stack[i] EXCEPT !.from = Elsewhere]]

ResetCursor == FromStart /\ UNCHANGED <<buf, group_stack>>

Init == /\ buf \in Texts /\ buf_cur = 0 /\ place = <<1, 1>>
        /\ group_stack = <<>>
        /\ token = NoToken
        /\ reading = FALSE /\ begun = 0
        /\ stale = FALSE /\ loads = 0

Next == ReadTurn \/ ReadToken \/ Load \/ ResetCursor

\* a call runs on the caller's thread until it returns
Spec == Init /\ [][Next]_vars /\ WF_vars(ReadTurn)
-----------------------------------------------------------------------------
(* Properties.                                                             *)

Returned == ~reading /\ token # NoToken

\* The tokens tile the text: each begins where the one before it ended and is not
\* empty, whatever groups were opened and closed in it, and EOF is not read before
\* all the text was.  A group left open by an earlier text is the exception.
TokensTile ==
  Returned /\ ~stale =>
    IF token.symbol = Eof THEN buf_cur >= Len(buf)
    ELSE token.from = begun /\ begun < token.to /\ token.to = buf_cur

\* the symbols that stand for groups
Containers == {Groups[g].container : g \in DOMAIN Groups}

\* the states of the DFA along the text after n characters, with the ends of these
Target(s, c) == {DfaStates[s].edges[i].target : i \in Takes(s, c)}

Paths ==
  LET path[n \in Nat] ==
        IF n = 0 THEN {[end |-> begun, state |-> DfaInit, counts |-> TRUE]}
        ELSE UNION {LET c == Decode(p.end)
                    IN {[end |-> c.next, state |-> t, counts |-> t # p.state \/ c.char \in Ascii] :
                          t \in IF p.end < Len(buf) THEN Target(p.state, c.char) ELSE {}} :
                    p \in path[n - 1]}
  IN path

\* A token in plain text is the longest beginning the edges of the DFA accept, but
\* for characters at its end that are not ASCII and leave the DFA where it is; if
\* they accept none, it is an error.
LongestMatch ==
  LET hits == {p \in UNION {Paths[n] : n \in 0..Len(buf)} :
                 p.counts /\ DfaStates[p.state].accept # NoSymbol}
  IN Returned /\ token.symbol \notin Containers \cup {Eof} /\ token.from = begun =>
       IF hits = {} THEN token.symbol = Error
       ELSE \E h \in hits : /\ \A g \in hits : g.end <= h.end
                            /\ token.to = h.end /\ token.symbol = DfaStates[h.state].accept

\* line_ and column_ are the place of buf_cur_, also after groups and resets, and a
\* token that is no group carries the place where it begins.
PlacesExact ==
  LET Place(n) == Past(<<1, 1>>, Bytes(0, n))
  IN /\ place = Place(buf_cur)
     /\ Returned /\ token.symbol \notin Containers \cup {Eof} => token.place = Place(token.from)

\* After EOF nothing but EOF is read until the next text (LexerProofs; in the runs it
\* is part of LexedParser's LexerAsAssumed).
EofSticks == [][loads' = loads /\ token.symbol = Eof => token'.symbol = Eof]_vars

\* ReadToken returns: each turn that goes on has moved through the text.
ReadReturns == reading ~> ~reading

\* What the comments in the loop say of a token inside a group: it is delayed "until
\* "out of nested"".  Only the end of the text may come earlier.
NoTokenWithinGroup ==
  Returned /\ ~stale /\ token.symbol # Eof => group_stack = <<>>
=============================================================================
