--------------------------- MODULE MCLexedParser ---------------------------
(***************************************************************************)
(* list.grm with block comments, on texts put together from pieces.        *)
(***************************************************************************)
EXTENDS LexedParser, SampleGrammars

CONSTANTS Items, StartSymbol  \* see LalrItems

Engine == INSTANCE MCParser WITH token <- lookahead, resets <- loads, MaxResets <- MaxLoads

CommentedSymbolType ==
  ListTypes @@ ("Comment" :> "Noise") @@ ("/*" :> "GroupStart") @@ ("*/" :> "GroupEnd")

Symbol == 91 :> "[" @@ 93 :> "]" @@ 123 :> "{" @@ 125 :> "}" @@ 44 :> "," @@ 59 :> ";"
Slash == 47
Star  == 42
Space == 32
a == 97
IsLetter(b) == b \in 97..122

\* space, letter, slash, star, and a charset for each symbol
Marks == <<91, 93, 123, 125, 44, 59>>
ListCharsets ==
  << << <<9, 10>>, <<13, 13>>, <<32, 32>> >>, << <<97, 122>> >>, << <<47, 47>> >>, << <<42, 42>> >> >>
    \o [i \in DOMAIN Marks |-> << <<Marks[i], Marks[i]>> >>]

DState(accept, edges) ==
  [accept |-> accept, edges |-> [i \in DOMAIN edges |-> [charset |-> edges[i][1],
                                                         target  |-> edges[i][2]]]]

ListDfaStates ==
  << DState(NoSymbol, << <<1, 2>>, <<2, 3>>, <<3, 4>>, <<4, 6>> >>
                      \o [i \in DOMAIN Marks |-> <<4 + i, 7 + i>>]),
     DState("Whitespace", << <<1, 2>> >>),
     DState("Value", << <<2, 3>> >>),
     DState(NoSymbol, << <<4, 5>> >>),
     DState("/*", << >>),
     DState(NoSymbol, << <<3, 7>> >>),
     DState("*/", << >>) >>
  \o [i \in DOMAIN Marks |-> DState(Symbol[Marks[i]], << >>)]

BlockComment == << [container |-> "Comment", start |-> "/*", end |-> "*/",
                    advance |-> "Character", ending |-> "Closed", nesting |-> {}] >>

Hiding   == <<Slash, Star, Slash, 91, 64, Star, Star, Slash>>
Noise    == {<<Slash, Star, Star, Slash>>, Hiding, <<Space>>}
Pieces   == Noise \cup {<<b>> : b \in DOMAIN Symbol \cup {a, 64}}
LeftOpen == <<Slash, Star>>

Samples == { <<91, a, 44, Space, a, 93>>, <<123, a, 59, a, a, 59, 125, Space>>,
             <<Space, 91, Slash, Star, 93, Star, Slash, Space, a, Space, Space, 93, 93>> }

TheItems == Engine!ListItems

\* No more than MaxGap lexemes of noise one after the other.  Some texts end within a
\* comment, in which the next reading begins.
Sequences(n, pieces) == {FlattenSeq(p) : p \in [1..n -> pieces] \ [1..3 -> Noise]}
OpenTexts == {t \o LeftOpen : t \in UNION {Sequences(n, Pieces \ {Hiding}) : n \in 0..2}}
ListTexts == Samples \cup OpenTexts \cup UNION {Sequences(n, Pieces) : n \in 0..3}
OtherTexts == {<<123, 125>>, <<91, a, 44, a, 93>>, <<91, Slash, Star, a, Star, Slash, 93>>}

\* the tokens in a sequence of bytes: what is in a comment does not count and the
\* letters of a word count once.  The comment that was open at a reset goes on.
TokensIn(bytes) ==
  LET read(t, b) ==
        LET to(where, found) == [where |-> where, tokens |-> t.tokens \o found]
        IN CASE t.where = "slash"                 -> to("comment", <<>>)
             [] t.where \in {"comment", "star"}   ->
                  IF b = Star THEN to("star", <<>>)
                  ELSE IF b = Slash /\ t.where = "star" THEN to("text", <<>>)
                  ELSE to("comment", <<>>)
             [] t.where \in {"text", "word"} /\ IsLetter(b) ->
                  to("word", IF t.where = "word" THEN <<>> ELSE <<"Value">>)
             [] OTHER -> IF b = Slash THEN to("slash", <<>>)
                         ELSE to("text", IF b \in DOMAIN Symbol THEN <<Symbol[b]>>
                                         ELSE IF b = Space THEN <<>> ELSE <<"Error">>)
  IN FoldLeft(read, [where |-> IF stale THEN "comment" ELSE "text", tokens |-> <<>>],
              bytes).tokens

\* What the parser has shifted, with the lookahead it keeps, is what the bytes passed
\* by the lexer spell, each token once; after EOF those are all the bytes.
BytesSpellText ==
  ~reading /\ fetched = <<>> =>
    LET kept == IF token_used THEN <<>> ELSE <<lookahead.symbol>>
    IN /\ SelectSeq(shifted \o kept, LAMBDA x : x # "EOF") = TokensIn(SubSeq(buf, 1, buf_cur))
       /\ kept = <<"EOF">> => buf_cur = Len(buf)

\* The parser on the bytes still is the abstract bottom-up parser.
LexedImplementsDerivation == Engine!ImplementsDerivation
=============================================================================
