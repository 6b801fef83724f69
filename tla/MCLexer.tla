------------------------------ MODULE MCLexer ------------------------------
(***************************************************************************)
(* A lexer with a line comment and a block comment, a string as in         *)
(* json.grm and an identifier with letters beyond ASCII.                   *)
(***************************************************************************)
EXTENDS Lexer

MCSymbolType == [x \in {"EOF", "Error", "Whitespace", "Comment", "NewLine", "//", "/*", "*/",
                        "/", "*", "Id", "String"} |->
  CASE x = "EOF" -> "EndOfFile" [] x = "Error" -> "Error"
    [] x \in {"Whitespace", "Comment", "NewLine"} -> "Noise"
    [] x \in {"//", "/*"} -> "GroupStart" [] x = "*/" -> "GroupEnd" [] OTHER -> "Terminal"]

\* letter, slash, star, new line, other white space, quote, what a string holds
MCCharsets == <<<< <<97, 122>>, <<224, 255>> >>, << <<47, 47>> >>, << <<42, 42>> >>,
                << <<10, 10>> >>, << <<19, 19>>, <<32, 32>> >>, << <<34, 34>> >>,
                << <<32, 33>>, <<35, 65535>> >> >>

DState(accept, edges) ==
  [accept |-> accept, edges |-> [i \in DOMAIN edges |-> [charset |-> edges[i][1],
                                                         target  |-> edges[i][2]]]]

MCDfaStates == <<
  DState(NoSymbol, << <<1, 2>>, <<2, 3>>, <<3, 4>>, <<4, 8>>, <<5, 9>>, <<6, 10>> >>),
  DState("Id", << <<1, 2>> >>),
  DState("/", << <<2, 5>>, <<3, 6>> >>),
  DState("*", << <<2, 7>> >>),
  DState("//", << >>),
  DState("/*", << >>),
  DState("*/", << >>),
  DState("NewLine", << >>),
  DState("Whitespace", << <<5, 9>> >>),
  DState(NoSymbol, << <<6, 11>>, <<7, 10>> >>),
  DState("String", << >>) >>

Group(start, end, advance, ending, nesting) ==
  [container |-> "Comment", start |-> start, end |-> end, advance |-> advance,
   ending |-> ending, nesting |-> nesting]

\* the line comment is passed token by token, the block comment by characters
Comments == <<Group("//", "NewLine", "Token", "Open", {}),
              Group("/*", "*/", "Character", "Closed", {})>>

\* block comments in block comments
NestedComments == <<Group("//", "NewLine", "Token", "Open", {}),
                    Group("/*", "*/", "Character", "Closed", {2})>>

\* a, e with acute accent (two bytes), slash, star, line feed, 0x13, quote
Letters == {<<97>>, <<195, 169>>, <<47>>, <<42>>, <<10>>, <<19>>, <<34>>}

TextsOf(letters, n) == {FlattenSeq(t) : t \in UNION {[1..k -> letters] : k \in 0..n}}

MCTexts    == TextsOf(Letters, 5) \cup TextsOf({<<47>>, <<42>>}, 7)
AgainTexts == TextsOf({<<47>>, <<42>>}, 2) \cup TextsOf({<<97>>, <<10>>}, 1)
NestTexts  == TextsOf({<<47>>, <<42>>}, 6)
WordTexts  == TextsOf({<<97>>, <<195, 169>>}, 3)

\* A comment is its group: a block comment goes to the first end behind its start,
\* wherever the lexer was among the bytes of longer tokens and characters, and is
\* left open only if there is none; a line comment goes to the end of the line and
\* not beyond, unless a string in it is not finished there: it is passed by tokens,
\* and the one in error ends behind the line.  No byte behind the text is passed.
CommentSpan ==
  LET At(i, bytes) == SubSeq(buf, i + 1, i + Len(bytes)) = bytes
      NoEnd(from, to) == \A i \in from + 2 .. to : ~At(i, <<42, 47>>)
  IN Returned /\ ~stale =>
       /\ buf_cur <= Len(buf)
       /\ token.symbol = "Comment" =>
            \/ /\ At(token.from, <<47, 42>>) /\ At(token.to - 2, <<42, 47>>)
               /\ NoEnd(token.from, token.to - 3)
            \/ /\ At(token.from, <<47, 47>>) /\ At(token.to, <<10>>)
               /\ \A i \in token.from .. token.to - 1 : At(i, <<10>>) =>
                    \E j \in token.from .. i : At(j, <<34>>)
       /\ group_stack # <<>> /\ Groups[Open.group].end = "*/" => NoEnd(Open.from, Len(buf) - 2)

\* README.rst: the engine "supports unicode".  A text of letters, ASCII or not, is a
\* single identifier.
WordsWhole == Returned /\ token.symbol = "Id" => token.to = Len(buf)
=============================================================================
