--------------------------- MODULE SampleGrammars ---------------------------
(***************************************************************************)
(* The tables of two grammars under sample/data, read from the .egt files  *)
(* GOLD Parser Builder made of operator.grm and list.grm: values for the   *)
(* constants of LalrTables.  A symbol is its name; productions and states  *)
(* keep their indices.  Each row of the state tables is an 'L' record, its *)
(* actions as (symbol, type, target).                                      *)
(***************************************************************************)
EXTENDS Integers, SequencesExt

Rule(head, handles) == [head |-> head, handles |-> handles]

\* A row read from an 'L' record: (symbol, type, target) entries put one after
\* the other into a map keyed by the symbol, so a repeated symbol keeps the last.
Row(entries) ==
  FoldLeft(LAMBDA row, e : (e[1] :> [type |-> e[2], target |-> e[3]]) @@ row, <<>>, entries)

\* a vector, indexed from 0
Vector(seq) == FoldLeft(LAMBDA v, e : (Cardinality(DOMAIN v) :> e) @@ v, <<>>, seq)

-----------------------------------------------------------------------------
(* operator.grm *)

OpTypes ==
  [x \in {"EOF", "Error", "Whitespace", "-", "(", ")", "*", "/", "+", "Num", "E", "M", "N", "V"} |->
     CASE x = "EOF" -> "EndOfFile" [] x = "Error" -> "Error" [] x = "Whitespace" -> "Noise"
       [] x \in {"E", "M", "N", "V"} -> "NonTerminal" [] OTHER -> "Terminal"]

OpRules == Vector(<<
  Rule("E", <<"E", "+", "M">>),
  Rule("E", <<"E", "-", "M">>),
  Rule("E", <<"M">>),
  Rule("M", <<"M", "*", "N">>),
  Rule("M", <<"M", "/", "N">>),
  Rule("M", <<"N">>),
  Rule("N", <<"-", "V">>),
  Rule("N", <<"V">>),
  Rule("V", <<"Num">>),
  Rule("V", <<"(", "E", ")">>) >>)

OpRows == Vector(<<
  Row(<<<<"-", "Shift", 1>>, <<"(", "Shift", 2>>, <<"Num", "Shift", 3>>, <<"E", "Goto", 4>>,
        <<"M", "Goto", 5>>, <<"N", "Goto", 6>>, <<"V", "Goto", 7>>>>),
  Row(<<<<"(", "Shift", 2>>, <<"Num", "Shift", 3>>, <<"V", "Goto", 8>>>>),
  Row(<<<<"-", "Shift", 1>>, <<"(", "Shift", 2>>, <<"Num", "Shift", 3>>, <<"E", "Goto", 9>>,
        <<"M", "Goto", 5>>, <<"N", "Goto", 6>>, <<"V", "Goto", 7>>>>),
  Row(<<<<"EOF", "Reduce", 8>>, <<"-", "Reduce", 8>>, <<")", "Reduce", 8>>, <<"*", "Reduce", 8>>,
        <<"/", "Reduce", 8>>, <<"+", "Reduce", 8>>>>),
  Row(<<<<"EOF", "Accept", 0>>, <<"-", "Shift", 10>>, <<"+", "Shift", 11>>>>),
  Row(<<<<"*", "Shift", 12>>, <<"/", "Shift", 13>>, <<"EOF", "Reduce", 2>>, <<"-", "Reduce", 2>>,
        <<")", "Reduce", 2>>, <<"+", "Reduce", 2>>>>),
  Row(<<<<"EOF", "Reduce", 5>>, <<"-", "Reduce", 5>>, <<")", "Reduce", 5>>, <<"*", "Reduce", 5>>,
        <<"/", "Reduce", 5>>, <<"+", "Reduce", 5>>>>),
  Row(<<<<"EOF", "Reduce", 7>>, <<"-", "Reduce", 7>>, <<")", "Reduce", 7>>, <<"*", "Reduce", 7>>,
        <<"/", "Reduce", 7>>, <<"+", "Reduce", 7>>>>),
  Row(<<<<"EOF", "Reduce", 6>>, <<"-", "Reduce", 6>>, <<")", "Reduce", 6>>, <<"*", "Reduce", 6>>,
        <<"/", "Reduce", 6>>, <<"+", "Reduce", 6>>>>),
  Row(<<<<"-", "Shift", 10>>, <<")", "Shift", 14>>, <<"+", "Shift", 11>>>>),
  Row(<<<<"-", "Shift", 1>>, <<"(", "Shift", 2>>, <<"Num", "Shift", 3>>, <<"M", "Goto", 15>>,
        <<"N", "Goto", 6>>, <<"V", "Goto", 7>>>>),
  Row(<<<<"-", "Shift", 1>>, <<"(", "Shift", 2>>, <<"Num", "Shift", 3>>, <<"M", "Goto", 16>>,
        <<"N", "Goto", 6>>, <<"V", "Goto", 7>>>>),
  Row(<<<<"-", "Shift", 1>>, <<"(", "Shift", 2>>, <<"Num", "Shift", 3>>, <<"N", "Goto", 17>>,
        <<"V", "Goto", 7>>>>),
  Row(<<<<"-", "Shift", 1>>, <<"(", "Shift", 2>>, <<"Num", "Shift", 3>>, <<"N", "Goto", 18>>,
        <<"V", "Goto", 7>>>>),
  Row(<<<<"EOF", "Reduce", 9>>, <<"-", "Reduce", 9>>, <<")", "Reduce", 9>>, <<"*", "Reduce", 9>>,
        <<"/", "Reduce", 9>>, <<"+", "Reduce", 9>>>>),
  Row(<<<<"*", "Shift", 12>>, <<"/", "Shift", 13>>, <<"EOF", "Reduce", 1>>, <<"-", "Reduce", 1>>,
        <<")", "Reduce", 1>>, <<"+", "Reduce", 1>>>>),
  Row(<<<<"*", "Shift", 12>>, <<"/", "Shift", 13>>, <<"EOF", "Reduce", 0>>, <<"-", "Reduce", 0>>,
        <<")", "Reduce", 0>>, <<"+", "Reduce", 0>>>>),
  Row(<<<<"EOF", "Reduce", 3>>, <<"-", "Reduce", 3>>, <<")", "Reduce", 3>>, <<"*", "Reduce", 3>>,
        <<"/", "Reduce", 3>>, <<"+", "Reduce", 3>>>>),
  Row(<<<<"EOF", "Reduce", 4>>, <<"-", "Reduce", 4>>, <<")", "Reduce", 4>>, <<"*", "Reduce", 4>>,
        <<"/", "Reduce", 4>>, <<"+", "Reduce", 4>>>>) >>)

-----------------------------------------------------------------------------
(* list.grm *)

ListTypes ==
  [x \in {"EOF", "Error", "Whitespace", ",", ";", "[", "]", "{", "}", "Value", "List", "List1",
          "List2"} |->
     CASE x = "EOF" -> "EndOfFile" [] x = "Error" -> "Error" [] x = "Whitespace" -> "Noise"
       [] x \in {"List", "List1", "List2"} -> "NonTerminal" [] OTHER -> "Terminal"]

ListRules == Vector(<<
  Rule("List", <<"[", "List1", "]">>),
  Rule("List", <<"{", "List2", "}">>),
  Rule("List1", <<"List1", ",", "Value">>),
  Rule("List1", <<"Value">>),
  Rule("List2", <<"List2", "Value", ";">>),
  Rule("List2", <<>>) >>)

ListRows == Vector(<<
  Row(<<<<"[", "Shift", 1>>, <<"{", "Shift", 2>>, <<"List", "Goto", 3>>>>),
  Row(<<<<"Value", "Shift", 4>>, <<"List1", "Goto", 5>>>>),
  Row(<<<<"List2", "Goto", 6>>, <<"}", "Reduce", 5>>, <<"Value", "Reduce", 5>>>>),
  Row(<<<<"EOF", "Accept", 0>>>>),
  Row(<<<<",", "Reduce", 3>>, <<"]", "Reduce", 3>>>>),
  Row(<<<<",", "Shift", 7>>, <<"]", "Shift", 8>>>>),
  Row(<<<<"}", "Shift", 9>>, <<"Value", "Shift", 10>>>>),
  Row(<<<<"Value", "Shift", 11>>>>),
  Row(<<<<"EOF", "Reduce", 0>>>>),
  Row(<<<<"EOF", "Reduce", 1>>>>),
  Row(<<<<";", "Shift", 12>>>>),
  Row(<<<<",", "Reduce", 2>>, <<"]", "Reduce", 2>>>>),
  Row(<<<<"}", "Reduce", 4>>, <<"Value", "Reduce", 4>>>>) >>)

-----------------------------------------------------------------------------
(* The names a .cfg gives to the constants.  TLC evaluates a definition that *)
(* a .cfg names at every use, and one that such a definition refers to once. *)

OpSymbolType  == OpTypes
OpProductions == OpRules
OpLalrStates  == OpRows

ListSymbolType  == ListTypes
ListProductions == ListRules
ListLalrStates  == ListRows

=============================================================================
