------------------------------ MODULE MCParser ------------------------------
(***************************************************************************)
(* The engine on the tables of the sample grammars.                        *)
(***************************************************************************)
EXTENDS ParserImplements, SampleGrammars

(* The LR(0) items of a table, the start productions in the initial state,
   closed under prediction and carried along the edges <<state, symbol,
   target>>.  The tables are passed as arguments, for TLC to evaluate once. *)
EdgesOf(rows) ==
  UNION {{<<s, x, rows[s][x].target>> :
            x \in {y \in DOMAIN rows[s] : rows[s][y].type \in {"Shift", "Goto"}}} :
           s \in DOMAIN rows}

StartsWith(seq, x) == seq # <<>> /\ seq[1] = x

RECURSIVE CloseItems(_, _, _)
CloseItems(items, rules, edges) ==
  LET rest(it)   == SubSeq(rules[it[2]].handles, it[3] + 1, Len(rules[it[2]].handles))
      predicted  == UNION {{<<it[1], q, 0>> :
                              q \in {r \in DOMAIN rules : StartsWith(rest(it), rules[r].head)}}
                              : it \in items}
      carried    == UNION {{<<e[3], it[2], it[3] + 1>> :
                              e \in {f \in edges : f[1] = it[1] /\ StartsWith(rest(it), f[2])}}
                              : it \in items}
      more       == items \cup predicted \cup carried
  IN IF more = items THEN items ELSE CloseItems(more, rules, edges)

ItemsOf(rules, rows, start) ==
  CloseItems({<<0, p, 0>> : p \in {q \in DOMAIN rules : rules[q].head = start}},
             rules, EdgesOf(rows))

OpItemSet   == ItemsOf(OpRules, OpRows, "E")
ListItemSet == ItemsOf(ListRules, ListRows, "List")

OpItems   == OpItemSet
ListItems == ListItemSet

\* the items of the sample grammars are all of use
ASSUME SampleTablesUseful == TablesUseful

Words == INSTANCE Sentences
  WITH Rules <- Productions, NonTerminals <- OfType({"NonTerminal"}),
       Terminals <- OfType({"Terminal"}), Start <- StartSymbol, MaxLen <- MaxText

\* A token is shifted only when the tokens up to it begin a sentence: LALR
\* tables may reduce on a wrong lookahead but never shift it.
ShiftsViable == shifted \in Words!ViableWords

\* The verdict is the language's: accept on EOF behind a sentence, a syntax error
\* only when no sentence begins with the tokens shifted and the one refused.
VerdictExact ==
  /\ ret = "Accept" => token.symbol \in Eofs /\ shifted \in Words!SentenceWords
  /\ ret = "Error" /\ error_info.type = "SyntaxError" =>
       IF token.symbol \in Eofs THEN shifted \notin Words!SentenceWords
       ELSE Append(shifted, token.symbol) \notin Words!ViableWords

\* Some symbol a syntax error names as expected could have stood there, though the
\* reductions made on the refused token may have lost others.
ExpectedHelps ==
  ret = "Error" /\ error_info.type = "SyntaxError" /\ Len(shifted) < MaxText =>
    \E x \in error_info.expected :
      IF x \in Eofs THEN shifted \in Words!SentenceWords
      ELSE Append(shifted, x) \in Words!ViableWords
=============================================================================
