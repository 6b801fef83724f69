------------------------------ MODULE LalrItems ------------------------------
(***************************************************************************)
(* What makes a table an LALR table of its grammar: every state carries    *)
(* LR(0) items, productions with a dot, and the edges and actions agree    *)
(* with them.  GOLD Parser Builder computes the items and leaves them out  *)
(* of the .egt file; the engine relies on them without seeing them.        *)
(* Lookahead sets do not matter here: they decide which reduction is made, *)
(* not whether a reduction fits the stack.                                 *)
(***************************************************************************)
EXTENDS LalrTables

CONSTANTS Items,        \* triples <<state, production, dot>>
          StartSymbol   \* the grammar's "Start Symbol"

AllItems == {it \in States \X ProdIdx \X Nat : it[3] <= Len(Productions[it[2]].handles)}

\* an item with the dot behind a symbol comes along the edge of that symbol
EdgesCarryItems ==
  \A it \in Items : it[3] > 0 =>
    \A s \in States, x \in Symbols : Edge(s, x, it[1]) =>
      /\ x = Productions[it[2]].handles[it[3]]
      /\ <<s, it[2], it[3] - 1>> \in Items

\* a production is reduced only where its item is complete ...
ReductionsComplete ==
  \A s \in States, x \in Lexemes :
    HasAction(s, x) /\ Action(s, x).type = "Reduce" =>
      LET p == Action(s, x).target IN <<s, p, Len(Productions[p].handles)>> \in Items

\* ... and where it was begun there is a goto on its head
GotosDefined ==
  \A it \in Items : it[3] = 0 => HasGoto(it[1], Productions[it[2]].head)

\* nothing was read before the initial state
InitBegins == \A it \in Items : it[1] = LalrInit => it[3] = 0

\* acceptance is on EOF, behind the start symbol and nothing else
AcceptsStart ==
  /\ \A s, t \in States, x \in Symbols : Edge(s, x, t) => t # LalrInit
  /\ \A t \in States, y \in Lexemes :
       HasAction(t, y) /\ Action(t, y).type = "Accept" =>
         /\ y \in Eofs
         /\ t # LalrInit
         /\ \A s \in States, x \in Symbols :
              Edge(s, x, t) => s = LalrInit /\ x = StartSymbol

ASSUME ItemsConsistent ==
  /\ Items \subseteq AllItems
  /\ InitBegins
  /\ EdgesCarryItems
  /\ ReductionsComplete
  /\ GotosDefined
  /\ AcceptsStart

\* the start symbol is the head of productions
ASSUME StartTyped == StartSymbol \in OfType({"NonTerminal"})

\* a lexeme has no goto: only nonterminals are heads
ASSUME GotosOfNonterminals ==
  \A s \in States, x \in Lexemes : HasAction(s, x) => Action(s, x).type # "Goto"

(* GOLD leaves nothing in a table that is of no use.  The proof that no token is
   shifted in vain needs this, and nothing else does. *)

\* item it has its dot before symbol x
DotBefore(it, x) == /\ it[3] < Len(Productions[it[2]].handles)
                    /\ Productions[it[2]].handles[it[3] + 1] = x

\* the items that a state has of its own, and with the predictions they make
OwnItems == {it \in Items : \/ it[3] > 0
                            \/ it[1] = LalrInit /\ Productions[it[2]].head = StartSymbol}

WithPredictions(known) ==
  known \cup {it \in Items : /\ it[3] = 0
                             /\ \E by \in known : /\ by[1] = it[1]
                                                  /\ DotBefore(by, Productions[it[2]].head)}

Predicted[n \in Nat] == IF n = 0 THEN OwnItems ELSE WithPredictions(Predicted[n - 1])

\* the symbols that have a phrase, by a tree of at most n productions in depth
WithHeads(known) ==
  known \cup {Productions[p].head : p \in {q \in ProdIdx :
                \A i \in DOMAIN Productions[q].handles : Productions[q].handles[i] \in known}}

Phrased[n \in Nat] == IF n = 0 THEN Lexemes \ Eofs ELSE WithHeads(Phrased[n - 1])

\* a chain of predictions or a tree without repetitions passes no production twice
Phrasal == Phrased[Cardinality(ProdIdx)]

\* each item was predicted, each symbol has a phrase, each shift is an item's
TablesUseful ==
  /\ IsFiniteSet(ProdIdx)
  /\ Items = Predicted[Cardinality(ProdIdx)]
  /\ StartSymbol \in Phrasal
  /\ \A p \in ProdIdx : Productions[p].handles \in Seq(Phrasal)
  /\ \A s \in States, x \in Lexemes : HasAction(s, x) /\ Action(s, x).type = "Shift" =>
       \E it \in Items : it[1] = s /\ DotBefore(it, x)
==============================================================================
