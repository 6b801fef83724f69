----------------------------- MODULE LalrTables -----------------------------
(***************************************************************************)
(* The grammar tables the parser engine interprets: the part of Grammar    *)
(* (include/cppauparser/grammar.h) that Parser reads.  A table is produced *)
(* by GOLD Parser Builder, loaded from an .egt file and never changed by   *)
(* the parser, so it is a constant here.  A symbol stands for its index;   *)
(* productions and LALR states keep their indices.                         *)
(***************************************************************************)
EXTENDS Integers, Sequences, FiniteSets

CONSTANTS SymbolType,    \* [symbol -> SymbolTypes]
          Productions,   \* [index -> [head, handles]]
          LalrStates,    \* [index -> [some symbols -> [type, target]]]
          LalrInit       \* index of the initial LALR state

SymbolTypes == {"NonTerminal", "Terminal", "Noise", "EndOfFile",
                "GroupStart", "GroupEnd", "Decremented", "Error"}

ActionTypes == {"Shift", "Reduce", "Goto", "Accept"}

Symbols == DOMAIN SymbolType
ProdIdx == DOMAIN Productions
States  == DOMAIN LalrStates

OfType(types) == {s \in Symbols : SymbolType[s] \in types}

\* what the lexer can hand over: every symbol that is not a nonterminal
Lexemes == {s \in Symbols : SymbolType[s] # "NonTerminal"}
Noises  == OfType({"Noise"})
Eofs    == OfType({"EndOfFile"})

\* jmp_table of a state, a NULL entry being a symbol outside the row's domain
HasAction(s, x) == x \in DOMAIN LalrStates[s]
Action(s, x)    == LalrStates[s][x]

\* the edge of the automaton a shift or a goto follows
Edge(s, x, t) == /\ HasAction(s, x)
                 /\ Action(s, x).type \in {"Shift", "Goto"}
                 /\ Action(s, x).target = t

\* mutant: the type of the entry found for the head is not looked at
AnyEntry(s, x) == HasAction(s, x)

HasGoto(s, x) == HasAction(s, x) /\ Action(s, x).type = "Goto"

\* mutant: the terminals are forgotten
ExpectedButTerminals(s) ==
  DOMAIN LalrStates[s] \cap OfType({"EndOfFile", "GroupStart", "GroupEnd"})

\* the symbols a syntax error in state s reports as expected
ExpectedSymbols(s) ==
  DOMAIN LalrStates[s] \cap OfType({"Terminal", "EndOfFile", "GroupStart", "GroupEnd"})

\* What GOLD Parser Builder guarantees of the indices in a table.  Nothing in
\* Grammar::LoadBuffer checks it.
ASSUME TablesTyped ==
  /\ SymbolType \in [Symbols -> SymbolTypes]
  /\ ProdIdx \subseteq Nat
  /\ \A p \in ProdIdx : /\ Productions[p].head \in OfType({"NonTerminal"})
                        /\ Productions[p].handles \in Seq(Symbols)
  /\ LalrInit \in States
  /\ \A s \in States : /\ DOMAIN LalrStates[s] \subseteq Symbols
                       /\ \A x \in DOMAIN LalrStates[s] :
                            Action(s, x).type \in ActionTypes
  /\ \A s \in States, x \in Symbols : HasAction(s, x) =>
       /\ Action(s, x).type \in {"Shift", "Goto"} => Action(s, x).target \in States
       /\ Action(s, x).type = "Reduce" => Action(s, x).target \in ProdIdx
       /\ Action(s, x).type = "Shift" => x \in Lexemes \ Eofs
=============================================================================
