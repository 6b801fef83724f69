--------------------------- MODULE Simplification ---------------------------
(***************************************************************************)
(* Grammar::SetSimplicationRule of src/grammar.cpp: what the loader        *)
(* decides, for each production, about its node in a simplified tree.  The *)
(* flags are public and a client may set two of them itself.               *)
(***************************************************************************)
EXTENDS LalrTables

CONSTANTS SingleLexeme,  \* the symbols with single_lexeme
          SetForward,    \* productions whose sr_forward_child the client sets
          SetMerge       \* productions whose sr_merge_child the client sets

ASSUME RulesTyped == /\ SingleLexeme \subseteq Symbols
                     /\ SetForward \subseteq ProdIdx
                     /\ SetMerge \subseteq ProdIdx

\* how many handles of p are of a type, and how many are effective terminals
Count(p, type) ==
  Cardinality({i \in DOMAIN Productions[p].handles :
                 SymbolType[Productions[p].handles[i]] = type})

Ts(p)  == Count(p, "Terminal")
Nts(p) == Count(p, "NonTerminal")
Its(p) == Cardinality({i \in DOMAIN Productions[p].handles :
                         /\ SymbolType[Productions[p].handles[i]] = "Terminal"
                         /\ Productions[p].handles[i] \notin SingleLexeme})

\* sr_forward_child: the only child that says anything stands for the node
ForwardChild(p) == \/ p \in SetForward
                   \/ Nts(p) = 1 /\ Ts(p) = 0
                   \/ Nts(p) = 0 /\ 1 \in {Its(p), Ts(p)}

\* sr_merge_child
MergeChild(p) == p \in SetMerge

\* sr_listify_recursion
ListifyRecursion(p) ==
  \E i \in DOMAIN Productions[p].handles : Productions[p].handles[i] = Productions[p].head

\* sr_remove_single_lexeme
RemoveSingleLexeme(p) == (Nts(p) > 0 \/ Its(p) > 0) /\ Ts(p) > Its(p)

=============================================================================
