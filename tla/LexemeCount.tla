----------------------------- MODULE LexemeCount -----------------------------
(***************************************************************************)
(* Grammar::SetSingleLexemeSymbol of src/grammar.cpp, the search that      *)
(* decides which terminals can only be written in one way, so that a       *)
(* simplified tree may drop them.  It counts, for every state of the       *)
(* lexer's DFA, the ways there: none, one, or more.  Each action is one    *)
(* turn of one of its three nested loops.                                  *)
(***************************************************************************)
EXTENDS Loader

VARIABLES
  path_counts,    \* path_counts
  left_nodes,     \* left_nodes
  edges,          \* the targets of di that are still to be followed
  left_m_nodes,   \* left_m_nodes
  single_lexeme   \* single_lexeme of the symbols

search_vars == <<path_counts, left_nodes, edges, left_m_nodes, single_lexeme>>
vars == <<loader_vars, search_vars>>

DfaStates == DOMAIN grammar.dfa_states
DfaInit   == grammar.dfa_init

Targets(s) == [i \in DOMAIN grammar.dfa_states[s].edges |-> grammar.dfa_states[s].edges[i].target]

Init == /\ LoaderInit
        /\ path_counts = <<>> /\ single_lexeme = <<>>
        /\ left_nodes = <<>> /\ edges = <<>> /\ left_m_nodes = <<>>

\* LoadBuffer is done with the file and calls ProcessAfterLoad
StartSearch ==
  /\ Stop
  /\ IF verdict' = "processing"
     THEN /\ path_counts' = [s \in DfaStates |-> IF s = DfaInit THEN 1 ELSE 0]
          /\ left_nodes' = <<DfaInit>>
     ELSE UNCHANGED <<path_counts, left_nodes>>
  /\ UNCHANGED <<edges, left_m_nodes, single_lexeme>>

\* pop a state from left_nodes
TakeNode == /\ left_m_nodes = <<>> /\ edges = <<>> /\ left_nodes # <<>>
            /\ edges' = Targets(Last(left_nodes))
            /\ left_nodes' = Front(left_nodes)
            /\ UNCHANGED <<path_counts, left_m_nodes>>

\* look at the next edge: its target has been reached in n ways
Follow(n) == /\ left_m_nodes = <<>> /\ edges # <<>>
             /\ path_counts[Head(edges)] = n
             /\ edges' = Tail(edges)

\* a first way to a state
NewNode == /\ Follow(0)
           /\ path_counts' = [path_counts EXCEPT ![Head(edges)] = 1]
           /\ left_nodes' = Append(left_nodes, Head(edges))
           /\ UNCHANGED left_m_nodes

\* a second one
SecondPath == /\ Follow(1)
              /\ left_m_nodes' = <<Head(edges)>>
              /\ UNCHANGED <<path_counts, left_nodes>>

OldNode == Follow(2) /\ UNCHANGED <<path_counts, left_nodes, left_m_nodes>>

\* mutants: the search does not go on behind a shared state; it never stops there
NoneBehind(m) == <<>>
AllBehind(m)  == Targets(m)

\* what the marking goes on with behind m
GoesOn(m, t) == t # m /\ path_counts[t] # 2

Behind(m) ==
  LET next == Targets(m)
      all[n \in 0..Len(next)] == IF n = 0 THEN <<>>
                                 ELSE IF GoesOn(m, next[n]) THEN Append(all[n - 1], next[n])
                                 ELSE all[n - 1]
  IN all[Len(next)]

\* all that is behind a state with two ways has two ways
MarkShared == /\ left_m_nodes # <<>>
              /\ path_counts' = [path_counts EXCEPT ![Last(left_m_nodes)] = 2]
              /\ left_m_nodes' = Front(left_m_nodes) \o Behind(Last(left_m_nodes))
              /\ UNCHANGED <<left_nodes, edges>>

Searching == left_nodes # <<>> \/ edges # <<>> \/ left_m_nodes # <<>>

\* states with several ways do not count, not even against a symbol
CountsOnce(s) == path_counts[s] = 1

\* the rows that give a symbol one lexeme more; a row that no record has set says 0
LexemeStates(x) == {i \in DfaStates : /\ CountsOnce(grammar.dfa_states[i].index)
                                      /\ grammar.dfa_states[i].accept_symbol = x}

SetSingleLexemes ==
  /\ verdict = "processing" /\ ~Searching
  /\ single_lexeme' = [x \in DOMAIN grammar.symbols |->
                         Cardinality(LexemeStates(grammar.symbols[x].index)) = 1]
  /\ verdict' = "accepted"
  /\ UNCHANGED <<file, pos, v, grammar, path_counts, left_nodes, edges, left_m_nodes>>

Search == TakeNode \/ NewNode \/ SecondPath \/ OldNode \/ MarkShared

Next == \/ (ReadRecord \/ Refuse) /\ UNCHANGED search_vars
        \/ StartSearch
        \/ Search /\ UNCHANGED <<loader_vars, single_lexeme>>
        \/ SetSingleLexemes

Spec == Init /\ [][Next]_vars /\ WF_vars(Next)
-----------------------------------------------------------------------------
(* Properties.                                                             *)

Edges(s, t) == Cardinality({i \in DOMAIN Targets(s) : Targets(s)[i] = t})

\* the number of walks of length k from the initial state to each state; more
\* states than 2 * |DfaStates| edges passes none that fewer edges do not reach
Walks == LET walk[k \in Nat] == [t \in DfaStates |->
               IF k = 0 THEN IF t = DfaInit THEN 1 ELSE 0
               ELSE MapThenSumSet(LAMBDA s : walk[k - 1][s] * Edges(s, t), DfaStates)]
         IN [t \in DfaStates |->
               MapThenSumSet(LAMBDA k : walk[k][t], 0 .. 2 * Cardinality(DfaStates))]

\* the ways to write a symbol, with an edge read as one character
Lexemes(x) == MapThenSumSet(LAMBDA s : Walks[s],
                {s \in DfaStates : grammar.dfa_states[s].accept_symbol = x})

\* When the search has ended the counts are right, whatever the order in which the
\* two work lists took the states, cycles and edges side by side included; and a
\* symbol that can be written in one way has been found.
PathsCounted ==
  verdict = "accepted" =>
    /\ \A s \in DfaStates : path_counts[s] = IF Walks[s] < 2 THEN Walks[s] ELSE 2
    /\ file.whole => \A x \in DOMAIN single_lexeme : Lexemes(x) = 1 => single_lexeme[x]

\* The comment over the search: it finds "terminals having only single lexeme".
OnlySingleLexemes ==
  verdict = "accepted" =>
    \A x \in DOMAIN single_lexeme : single_lexeme[x] => Lexemes(x) = 1

\* LoadBuffer returns for every file, and the search ends on cyclic DFAs too.
LoadReturns == <>(verdict \notin {"loading", "processing"})
=============================================================================
