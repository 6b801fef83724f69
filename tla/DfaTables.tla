----------------------------- MODULE DfaTables -----------------------------
(***************************************************************************)
(* The tables the lexer interprets: the DFA of an .egt file, and what      *)
(* Grammar::BuildDFALookup of src/grammar.cpp makes of its edges: for each *)
(* state an array for the ASCII characters and a list of ranges, sorted,   *)
(* for the others.                                                         *)
(***************************************************************************)
EXTENDS Integers, SequencesExt

CONSTANTS Charsets,    \* [index -> the ranges, as a sequence of <<first, last>>]
          DfaStates,   \* [index -> [accept, edges : a sequence of [charset, target]]]
          DfaInit,     \* dfa_init
          SymbolType,  \* [symbol -> the type of the symbol]
          Groups       \* [index -> [container, start, end, advance, ending, nesting]]

NoSymbol == "none"   \* accept_symbol == -1

Ascii == 0..127

CharIn(c, charset) == \E i \in DOMAIN Charsets[charset] :
                        Charsets[charset][i][1] <= c /\ c <= Charsets[charset][i][2]

\* the edges of s that take c
Takes(s, c) == {i \in DOMAIN DfaStates[s].edges : CharIn(c, DfaStates[s].edges[i].charset)}

\* what GOLD Parser Builder guarantees of them: indices are valid, no two edges
\* of a state take the same character, the lexer starts in no accepting state,
\* the end of the text is no text and neither ends a group nor stands for one,
\* and every symbol that starts a group has its group
ASSUME DfaTyped ==
  /\ Charsets \in [DOMAIN Charsets -> Seq(Nat \X Nat)]
  /\ DfaStates \in [DOMAIN DfaStates ->
       [accept : DOMAIN SymbolType \cup {NoSymbol},
        edges  : Seq([charset : DOMAIN Charsets, target : DOMAIN DfaStates \cap Nat])]]
  /\ DfaInit \in DOMAIN DfaStates
  /\ DfaStates[DfaInit].accept = NoSymbol
  /\ \A s \in DOMAIN DfaStates :
       LET es == DfaStates[s].edges
       IN \A i, j \in DOMAIN es : i # j =>
            \A a \in ToSet(Charsets[es[i].charset]), b \in ToSet(Charsets[es[j].charset]) :
              a[2] < b[1] \/ b[2] < a[1]

ASSUME SymbolsTyped ==
  /\ NoSymbol \notin DOMAIN SymbolType
  /\ \A type \in {"EndOfFile", "Error"} : \E x \in DOMAIN SymbolType : SymbolType[x] = type
  /\ \A s \in DOMAIN DfaStates : DfaStates[s].accept # NoSymbol =>
       SymbolType[DfaStates[s].accept] # "EndOfFile"

ASSUME GroupsTyped ==
  /\ DOMAIN Groups \subseteq Nat
  /\ \A g \in DOMAIN Groups :
       /\ {Groups[g].container, Groups[g].end} \subseteq DOMAIN SymbolType
       /\ "EndOfFile" \notin {SymbolType[Groups[g].container], SymbolType[Groups[g].end]}
  /\ \A x \in DOMAIN SymbolType : SymbolType[x] = "GroupStart" =>
       \E g \in DOMAIN Groups : Groups[g].start = x

\* The entry for an edge of s: a self-loop is marked by one of two codes.
NoTarget == -1
HitLoop  == -2
MissLoop == -3

Entry(s, edge) == IF edge.target # s THEN edge.target
                  ELSE IF DfaStates[s].accept # NoSymbol THEN HitLoop ELSE MissLoop

\* a later edge overwrites the entries of an earlier one
jmp_table == [s \in DOMAIN DfaStates |-> [c \in Ascii |->
  IF Takes(s, c) = {} THEN NoTarget ELSE Entry(s, DfaStates[s].edges[Max(Takes(s, c))])]]

\* what an edge of s adds to jmp_ranges: the ranges whose end (1 the first character,
\* 2 the last) is beyond ASCII
JmpRanges(s, edge, end) ==
  {[from |-> IF r[1] < 128 THEN 128 ELSE r[1], to |-> r[2], target |-> Entry(s, edge)] :
     r \in {q \in ToSet(Charsets[edge.charset]) : q[end] >= 128}}

\* mutants: a range that begins in ASCII is left out
WholeRanges == [s \in DOMAIN DfaStates |->
  UNION {JmpRanges(s, edge, 1) : edge \in ToSet(DfaStates[s].edges)}]

jmp_ranges == [s \in DOMAIN DfaStates |->
  UNION {JmpRanges(s, edge, 2) : edge \in ToSet(DfaStates[s].edges)}]

\* PeekToken's two look-ups; jmp_ranges is sorted and searched from the front
Lookup(s, c) ==
  IF c \in Ascii THEN jmp_table[s][c]
  ELSE LET found == {r \in jmp_ranges[s] : r.from <= c /\ c <= r.to}
       IN IF found = {} THEN NoTarget
          ELSE (CHOOSE r \in found : \A q \in found : r.from <= q.from).target
=============================================================================
