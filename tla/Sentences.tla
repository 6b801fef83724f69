------------------------------ MODULE Sentences ------------------------------
(***************************************************************************)
(* The language of a grammar, worked out from its productions alone: the   *)
(* reference the engine's verdicts are compared with.  It knows nothing of *)
(* tables or stacks.  A word is a sequence of terminals.                   *)
(***************************************************************************)
EXTENDS Integers, Sequences, SequencesExt

CONSTANTS Rules,         \* [index -> [head, handles]]
          NonTerminals,
          Terminals,
          Start,
          MaxLen         \* bound on the length of the words

Indices == DOMAIN Rules

\* Where a phrase of symbol x that begins behind position i of word w may end;
\* spans is a set of <<nonterminal, from, to>>.
Reach(spans, w, i, x) ==
  IF x \in NonTerminals THEN {t[3] : t \in {u \in spans : u[1] = x /\ u[2] = i}}
  ELSE {j \in {i + 1} : j <= Len(w) /\ w[j] = x}

Ends(spans, w, i, handles) ==
  FoldLeft(LAMBDA ends, x : UNION {Reach(spans, w, j, x) : j \in ends}, {i}, handles)

\* the least spans that the productions close
RECURSIVE Spans(_, _)
Spans(spans, w) ==
  LET more == UNION {{<<Rules[p].head, i, j>> : j \in Ends(spans, w, i, Rules[p].handles)} :
                       p \in Indices, i \in 0..Len(w)}
  IN IF more = spans THEN spans ELSE Spans(more, w)

SpansOf(w) == Spans({}, w)

IsSentence(w) == <<Start, 0, Len(w)>> \in SpansOf(w)

\* The pairs <<x, i>> for which the rest of w behind i begins some phrase of x:
\* a production whose first handles span a part and whose next handle goes on.
\* (Every nonterminal of the sample grammars has a phrase.)
RECURSIVE Opens(_, _, _)
Opens(open, spans, w) ==
  LET goesOn(x, j) == j = Len(w) \/ <<x, j>> \in open \/ Len(w) \in Reach(spans, w, j, x)
      more == {k \in NonTerminals \X (0..Len(w)) :
                 \E p \in Indices :
                   /\ Rules[p].head = k[1]
                   /\ \E m \in 1..Len(Rules[p].handles) :
                        \E j \in Ends(spans, w, k[2], SubSeq(Rules[p].handles, 1, m - 1)) :
                          goesOn(Rules[p].handles[m], j)}
  IN IF more = open THEN open ELSE Opens(more, spans, w)

IsViable(w) == w = <<>> \/ <<Start, 0>> \in Opens({}, SpansOf(w), w)

\* the words of at most MaxLen terminals that begin a sentence
RECURSIVE Grow(_, _)
Grow(words, n) ==
  IF n = 0 THEN words
  ELSE words \cup Grow({w \in {Append(v, t) : v \in words, t \in Terminals} : IsViable(w)}, n - 1)

ViableWords == Grow({<<>>}, MaxLen)

SentenceWords == {w \in ViableWords : IsSentence(w)}
==============================================================================
