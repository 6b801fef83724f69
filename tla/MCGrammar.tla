----------------------------- MODULE MCGrammar -----------------------------
(***************************************************************************)
(* Loading the files of all small DFAs, of an identifier's, and of a       *)
(* grammar with something of everything: whole, with the records in        *)
(* another order, cut short, and with a record that is not understood.     *)
(***************************************************************************)
EXTENDS LexemeCount, EgtFile

HeaderUnits == <<71, 79, 76, 68>>   \* stands for the whole of it

Vec(seq) == [i \in 0 .. Len(seq) - 1 |-> seq[i + 1]]
Named(name, type) == [name |-> name, type |-> type]
Edge(c, t) == [charset |-> c, target |-> t]

Base == [properties |-> <<>>,
         charsets |-> Vec(<<[uniplane |-> 0, ranges |-> <<<<65, 90>>, <<97, 122>>>>]>>),
         symbols |-> Vec(<<Named(<<69>>, 3), Named(<<82>>, 7), Named(<<120>>, 1)>>),
         symbol_groups |-> <<>>, productions |-> <<>>, lalr_states |-> <<>>,
         dfa_init |-> 0, lalr_init |-> 0]

Whole(g) == [of |-> g, header |-> HeaderUnits, records |-> Written(g), whole |-> TRUE]

\* at most two edges a state, in the order of their targets
FewTargets == {<<>>} \cup {<<s>> : s \in 0..2}
              \cup {<<s, t>> : s, t \in 0..2}
State(accept, targets) == [accept_symbol |-> accept,
                           edges |-> [i \in DOMAIN targets |-> Edge(0, targets[i])]]
SmallStates(accepts) == {State(a, ts) : a \in accepts,
                           ts \in {ts \in FewTargets : Len(ts) = 2 => ts[1] <= ts[2]}}

\* the lexer's initial state accepts nothing
SmallGrammars ==
  {Base @@ [dfa_states |-> Vec(<<s>> \o rest)] :
     s \in SmallStates({-1}), rest \in [1..2 -> SmallStates({-1, 2})]}

\* Id = {Letter}{AlphaNumeric}*, as GOLD Parser Builder writes such a terminal: the
\* states of Num in operator.egt but for its '0' (there 9 and 10)
IdentifierFiles ==
  {Whole(Base @@ [dfa_states |-> Vec(<<State(-1, <<1>>), State(2, <<2>>), State(2, <<2>>)>>)])}

\* names at the limits of UTF-8's classes, three that are all x, one with a bracket and
\* one with a space; characters that are negative as int16; nested groups; an empty
\* production; two edges and two actions for one state
Names == <<<<127>>, <<128, 120>>, <<2047, 120>>, <<2048, 120>>, <<55357, 56832>>, <<65535>>>>

Rich ==
  [properties |-> <<[name |-> <<78>>, value |-> <<>>], [name |-> <<65>>, value |-> <<233, 66>>]>>,
   charsets |-> Vec(<<[uniplane |-> 0, ranges |-> <<<<48, 57>>, <<32767, 32768>>, <<40000, 65535>>>>],
                      [uniplane |-> 1, ranges |-> <<>>],
                      [uniplane |-> 0, ranges |-> <<<<233, 233>>>>]>>),
   symbols |-> Vec(<<Named(<<69>>, 3), Named(<<82>>, 7), Named(<<120>>, 1), Named(<<120>>, 0),
                     Named(<<120>>, 2), Named(<<47, 42>>, 4), Named(<<42, 47>>, 5)>>
                   \o [i \in DOMAIN Names |-> Named(Names[i], IF i % 2 = 0 THEN 0 ELSE 1)]
                   \o <<Named(<<60, 61>>, 1), Named(<<120, 32, 120>>, 0)>>),
   symbol_groups |-> Vec(<<[name |-> <<67, 8364>>, container |-> 4, start |-> 5, end |-> 6,
                            advance_mode |-> 1, ending_mode |-> 1, nesting_groups |-> <<0, 1>>],
                           [name |-> <<67>>, container |-> 4, start |-> 5, end |-> 6,
                            advance_mode |-> 0, ending_mode |-> 0, nesting_groups |-> <<>>]>>),
   productions |-> Vec(<<[head |-> 3, handles |-> <<2, 3, 2, 7>>], [head |-> 3, handles |-> <<>>],
                         [head |-> 8, handles |-> <<3, 2>>], [head |-> 3, handles |-> <<2, 3>>],
                         [head |-> 14, handles |-> <<13, 14>>]>>),
   dfa_init |-> 1, lalr_init |-> 2,
   dfa_states |-> Vec(<<[accept_symbol |-> 2, edges |-> <<>>],
                        [accept_symbol |-> -1, edges |-> <<Edge(0, 0), Edge(2, 2)>>],
                        [accept_symbol |-> 7, edges |-> <<Edge(1, 0)>>]>>),
   lalr_states |-> Vec(<<[actions |-> <<>>],
                         [actions |-> (2 :> [type |-> 1, target |-> 0]) @@
                                      (3 :> [type |-> 3, target |-> 1]) @@
                                      (0 :> [type |-> 2, target |-> 2])],
                         [actions |-> (0 :> [type |-> 4, target |-> 0])]>>)]

\* after the counts, the records from k on and then those before them
Rotated(records, k) ==
  LET t == SelectInSeq(records, LAMBDA r : r.entries[1].stored = "t")
      cut == t + k
  IN SubSeq(records, 1, t) \o SubSeq(records, cut + 1, Len(records)) \o SubSeq(records, t + 1, cut)

Damaged(r) ==
  {[r EXCEPT !.mark = "?"],
   [r EXCEPT !.entries = <<Byte("?")>> \o Tail(@)],
   [r EXCEPT !.entries = Append(@, [type |-> "?"])]}

RichFiles ==
  LET f == Whole(Rich)  n == Len(f.records)
  IN {f, [f EXCEPT !.header = <<71>>, !.whole = FALSE]}
     \cup {[f EXCEPT !.records = Rotated(@, k)] : k \in 1 .. n - 4}
     \cup {[f EXCEPT !.records = SubSeq(@, 1, k), !.whole = FALSE] : k \in 0 .. n - 1}
     \cup UNION {{[f EXCEPT !.records[k] = r, !.whole = FALSE] : r \in Damaged(f.records[k])} :
                   k \in 1..n}

AllFiles == {Whole(g) : g \in SmallGrammars} \cup RichFiles

ASSUME SampleNamesApart == \A f \in Files : f.whole => NamesApart(f)
=============================================================================
