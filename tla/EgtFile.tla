------------------------------ MODULE EgtFile ------------------------------
(***************************************************************************)
(* An .egt file as GOLD Parser Builder writes it: a header and records of  *)
(* entries.  An entry is a type and what is stored for it: a byte (here a  *)
(* kind of record), a boolean, 16 bits, or a string of 16-bit units.       *)
(***************************************************************************)
EXTENDS Integers, SequencesExt

Empty       == [type |-> "E"]
Byte(x)     == [type |-> "b", stored |-> x]
Boolean(x)  == [type |-> "B", stored |-> x]
Integer(x)  == [type |-> "I", stored |-> x % 65536]
String(x)   == [type |-> "S", stored |-> x]

Record(kind, entries) == [mark |-> "M", entries |-> <<Byte(kind)>> \o entries]

Integers_(xs) == [i \in DOMAIN xs |-> Integer(xs[i])]
Flat(xs, F(_)) == FlattenSeq([i \in DOMAIN xs |-> F(xs[i])])

\* one record for each element of a vector, which is indexed from 0
Rows(vector, R(_, _)) ==
  [k \in 1 .. Cardinality(DOMAIN vector) |-> R(k - 1, vector[k - 1])]

\* the records of a grammar g, in GOLD's order
Written(g) ==
  [i \in DOMAIN g.properties |->
     Record("p", <<Integer(i - 1), String(g.properties[i].name), String(g.properties[i].value)>>)]
  \o <<Record("t", Integers_([i \in 1..6 |-> Cardinality(DOMAIN
         <<g.symbols, g.charsets, g.productions, g.dfa_states, g.lalr_states,
           g.symbol_groups>>[i])]))>>
  \o Rows(g.charsets, LAMBDA k, c : Record("c",
       Integers_(<<k, c.uniplane, Len(c.ranges)>>) \o <<Empty>> \o Flat(c.ranges, Integers_)))
  \o Rows(g.symbols, LAMBDA k, s : Record("S", <<Integer(k), String(s.name), Integer(s.type)>>))
  \o Rows(g.symbol_groups, LAMBDA k, o : Record("g",
       <<Integer(k), String(o.name)>>
       \o Integers_(<<o.container, o.start, o.end, o.advance_mode, o.ending_mode>>)
       \o <<Empty, Integer(Len(o.nesting_groups))>> \o Integers_(o.nesting_groups)))
  \o Rows(g.productions, LAMBDA k, p : Record("R",
       <<Integer(k), Integer(p.head), Empty>> \o Integers_(p.handles)))
  \o <<Record("I", <<Integer(g.dfa_init), Integer(g.lalr_init)>>)>>
  \o Rows(g.dfa_states, LAMBDA k, s : Record("D",
       <<Integer(k), Boolean(s.accept_symbol >= 0),
         Integer(IF s.accept_symbol >= 0 THEN s.accept_symbol ELSE 0), Empty>>
       \o Flat(s.edges, LAMBDA e : Integers_(<<e.charset, e.target>>) \o <<Empty>>)))
  \o Rows(g.lalr_states, LAMBDA k, s : Record("L",
       <<Integer(k), Empty>>
       \o Flat(SetToSeq(DOMAIN s.actions), LAMBDA x :
            Integers_(<<x, s.actions[x].type, s.actions[x].target>>) \o <<Empty>>)))
=============================================================================
