----------------------------- MODULE Derivation -----------------------------
(***************************************************************************)
(* What a bottom-up parser promises, without its tables, its stack of      *)
(* states and its lookahead: it reads terminals one by one onto the end of *)
(* a sentential form, may replace the right-hand side of a production at   *)
(* the end of the form by its head, and accepts only when the whole form   *)
(* is the start symbol.  Every behaviour that accepts is a rightmost       *)
(* derivation of the terminals read, in reverse.                           *)
(***************************************************************************)
EXTENDS Integers, Sequences

CONSTANTS Symbols,       \* terminals and nonterminals
          Terminals,
          Productions,   \* [index -> [head, handles]]
          StartSymbol

\* what the theorems of DerivationProofs assume of a grammar
GrammarTyped ==
  /\ Terminals \subseteq Symbols
  /\ \A p \in DOMAIN Productions : /\ Productions[p].head \in Symbols
                                   /\ Productions[p].handles \in Seq(Symbols)

\* y is x with a head replaced by the right-hand side of its production
Rewrites(x, y) ==
  \E p \in DOMAIN Productions : \E u, v \in Seq(Symbols) :
    /\ x = u \o <<Productions[p].head>> \o v
    /\ y = u \o Productions[p].handles \o v

\* x =>* y
Derives(x, y) ==
  \E n \in Nat : \E f \in [0..n -> Seq(Symbols)] :
    /\ f[0] = x
    /\ f[n] = y
    /\ \A i \in 1..n : Rewrites(f[i - 1], f[i])

VARIABLES form,      \* the sentential form
          consumed,  \* the terminals read
          verdict    \* "open", "accept" or "reject"

vars == <<form, consumed, verdict>>

Init == form = <<>> /\ consumed = <<>> /\ verdict = "open"

Read(t) == /\ verdict = "open"
           /\ form' = Append(form, t)
           /\ consumed' = Append(consumed, t)
           /\ UNCHANGED verdict

\* the form is front \o right-hand side of p
Replace(p, front) == /\ verdict = "open"
                     /\ form = front \o Productions[p].handles
                     /\ form' = Append(front, Productions[p].head)
                     /\ UNCHANGED <<consumed, verdict>>

Fronts == {SubSeq(form, 1, n) : n \in 0..Len(form)}

Accept == /\ verdict = "open"
          /\ form = <<StartSymbol>>
          /\ verdict' = "accept"
          /\ UNCHANGED <<form, consumed>>

Reject == /\ verdict = "open"
          /\ verdict' = "reject"
          /\ UNCHANGED <<form, consumed>>

\* another text, or the same one again
Restart == form' = <<>> /\ consumed' = <<>> /\ verdict' = "open"

Next == \/ \E t \in Terminals : Read(t)
        \/ \E p \in DOMAIN Productions : \E front \in Fronts : Replace(p, front)
        \/ Accept
        \/ Reject
        \/ Restart

Spec == Init /\ [][Next]_vars
=============================================================================
