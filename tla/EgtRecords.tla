----------------------------- MODULE EgtRecords -----------------------------
(***************************************************************************)
(* The records of an .egt file as Grammar::LoadBuffer of src/grammar.cpp   *)
(* expects them: which entry of which kind of record holds what, counted   *)
(* from 0.  EgtFile writes such records; here they are read one by one,    *)
(* with nothing left over from a record before.                            *)
(***************************************************************************)
EXTENDS Integers, Sequences, FiniteSets

\* read_integer: the file's 16 bits as a signed number
Int16(x) == IF x < 32768 THEN x ELSE x - 65536

Units == 0..65535

Readable(e) == e.type \in {"E", "b", "B", "I", "S"}

Kinds == {"p", "t", "c", "S", "g", "R", "I", "D", "L"}

KindOf(r) == r.entries[1].stored

\* a record that LoadBuffer goes on behind
Understood(r) == /\ r.mark = "M"
                 /\ \A i \in DOMAIN r.entries : Readable(r.entries[i])
                 /\ KindOf(r) \in Kinds

Stored(r, i) == r.entries[i + 1].stored
Number(r, i) == Int16(Stored(r, i))
Last_(r)     == Len(r.entries) - 1

\* the table a record has a row of
TableOf == [c |-> "charsets", S |-> "symbols", g |-> "symbol_groups", R |-> "productions",
            D |-> "dfa_states", L |-> "lalr_states"]

CharsetSaid(r) ==
  [uniplane |-> Number(r, 2),
   ranges   |-> [k \in 1..Number(r, 3) |-> <<Stored(r, 3 + 2 * k), Stored(r, 4 + 2 * k)>>]]

SymbolSaid(r) == [name |-> Stored(r, 2), type |-> Number(r, 3)]

GroupSaid(r) ==
  [name |-> Stored(r, 2), container |-> Number(r, 3), start |-> Number(r, 4),
   end |-> Number(r, 5), advance_mode |-> Number(r, 6), ending_mode |-> Number(r, 7),
   nesting_groups |-> [k \in 1..Number(r, 9) |-> Number(r, 9 + k)]]

ProductionSaid(r) ==
  [head |-> Number(r, 2), handles |-> [k \in 1 .. Last_(r) - 3 |-> Number(r, 3 + k)]]

DfaStateSaid(r) ==
  [accept_symbol |-> IF Stored(r, 2) THEN Number(r, 3) ELSE -1,
   edges |-> [k \in 1 .. ((Last_(r) - 4) \div 3) |->
                [charset |-> Number(r, 2 + 3 * k), target |-> Number(r, 3 + 3 * k)]]]

\* the actions of a state, and the place of the action on x
ActionPlaces(r)    == 1 .. ((Last_(r) - 2) \div 4)
ActionPlace(r, x)  == CHOOSE k \in ActionPlaces(r) : Number(r, 4 * k - 1) = x
LalrStateSaid(r) ==
  [actions |-> [x \in {Number(r, 4 * k - 1) : k \in ActionPlaces(r)} |->
                  [type   |-> Number(r, 4 * ActionPlace(r, x)),
                   target |-> Number(r, 4 * ActionPlace(r, x) + 1)]]]

\* the row, but for its number, that a record describes
RowSaid(r) == CASE KindOf(r) = "c" -> CharsetSaid(r)
                [] KindOf(r) = "S" -> SymbolSaid(r)
                [] KindOf(r) = "g" -> GroupSaid(r)
                [] KindOf(r) = "R" -> ProductionSaid(r)
                [] KindOf(r) = "D" -> DfaStateSaid(r)
                [] KindOf(r) = "L" -> LalrStateSaid(r)

\* where a record of a row has its numbers, and its name or flag
NumberPlaces(r) ==
  {1} \cup CASE KindOf(r) = "c" -> {2, 3} \cup 5 .. (4 + 2 * Number(r, 3))
             [] KindOf(r) = "S" -> {3}
             [] KindOf(r) = "g" -> {3, 4, 5, 6, 7, 9} \cup 10 .. (9 + Number(r, 9))
             [] KindOf(r) = "R" -> {2} \cup 4 .. Last_(r)
             [] KindOf(r) = "D" -> {3} \cup {i \in 5 .. Last_(r) : i % 3 # 1}
             [] KindOf(r) = "L" -> {i \in 3 .. Last_(r) : i % 4 # 2}

WellTyped(r) ==
  /\ Last_(r) \in Nat /\ DOMAIN r.entries = 1..Len(r.entries)
  /\ r.entries[1].type = "b"
  /\ \A i \in NumberPlaces(r) : /\ i <= Last_(r) /\ r.entries[i + 1].type = "I"
                                /\ Stored(r, i) \in Units
  /\ KindOf(r) \in {"S", "g"} => /\ Last_(r) >= 2 /\ r.entries[3].type = "S"
                                 /\ Stored(r, 2) \in Seq(Units)
  /\ KindOf(r) = "c" => Number(r, 3) \in Nat
  /\ KindOf(r) = "g" => Number(r, 9) \in Nat
  /\ KindOf(r) = "R" => Last_(r) >= 3
  /\ KindOf(r) = "D" => /\ Last_(r) >= 4 /\ (Last_(r) - 4) % 3 = 0
                        /\ r.entries[3].type = "B" /\ Stored(r, 2) \in BOOLEAN
  /\ KindOf(r) = "L" => /\ Last_(r) >= 2 /\ (Last_(r) - 2) % 4 = 0
                        /\ \A j, k \in ActionPlaces(r) :
                             Number(r, 4 * j - 1) = Number(r, 4 * k - 1) => j = k
=============================================================================
