------------------------------- MODULE Loader -------------------------------
(***************************************************************************)
(* Grammar::LoadBuffer of src/grammar.cpp: a file is read record by        *)
(* record.  The entries of a record are read into v, a vector that lives   *)
(* as long as the call and only grows: an entry that a record does not     *)
(* write keeps what an earlier one has left there.  Each kind of record is *)
(* an action.  Files are those whose records are complete and whose        *)
(* indices are those of their 't' record.                                  *)
(***************************************************************************)
EXTENDS EgtRecords, SequencesExt, FiniteSetsExt

CONSTANTS Header,   \* "GOLD Parser Tables/v5.0", as units
          Files     \* the files looked at: [of, header, records]

\* entry i, from 0, is an index into a table of n rows
IndexAt(r, i, n) == /\ i + 1 <= Len(r.entries) /\ r.entries[i + 1].type = "I"
                    /\ Number(r, i) \in 0 .. n - 1

\* the rows that a file says its DFA and its character sets have
DfaSize(f)      == Cardinality(DOMAIN f.of.dfa_states)
CharsetCount(f) == Cardinality(DOMAIN f.of.charsets)

DfaIndexed(f, r) ==
  /\ KindOf(r) = "t" => /\ Len(r.entries) >= 5 /\ r.entries[5].type = "I"
                        /\ Number(r, 4) = DfaSize(f)
  /\ KindOf(r) = "I" => IndexAt(r, 1, DfaSize(f))
  /\ KindOf(r) = "D" => /\ Len(r.entries) >= 5
                        /\ \A i \in 0 .. ((Len(r.entries) - 5) \div 3) - 1 :
                             /\ IndexAt(r, 5 + 3 * i, CharsetCount(f))
                             /\ IndexAt(r, 6 + 3 * i, DfaSize(f))

\* A record begins with its kind; the indices of one that is understood are those of the
\* 't' record, which stands before the record of the initial states.
ASSUME FilesIndexed ==
  \A f \in Files :
    /\ DfaSize(f) \in Nat /\ Len(f.records) \in Nat
    /\ \A k \in 1..Len(f.records) :
         LET r == f.records[k]
         IN /\ Len(r.entries) \in Nat \ {0} /\ DOMAIN r.entries = 1..Len(r.entries)
            /\ r.entries[1].type = "b"
            /\ Understood(r) => DfaIndexed(f, r)
            /\ KindOf(r) = "I" /\ (\A j \in 1..k : Understood(f.records[j])) =>
                 \E j \in 1 .. k - 1 : KindOf(f.records[j]) = "t"

VARIABLES file,     \* the file, with the grammar it was written of
          pos,      \* buf, as the number of records read
          v,        \* v, with the fields of EntryValue
          grammar,  \* the members of Grammar
          verdict   \* where LoadBuffer is, and what it returns

loader_vars == <<file, pos, v, grammar, verdict>>

Uninitialised == -32769   \* no int16

\* and the 16 bits back by a cast
Word(x)  == x % 65536

\* the bytes that the first loop of convert_utf16_to_utf8_string reserves for a unit
Utf8Length(c) == IF c < 128 THEN 1 ELSE IF c < 2048 THEN 2 ELSE 3

\* and those that the second one writes
Utf8Bytes(c) == IF c < 128 THEN <<c>>
                ELSE IF c < 2048 THEN <<192 + (c \div 64), 128 + (c % 64)>>
                ELSE <<224 + (c \div 4096), 128 + ((c \div 64) % 64), 128 + (c % 64)>>

\* a byte that is not written is 0, one behind the reserved ones is lost
ReservedBytes(units) ==
  LET size[n \in 0..Len(units)] == IF n = 0 THEN 0 ELSE size[n - 1] + Utf8Length(units[n])
  IN size
WrittenBytes(units) ==
  LET bytes[n \in 0..Len(units)] == IF n = 0 THEN <<>> ELSE bytes[n - 1] \o Utf8Bytes(units[n])
  IN bytes

Utf8(units) ==
  LET n == Len(units)  bytes == WrittenBytes(units)[n]
  IN [i \in 1..ReservedBytes(units)[n] |-> IF i <= Len(bytes) THEN bytes[i] ELSE 0]

\* an EntryValue of a vector that has just grown, and read_value into one
ZeroEntry == [v_byte |-> "", v_bool |-> FALSE, v_int |-> 0, v_str |-> <<>>]

ReadValue(old, e) == CASE e.type = "b" -> [old EXCEPT !.v_byte = e.stored]
                       [] e.type = "B" -> [old EXCEPT !.v_bool = e.stored]
                       [] e.type = "I" -> [old EXCEPT !.v_int = Int16(e.stored)]
                       [] e.type = "S" -> [old EXCEPT !.v_str = Utf8(e.stored)]
                       [] OTHER -> old

\* what resize puts into the tables
Zero == [charsets      |-> [index |-> 0, uniplane |-> 0, ranges |-> <<>>],
         symbols       |-> [index |-> 0, name |-> <<>>, type |-> 0],
         symbol_groups |-> [index |-> 0, name |-> <<>>, container |-> 0, start |-> 0, end |-> 0,
                            advance_mode |-> 0, ending_mode |-> 0, nesting_groups |-> <<>>],
         productions   |-> [index |-> 0, head |-> 0, handles |-> <<>>],
         dfa_states    |-> [index |-> 0, accept_symbol |-> 0, edges |-> <<>>],
         lalr_states   |-> [index |-> 0, actions |-> <<>>]]

Tables == DOMAIN Zero

\* a record of row n of a table; the place of a table's count in a 't' record
SaysRow(r, t, n) == /\ Understood(r) /\ KindOf(r) \in DOMAIN TableOf
                    /\ TableOf[KindOf(r)] = t /\ Number(r, 1) = n
CountPlace == [symbols |-> 1, charsets |-> 2, productions |-> 3, dfa_states |-> 4,
               lalr_states |-> 5, symbol_groups |-> 6]

\* What a file's grammar is: each record of a row says that row of it, and no row has
\* two; a whole file has a record for each row, behind its counts.
ASSUME FilesWritten ==
  \A f \in Files :
    /\ \A k \in 1..Len(f.records) :
         LET r == f.records[k]  t == TableOf[KindOf(r)]  n == Number(r, 1)
         IN Understood(r) /\ KindOf(r) \in DOMAIN TableOf =>
              /\ WellTyped(r)
              /\ n \in DOMAIN f.of[t] /\ f.of[t][n] = RowSaid(r)
              /\ \A j \in 1 .. k - 1 : ~SaysRow(f.records[j], t, n)
    /\ f.whole =>
         /\ f.header = Header
         /\ \A t \in Tables : \A n \in DOMAIN f.of[t] :
              \E k \in 1..Len(f.records) : SaysRow(f.records[k], t, n)
         /\ \E k \in 1..Len(f.records) : KindOf(f.records[k]) = "I"
         /\ Len(f.of.properties)
              = Cardinality({k \in 1..Len(f.records) : KindOf(f.records[k]) = "p"})
         /\ \A k \in 1..Len(f.records) :
              LET r == f.records[k]
              IN /\ Understood(r)
                 /\ KindOf(r) \in DOMAIN TableOf =>
                      \E j \in 1 .. k - 1 : KindOf(f.records[j]) = "t"
                 /\ KindOf(r) = "t" => \A t \in Tables :
                      /\ CountPlace[t] + 1 \in DOMAIN r.entries
                      /\ r.entries[CountPlace[t] + 1].type = "I"
                      /\ DOMAIN f.of[t] = 0 .. Number(r, CountPlace[t]) - 1
                 /\ KindOf(r) = "I" =>
                      /\ Len(r.entries) = 3 /\ r.entries[2].type = "I" /\ r.entries[3].type = "I"
                      /\ Number(r, 1) = f.of.dfa_init /\ Number(r, 2) = f.of.lalr_init

Resize(table, n) ==
  [i \in 0 .. n - 1 |-> IF i \in DOMAIN grammar[table] THEN grammar[table][i] ELSE Zero[table]]

LoaderInit == /\ file \in Files
              /\ pos = 0
              /\ v = <<>>
              /\ grammar = [x \in Tables \cup {"properties", "dfa_init", "lalr_init"} |->
                              IF x \in {"dfa_init", "lalr_init"} THEN Uninitialised ELSE <<>>]
              /\ verdict = IF file.header = Header THEN "loading" ELSE "refused"

\* mutant: the last record is not read
MoreThanOne == pos + 1 < Len(file.records) /\ file.records[pos + 1].mark = "M"

More    == pos < Len(file.records) /\ file.records[pos + 1].mark = "M"
Entries == file.records[pos + 1].entries
AllRead == \A i \in DOMAIN Entries : Readable(Entries[i])

\* the loop that reads the entries of a record; v is indexed from 0
ReadEntries ==
  v' = [i \in (0 .. Len(Entries) - 1) \cup DOMAIN v |->
          IF i < Len(Entries)
          THEN ReadValue(IF i \in DOMAIN v THEN v[i] ELSE ZeroEntry, Entries[i + 1])
          ELSE v[i]]

Reads(kind) == /\ verdict = "loading" /\ More /\ AllRead
               /\ ReadEntries
               /\ v'[0].v_byte = kind
               /\ pos' = pos + 1
               /\ UNCHANGED <<file, verdict>>

\* value_count, and the entry i of the record that has been read
value_count == Len(Entries)
num(i)  == v'[i].v_int
Several(n, F(_)) == [i \in 1..n |-> F(i - 1)]
-----------------------------------------------------------------------------
ReadProperty ==
  /\ Reads("p")
  /\ grammar' = [grammar EXCEPT !.properties =
                   Append(@, [index |-> num(1), name |-> v'[2].v_str, value |-> v'[3].v_str])]

ReadCounts ==
  /\ Reads("t")
  /\ grammar' = [grammar EXCEPT !.symbols       = Resize("symbols", num(1)),
                                !.charsets      = Resize("charsets", num(2)),
                                !.productions   = Resize("productions", num(3)),
                                !.dfa_states    = Resize("dfa_states", num(4)),
                                !.lalr_states   = Resize("lalr_states", num(5)),
                                !.symbol_groups = Resize("symbol_groups", num(6))]

ReadCharset ==
  /\ Reads("c")
  /\ grammar' = [grammar EXCEPT !.charsets[num(1)] =
       [index |-> num(1), uniplane |-> num(2),
        ranges |-> @.ranges \o
          Several(num(3), LAMBDA i : <<Word(num(5 + 2 * i)), Word(num(6 + 2 * i))>>)]]

ReadSymbol ==
  /\ Reads("S")
  /\ grammar' = [grammar EXCEPT !.symbols[num(1)] =
       [index |-> num(1), name |-> v'[2].v_str, type |-> num(3)]]

ReadGroup ==
  /\ Reads("g")
  /\ grammar' = [grammar EXCEPT !.symbol_groups[num(1)] =
       [index |-> num(1), name |-> v'[2].v_str, container |-> num(3), start |-> num(4),
        end |-> num(5), advance_mode |-> num(6), ending_mode |-> num(7),
        nesting_groups |-> @.nesting_groups \o Several(num(9), LAMBDA i : num(10 + i))]]

\* mutant: the handles are taken from all of v
HandlesOfV == Several(Cardinality(DOMAIN v') - 4, LAMBDA i : num(4 + i))

HandlesRead == Several(value_count - 4, LAMBDA i : num(4 + i))

ReadProduction ==
  /\ Reads("R")
  /\ grammar' = [grammar EXCEPT !.productions[num(1)] =
       [index |-> num(1), head |-> num(2), handles |-> @.handles \o HandlesRead]]

ReadInitial ==
  /\ Reads("I")
  /\ grammar' = [grammar EXCEPT !.dfa_init = num(1), !.lalr_init = num(2)]

ReadDfaState ==
  /\ Reads("D")
  /\ grammar' = [grammar EXCEPT !.dfa_states[num(1)] =
       [index |-> num(1), accept_symbol |-> IF v'[2].v_bool THEN num(3) ELSE -1,
        edges |-> @.edges \o Several((value_count - 5) \div 3, LAMBDA i :
                    [charset |-> num(5 + 3 * i), target |-> num(6 + 3 * i)])]]

\* actions is a map: a symbol's later entry replaces an earlier one
ActionsRead(old) ==
  LET read  == 0 .. ((value_count - 3) \div 4) - 1
      On(x) == {i \in read : num(3 + 4 * i) = x}
  IN [x \in DOMAIN old \cup {num(3 + 4 * i) : i \in read} |->
        IF On(x) = {} THEN old[x]
        ELSE [type |-> num(4 + 4 * Max(On(x))), target |-> num(5 + 4 * Max(On(x)))]]

ReadLalrState ==
  /\ Reads("L")
  /\ grammar' = [grammar EXCEPT !.lalr_states[num(1)] =
                   [index |-> num(1), actions |-> ActionsRead(@.actions)]]

\* an entry of an unknown type, or a record of an unknown kind: the tables stay
\* as they are
Refuse ==
  /\ verdict = "loading" /\ More
  /\ \/ ~AllRead /\ UNCHANGED v
     \/ AllRead /\ ReadEntries /\ v'[0].v_byte \notin Kinds
  /\ verdict' = "refused"
  /\ UNCHANGED <<file, pos, grammar>>

\* the end of the file or another mark; ProcessAfterLoad writes path_counts[dfa_init]
Stop ==
  /\ verdict = "loading" /\ ~More
  /\ verdict' = IF grammar.dfa_init = Uninitialised THEN "undefined" ELSE "processing"
  /\ UNCHANGED <<file, pos, v, grammar>>

ReadRecord == \/ ReadProperty \/ ReadCounts \/ ReadCharset \/ ReadSymbol \/ ReadGroup
              \/ ReadProduction \/ ReadInitial \/ ReadDfaState \/ ReadLalrState
-----------------------------------------------------------------------------
(* LinkReference and what a client looks up.                               *)

IndexOf(table, Test(_)) ==
  LET hits == {i \in DOMAIN grammar[table] : Test(grammar[table][i])}
  IN IF hits = {} THEN -1 ELSE CHOOSE i \in hits : \A j \in hits : j <= i

\* the last symbol of the type is linked
symbol_EOF   == IndexOf("symbols", LAMBDA s : s.type = 3)
symbol_Error == IndexOf("symbols", LAMBDA s : s.type = 7)

\* mutant: terminals and nonterminals are not told apart
PlainID(s) == IF s.type \in {0, 1} THEN s.name ELSE <<40>> \o s.name \o <<41>>

\* Symbol::GetID: <name> for a nonterminal, name for a terminal, (name) for others
SymbolID(s) == CASE s.type = 0 -> <<60>> \o s.name \o <<62>>
                 [] s.type = 1 -> s.name
                 [] OTHER -> <<40>> \o s.name \o <<41>>

\* Production::GetID: " ::= " behind the head, spaces between the handles
ProductionID(p) ==
  SymbolID(grammar.symbols[p.head]) \o <<32, 58, 58, 61, 32>>
  \o FlattenSeq([i \in DOMAIN p.handles |->
       (IF i = 1 THEN <<>> ELSE <<32>>) \o SymbolID(grammar.symbols[p.handles[i]])])

\* the look-up tables are maps: a later symbol replaces one with the same ID
GetSymbol(id)     == IndexOf("symbols", LAMBDA s : SymbolID(s) = id)
GetProduction(id) == IndexOf("productions", LAMBDA p : ProductionID(p) = id)
-----------------------------------------------------------------------------
(* Properties.                                                             *)

\* a decoder of UTF-8: the 16-bit units that a name's bytes stand for
LowBits(bytes, i) == IF i \in DOMAIN bytes THEN bytes[i] % 64 ELSE 0

UnitAt(bytes, i) ==
  IF bytes[i] < 128 THEN bytes[i]
  ELSE IF bytes[i] < 224 THEN ((bytes[i] % 32) * 64) + LowBits(bytes, i + 1)
  ELSE ((bytes[i] % 16) * 4096) + (LowBits(bytes, i + 1) * 64) + LowBits(bytes, i + 2)

UnitsUpTo(bytes) ==
  LET upto[n \in 0..Len(bytes)] ==
        IF n = 0 THEN <<>>
        ELSE IF bytes[n] \in 128..191 THEN upto[n - 1]
        ELSE Append(upto[n - 1], UnitAt(bytes, n))
  IN upto

Decode(bytes) == UnitsUpTo(bytes)[Len(bytes)]

Decoded(row) == IF "name" \in DOMAIN row THEN [row EXCEPT !.name = Decode(@)] ELSE row

\* row i of a table, where a record says the rest
Numbered(i, row) == [x \in {"index"} \cup DOMAIN row |-> IF x = "index" THEN i ELSE row[x]]

Loaded == verdict \in {"processing", "accepted"}

\* At every moment, in a file cut short or with its records in another order too, a
\* row of a table is untouched or what the file says of it, names unit by unit: no
\* entry that an earlier record left in v gets into it, no record counts a row off.
RowsWhole ==
  \A t \in Tables : \A i \in DOMAIN grammar[t] :
    Decoded(grammar[t][i]) \in {Zero[t], Numbered(i, file.of[t][i])}

\* A file with all its records is loaded, with every row and both initial states.
LoadedExact ==
  /\ file.whole => verdict \notin {"refused", "undefined"}
  /\ file.whole /\ Loaded =>
       /\ \A t \in Tables :
            /\ DOMAIN grammar[t] = DOMAIN file.of[t]
            /\ \A i \in DOMAIN grammar[t] :
                 Decoded(grammar[t][i]) = Numbered(i, file.of[t][i])
       /\ grammar.dfa_init = file.of.dfa_init /\ grammar.lalr_init = file.of.lalr_init
       /\ Len(grammar.properties) = Len(file.of.properties)

\* the bracket that GetID puts before a name and the one behind, -1 where there is none
Opening(s) == CASE s.type = 0 -> 60 [] s.type = 1 -> -1 [] OTHER -> 40
Closing(s) == CASE s.type = 0 -> 62 [] s.type = 1 -> -1 [] OTHER -> 41

\* Names that GetID tells apart: no two with the same brackets are the same, a terminal's
\* has no space, one in brackets has not the closing one and does not begin with a space,
\* and a terminal like '<=' does not go on as a name in such brackets begins.
NamesApart(f) ==
  LET symbols == f.of.symbols  productions == f.of.productions
  IN /\ \A i, j \in DOMAIN symbols :
          symbols[i].name = symbols[j].name /\ Opening(symbols[i]) = Opening(symbols[j]) => i = j
     /\ \A i \in DOMAIN symbols :
          LET s == symbols[i]
          IN /\ s.name # <<>>
             /\ \A k \in DOMAIN s.name : /\ s.type = 1 => s.name[k] # 32
                                         /\ s.name[k] # Closing(s)
             /\ s.type # 1 => s.name[1] # 32
     /\ \A i, j \in DOMAIN symbols :
          LET s == symbols[i]  t == symbols[j]
          IN s.type = 1 /\ Len(s.name) > 1 /\ s.name[1] = Opening(t) =>
               s.name[2] < 128 /\ s.name[2] # t.name[1]
     /\ \A i \in DOMAIN productions :
          /\ productions[i].head \in DOMAIN symbols
          /\ productions[i].handles \in Seq(DOMAIN symbols)
          /\ \A j \in DOMAIN productions : productions[i] = productions[j] => i = j
     /\ \A x \in {3, 7} : \E i \in DOMAIN symbols : symbols[i].type = x

\* In a grammar with such names GetID tells any two symbols and any two productions
\* apart: what is looked up by the ID of one is that one.
FoundByID ==
  file.whole /\ Loaded =>
    /\ \A i \in DOMAIN grammar.symbols : GetSymbol(SymbolID(grammar.symbols[i])) = i
    /\ \A i \in DOMAIN grammar.productions :
         GetProduction(ProductionID(grammar.productions[i])) = i
    /\ file.of.symbols[symbol_EOF].type = 3 /\ file.of.symbols[symbol_Error].type = 7
=============================================================================
