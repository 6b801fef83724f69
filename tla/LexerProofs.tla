---------------------------- MODULE LexerProofs ----------------------------
(***************************************************************************)
(* Proofs about the lexer for every DFA, every set of groups and every     *)
(* text.  The argument: the compiled tables move as the edges of the DFA   *)
(* do; a scan stops behind the cursor unless there is no byte left, so     *)
(* PeekToken answers EOF at the end only and takes a byte at least         *)
(* everywhere else; and what a turn of the loop of ReadToken leaves behind *)
(* are the bytes of one token or the beginning of the group that is open.  *)
(* Under the parser: a turn depends on nothing but the buffer and where    *)
(* the lexer stands in it, so two readings of a buffer agree as far as     *)
(* both go, and the second one hands over what the first one did.          *)
(***************************************************************************)
EXTENDS LexedParser, Induction, SequenceTheorems

-----------------------------------------------------------------------------
(* The tables.                                                             *)

LEMMA EdgeTyped ==
  ASSUME NEW s \in DOMAIN DfaStates, NEW i \in DOMAIN DfaStates[s].edges
  PROVE  /\ i \in Nat
         /\ DfaStates[s].edges[i].charset \in DOMAIN Charsets
         /\ DfaStates[s].edges[i].target \in DOMAIN DfaStates \cap Nat
         /\ DfaStates[s].edges[i] \in ToSet(DfaStates[s].edges)
<1> DEFINE E == [charset : DOMAIN Charsets, target : DOMAIN DfaStates \cap Nat]
<1>1. DfaStates[s].edges \in Seq(E)
  BY DfaTyped
<1>2. DOMAIN DfaStates[s].edges = 1..Len(DfaStates[s].edges) /\ Len(DfaStates[s].edges) \in Nat
  BY <1>1, LenProperties
<1>3. DfaStates[s].edges[i] \in E
  BY <1>1, <1>2, ElementOfSeq
<1> QED
  BY <1>2, <1>3 DEF ToSet

LEMMA RangeTyped ==
  ASSUME NEW k \in DOMAIN Charsets, NEW r \in ToSet(Charsets[k])
  PROVE  r \in Nat \X Nat /\ r[1] \in Nat /\ r[2] \in Nat
<1>1. Charsets[k] \in Seq(Nat \X Nat)
  BY DfaTyped
<1>2. PICK j \in DOMAIN Charsets[k] : r = Charsets[k][j]
  BY DEF ToSet
<1>3. r \in Nat \X Nat
  BY <1>1, <1>2, LenProperties, ElementOfSeq
<1> QED
  BY <1>3

LEMMA CharInRange ==
  ASSUME NEW k \in DOMAIN Charsets, NEW c \in Nat
  PROVE  CharIn(c, k) <=> \E r \in ToSet(Charsets[k]) : r[1] <= c /\ c <= r[2]
BY DEF CharIn, ToSet

LEMMA SingleEdge ==
  ASSUME NEW s \in DOMAIN DfaStates, NEW c \in Nat, NEW i \in Takes(s, c)
  PROVE  Takes(s, c) = {i}
<1> SUFFICES ASSUME NEW j \in Takes(s, c), i # j PROVE FALSE
  OBVIOUS
<1> DEFINE es == DfaStates[s].edges
<1>1. i \in DOMAIN es /\ j \in DOMAIN es /\ CharIn(c, es[i].charset) /\ CharIn(c, es[j].charset)
  BY DEF Takes
<1>2. es[i].charset \in DOMAIN Charsets /\ es[j].charset \in DOMAIN Charsets
  BY <1>1, EdgeTyped
<1>3. PICK a \in ToSet(Charsets[es[i].charset]) : a[1] <= c /\ c <= a[2]
  BY <1>1, <1>2, CharInRange
<1>4. PICK b \in ToSet(Charsets[es[j].charset]) : b[1] <= c /\ c <= b[2]
  BY <1>1, <1>2, CharInRange
<1>5. a[2] < b[1] \/ b[2] < a[1]
  BY <1>1, DfaTyped
<1>6. a[1] \in Nat /\ a[2] \in Nat /\ b[1] \in Nat /\ b[2] \in Nat
  BY <1>2, RangeTyped
<1> QED
  BY <1>3, <1>4, <1>5, <1>6

\* BuildDFALookup loses nothing: an entry is found exactly for the characters of an
\* edge, in the array and in the ranges, and it is the entry of that edge.
THEOREM LookupExact ==
  ASSUME NEW s \in DOMAIN DfaStates, NEW c \in Nat
  PROVE  /\ Takes(s, c) = {} => Lookup(s, c) = NoTarget
         /\ \A i \in Takes(s, c) : Lookup(s, c) = Entry(s, DfaStates[s].edges[i])
<1> DEFINE es == DfaStates[s].edges
           found == {r \in jmp_ranges[s] : r.from <= c /\ c <= r.to}
<1>1. CASE c \in Ascii
  <2>1. Lookup(s, c) = IF Takes(s, c) = {} THEN NoTarget ELSE Entry(s, es[Max(Takes(s, c))])
    BY <1>1 DEF Lookup, jmp_table
  <2>2. ASSUME NEW i \in Takes(s, c) PROVE Max(Takes(s, c)) = i
    <3>1. Takes(s, c) = {i} /\ i \in Nat
      BY SingleEdge, EdgeTyped DEF Takes
    <3> QED
      BY <3>1 DEF Max
  <2> QED
    BY <2>1, <2>2
<1>2. CASE c \notin Ascii
  <2>1. c >= 128
    BY <1>2 DEF Ascii
  <2>2. jmp_ranges[s] = UNION {JmpRanges(s, edge, 2) : edge \in ToSet(es)}
    BY DEF jmp_ranges
  <2>3. ASSUME NEW r \in found
        PROVE  r.from \in Nat /\ \E i \in Takes(s, c) : r.target = Entry(s, es[i])
    <3>1. PICK edge \in ToSet(es) : r \in JmpRanges(s, edge, 2)
      BY <2>2
    <3>2. PICK i \in DOMAIN es : edge = es[i]
      BY <3>1 DEF ToSet
    <3>3. PICK q \in ToSet(Charsets[edge.charset]) :
            r = [from |-> IF q[1] < 128 THEN 128 ELSE q[1], to |-> q[2], target |-> Entry(s, edge)]
      BY <3>1 DEF JmpRanges
    <3>4. edge.charset \in DOMAIN Charsets
      BY <3>2, EdgeTyped
    <3>5. q[1] \in Nat /\ q[2] \in Nat
      BY <3>4, RangeTyped
    <3>6. r.from = (IF q[1] < 128 THEN 128 ELSE q[1]) /\ r.to = q[2] /\ r.target = Entry(s, edge)
      BY <3>3
    <3>7. r.from <= c /\ c <= r.to
      OBVIOUS
    <3>8. q[1] <= c /\ c <= q[2] /\ r.from \in Nat
      BY <3>5, <3>6, <3>7
    <3>9. i \in Takes(s, c)
      BY <3>2, <3>4, <3>8, CharInRange DEF Takes
    <3> QED
      BY <3>2, <3>6, <3>8, <3>9
  <2>4. ASSUME NEW i \in Takes(s, c) PROVE found # {}
    <3>1. i \in DOMAIN es /\ CharIn(c, es[i].charset)
      BY DEF Takes
    <3>2. es[i] \in ToSet(es) /\ es[i].charset \in DOMAIN Charsets
      BY <3>1, EdgeTyped
    <3>3. PICK q \in ToSet(Charsets[es[i].charset]) : q[1] <= c /\ c <= q[2]
      BY <3>1, <3>2, CharInRange
    <3>4. q[1] \in Nat /\ q[2] \in Nat
      BY <3>2, RangeTyped
    <3>5. q[2] >= 128
      BY <2>1, <3>3, <3>4
    <3> DEFINE r == [from |-> IF q[1] < 128 THEN 128 ELSE q[1], to |-> q[2], target |-> Entry(s, es[i])]
    <3>6. r \in JmpRanges(s, es[i], 2)
      BY <3>3, <3>5 DEF JmpRanges
    <3>7. r \in jmp_ranges[s]
      BY <2>2, <3>2, <3>6
    <3>8. r.from <= c /\ c <= r.to
      BY <2>1, <3>3, <3>4
    <3> QED
      BY <3>7, <3>8
  <2>5. Lookup(s, c) = IF found = {} THEN NoTarget
                       ELSE (CHOOSE r \in found : \A q \in found : r.from <= q.from).target
    BY <1>2 DEF Lookup
  <2>6. found # {} => \E r \in found : \A q \in found : r.from <= q.from
    <3> HIDE DEF found
    <3> SUFFICES ASSUME found # {} PROVE \E r \in found : \A q \in found : r.from <= q.from
      OBVIOUS
    <3> DEFINE T == {r.from : r \in found}
    <3>1. T \subseteq Nat /\ T # {}
      BY <2>3
    <3>2. PICK m \in T : \A k \in T : m <= k
      <4> HIDE DEF T
      <4> QED BY <3>1, Least
    <3> QED
      BY <3>2
  <2>7. found # {} => \E i \in Takes(s, c) : Lookup(s, c) = Entry(s, es[i])
    <3> HIDE DEF found
    <3> SUFFICES ASSUME found # {} PROVE \E i \in Takes(s, c) : Lookup(s, c) = Entry(s, es[i])
      OBVIOUS
    <3>1. PICK r \in found : Lookup(s, c) = r.target
      BY <2>5, <2>6
    <3> QED
      BY <2>3, <3>1
  <2> HIDE DEF found
  <2>8. Takes(s, c) = {} => Lookup(s, c) = NoTarget
    BY <2>5, <2>7
  <2>9. ASSUME NEW i \in Takes(s, c) PROVE Lookup(s, c) = Entry(s, es[i])
    BY <2>4, <2>7, SingleEdge
  <2> QED
    BY <2>8, <2>9
<1> QED
  BY <1>1, <1>2
-----------------------------------------------------------------------------
(* The scan of PeekToken.                                                  *)

TypeOK ==
  /\ buf \in Seq(0..255)
  /\ buf_cur \in Nat
  /\ place \in Nat \X Nat
  /\ group_stack \in Seq([group : DOMAIN Groups, from : Nat \cup {Elsewhere}])
  /\ token \in [symbol : DOMAIN SymbolType \cup {NoSymbol}, from : Nat \cup {Elsewhere}, to : Nat,
                place : Nat \X Nat]
  /\ reading \in BOOLEAN /\ begun \in Nat
  /\ stale \in BOOLEAN /\ loads \in Nat

LEMMA ByteTyped ==
  ASSUME buf \in Seq(0..255), NEW i \in Nat
  PROVE  ByteAt(i) \in 0..255
<1>1. Len(buf) \in Nat
  BY LenProperties
<1>2. CASE i < Len(buf)
  <2>1. i + 1 \in 1..Len(buf)
    BY <1>1, <1>2
  <2>2. buf[i + 1] \in 0..255
    BY <2>1, ElementOfSeq
  <2> QED
    BY <1>2, <2>2 DEF ByteAt
<1>3. CASE ~(i < Len(buf))
  BY <1>3, TextsTyped DEF ByteAt
<1> QED
  BY <1>2, <1>3

LEMMA DecodeTyped ==
  ASSUME buf \in Seq(0..255), NEW i \in Nat
  PROVE  /\ Decode(i).char \in Nat
         /\ Decode(i).next \in Nat /\ i < Decode(i).next
<1> DEFINE c   == ByteAt(i)
           low == [k \in 1..3 |-> ByteAt(i + k) % 64]
           one   == [char |-> c, next |-> i + 1]
           two   == [char |-> (c % 32) * 64 + low[1], next |-> i + 2]
           three == [char |-> (c % 16) * 4096 + low[1] * 64 + low[2], next |-> i + 3]
           four  == [char |-> 65535, next |-> i + 4]
           Chars == {d \in [char : Nat, next : Nat] : i < d.next}
<1>1. c \in 0..255
  BY ByteTyped
<1>2. \A x \in 0..255 : x % 64 \in Nat /\ x % 32 \in Nat /\ x % 16 \in Nat
  OBVIOUS
<1>3. low[1] \in Nat /\ low[2] \in Nat
  <2> DEFINE x == ByteAt(i + 1)
             y == ByteAt(i + 2)
  <2>1. x \in 0..255 /\ y \in 0..255
    BY ByteTyped
  <2>2. low[1] = x % 64 /\ low[2] = y % 64
    OBVIOUS
  <2> HIDE DEF low, x, y
  <2>3. x % 64 \in Nat /\ y % 64 \in Nat
    BY <1>2, <2>1
  <2> QED
    BY <2>2, <2>3
<1>4. Decode(i) = CASE c < 128              -> one
                    [] c \in 128..(224 - 1) -> two
                    [] c \in 224..(240 - 1) -> three
                    [] c >= 240             -> four
  BY DEF Decode
<1>5. one \in Chars /\ two \in Chars /\ three \in Chars /\ four \in Chars
  <2> HIDE DEF c, low
  <2>1. c \in Nat /\ c % 32 \in Nat /\ c % 16 \in Nat
    BY <1>1, <1>2
  <2>2. ASSUME NEW x \in Nat, NEW y \in Nat, NEW z \in Nat
        PROVE  x * 64 + y \in Nat /\ x * 4096 + y * 64 + z \in Nat
    OBVIOUS
  <2>3. two.char \in Nat /\ three.char \in Nat
    <3>1. two.char = (c % 32) * 64 + low[1]
          /\ three.char = (c % 16) * 4096 + low[1] * 64 + low[2]
      OBVIOUS
    <3> DEFINE e == c % 32
               f == c % 16
               l == low[1]
               m == low[2]
    <3>2. e \in Nat /\ f \in Nat /\ l \in Nat /\ m \in Nat
      BY <1>3, <2>1
    <3> HIDE DEF e, f, l, m
    <3>3. e * 64 + l \in Nat /\ f * 4096 + l * 64 + m \in Nat
      BY <2>2, <3>2
    <3> QED
      BY <3>1, <3>3 DEF e, f, l, m
  <2> QED
    BY <2>1, <2>3
<1>6. c < 128 \/ c \in 128..(224 - 1) \/ c \in 224..(240 - 1) \/ c >= 240
  <2> HIDE DEF c
  <2> QED
    BY <1>1
<1> HIDE DEF c, one, two, three, four, Chars
<1>7. Decode(i) \in Chars
  BY <1>4, <1>5, <1>6
<1> QED
  BY <1>7 DEF Chars

\* The loop is left, or it is where the n-th turn began and goes on.
Over(l) == l.broken \/ l.cur >= Len(buf)

\* What a turn makes of l when it is not over, its character ending at next.
Broken(l, next)    == [l EXCEPT !.cur = next, !.broken = TRUE]
Passed(l, next)    == [l EXCEPT !.cur = next]
Looped(l, next)    == [l EXCEPT !.cur = next, !.hit_cur = next]
Moved(l, next, t)  == [l EXCEPT !.cur = next, !.state = t]
Hits(l, next, t, a) == [l EXCEPT !.cur = next, !.state = t, !.hit_symbol = a, !.hit_cur = next]

\* What Turn does, by the edge that is taken.
LEMMA TurnCases ==
  ASSUME buf \in Seq(0..255), NEW l \in LoopState
  PROVE  /\ Over(l) => Turn[l] = l
         /\ ~Over(l) =>
              LET c == Decode(l.cur)
              IN \/ Takes(l.state, c.char) = {} /\ Turn[l] = Broken(l, c.next)
                 \/ \E i \in Takes(l.state, c.char) :
                      LET t == DfaStates[l.state].edges[i].target
                          a == DfaStates[t].accept
                      IN \/ /\ t = l.state /\ a # NoSymbol /\ c.char \in Ascii
                            /\ Turn[l] = Looped(l, c.next)
                         \/ /\ t = l.state /\ (a = NoSymbol \/ c.char \notin Ascii)
                            /\ Turn[l] = Passed(l, c.next)
                         \/ t # l.state /\ a = NoSymbol /\ Turn[l] = Moved(l, c.next, t)
                         \/ t # l.state /\ a # NoSymbol /\ Turn[l] = Hits(l, c.next, t, a)
<1> DEFINE c == Decode(l.cur)
           s == l.state
           u == Lookup(s, c.char)
<1>1. l.cur \in Nat /\ s \in DOMAIN DfaStates
  BY DEF LoopState
<1>2. Turn[l] = IF Over(l) THEN l
                ELSE CASE u = NoTarget -> Broken(l, c.next)
                       [] u = MissLoop -> Passed(l, c.next)
                       [] u = HitLoop  -> IF c.char \in Ascii THEN Looped(l, c.next)
                                          ELSE Passed(l, c.next)
                       [] OTHER        -> IF DfaStates[u].accept = NoSymbol THEN Moved(l, c.next, u)
                                          ELSE Hits(l, c.next, u, DfaStates[u].accept)
  BY DEF Turn, Over, Broken, Passed, Looped, Moved, Hits
<1>3. c.char \in Nat
  BY <1>1, DecodeTyped
<1> SUFFICES ASSUME ~Over(l)
    PROVE \/ Takes(s, c.char) = {} /\ Turn[l] = Broken(l, c.next)
          \/ \E i \in Takes(s, c.char) :
               LET t == DfaStates[s].edges[i].target
                   a == DfaStates[t].accept
               IN \/ t = s /\ a # NoSymbol /\ c.char \in Ascii /\ Turn[l] = Looped(l, c.next)
                  \/ t = s /\ (a = NoSymbol \/ c.char \notin Ascii) /\ Turn[l] = Passed(l, c.next)
                  \/ t # s /\ a = NoSymbol /\ Turn[l] = Moved(l, c.next, t)
                  \/ t # s /\ a # NoSymbol /\ Turn[l] = Hits(l, c.next, t, a)
  BY <1>2
<1>4. CASE Takes(s, c.char) = {}
  <2>1. u = NoTarget
    BY <1>1, <1>3, <1>4, LookupExact
  <2>2. Turn[l] = Broken(l, c.next)
    <3> HIDE DEF c, s, u
    <3> QED
      BY <1>2, <2>1 DEF NoTarget, MissLoop, HitLoop
  <2> QED
    BY <1>4, <2>2
<1>5. CASE Takes(s, c.char) # {}
  <2>1. PICK i \in Takes(s, c.char) : TRUE
    BY <1>5
  <2> DEFINE t == DfaStates[s].edges[i].target
             a == DfaStates[t].accept
  <2>2. t \in DOMAIN DfaStates \cap Nat
    BY <1>1, <2>1, EdgeTyped DEF Takes
  <2>3. u = Entry(s, DfaStates[s].edges[i])
    BY <1>1, <1>3, <2>1, LookupExact
  <2>4. u = IF t # s THEN t ELSE IF DfaStates[s].accept # NoSymbol THEN HitLoop ELSE MissLoop
    BY <2>3 DEF Entry
  <2> HIDE DEF c, s, u, t
  <2>5. NoTarget \notin Nat /\ HitLoop \notin Nat /\ MissLoop \notin Nat
        /\ NoTarget # HitLoop /\ NoTarget # MissLoop /\ HitLoop # MissLoop
    BY DEF NoTarget, HitLoop, MissLoop
  <2>6. CASE t = s /\ a # NoSymbol /\ c.char \in Ascii
    <3>1. Turn[l] = Looped(l, c.next)
      BY <1>2, <2>4, <2>5, <2>6
    <3> QED
      BY <2>1, <2>6, <3>1 DEF t
  <2>7. CASE t = s /\ (a = NoSymbol \/ c.char \notin Ascii)
    <3>1. Turn[l] = Passed(l, c.next)
      BY <1>2, <2>4, <2>5, <2>7
    <3> QED
      BY <2>1, <2>7, <3>1 DEF t
  <2>8. CASE t # s /\ a = NoSymbol
    <3>1. Turn[l] = Moved(l, c.next, t)
      BY <1>2, <2>2, <2>4, <2>5, <2>8
    <3> QED
      BY <2>1, <2>8, <3>1 DEF t
  <2>9. CASE t # s /\ a # NoSymbol
    <3>1. Turn[l] = Hits(l, c.next, t, a)
      BY <1>2, <2>2, <2>4, <2>5, <2>9
    <3> QED
      BY <2>1, <2>9, <3>1 DEF t
  <2> QED
    BY <2>6, <2>7, <2>8, <2>9
<1> QED
  BY <1>4, <1>5

\* The symbols the DFA accepts.
Accepted == {DfaStates[s].accept : s \in DOMAIN DfaStates} \ {NoSymbol}

LEMMA AcceptedTyped ==
  ASSUME NEW s \in DOMAIN DfaStates
  PROVE  /\ DfaStates[s].accept \in DOMAIN SymbolType \cup {NoSymbol}
         /\ DfaStates[s].accept # NoSymbol => DfaStates[s].accept \in Accepted
BY DfaTyped DEF Accepted

\* What a turn made of l, field by field.
Fields(m, cur, at, hit_symbol, hit_cur, broken) ==
  /\ m \in LoopState
  /\ m.cur = cur /\ m.state = at /\ m.hit_symbol = hit_symbol /\ m.hit_cur = hit_cur
  /\ m.broken = broken

LEMMA UpdatesTyped ==
  ASSUME NEW l \in LoopState, NEW next \in Nat, NEW t \in DOMAIN DfaStates,
         NEW a \in DOMAIN SymbolType \cup {NoSymbol}
  PROVE  /\ Fields(Broken(l, next), next, l.state, l.hit_symbol, l.hit_cur, TRUE)
         /\ Fields(Passed(l, next), next, l.state, l.hit_symbol, l.hit_cur, l.broken)
         /\ Fields(Looped(l, next), next, l.state, l.hit_symbol, next, l.broken)
         /\ Fields(Moved(l, next, t), next, t, l.hit_symbol, l.hit_cur, l.broken)
         /\ Fields(Hits(l, next, t, a), next, t, a, next, l.broken)
<1>0. PICK c \in Nat, st \in DOMAIN DfaStates, sy \in DOMAIN SymbolType \cup {NoSymbol},
           hc \in Nat, br \in BOOLEAN :
        l = [cur |-> c, state |-> st, hit_symbol |-> sy, hit_cur |-> hc, broken |-> br]
  <2>1. l = [cur |-> l.cur, state |-> l.state, hit_symbol |-> l.hit_symbol,
             hit_cur |-> l.hit_cur, broken |-> l.broken]
    BY DEF LoopState
  <2>2. /\ l.cur \in Nat /\ l.state \in DOMAIN DfaStates
        /\ l.hit_symbol \in DOMAIN SymbolType \cup {NoSymbol}
        /\ l.hit_cur \in Nat /\ l.broken \in BOOLEAN
    BY DEF LoopState
  <2> QED
    BY <2>1, <2>2
<1>1. Passed(l, next) = [cur |-> next, state |-> l.state, hit_symbol |-> l.hit_symbol,
                         hit_cur |-> l.hit_cur, broken |-> l.broken]
  BY <1>0 DEF Passed
<1> DEFINE p == Passed(l, next)
           m == Moved(l, next, t)
           h == [m EXCEPT !.hit_symbol = a]
<1> HIDE DEF p
<1>2. Broken(l, next) = [p EXCEPT !.broken = TRUE] /\ Looped(l, next) = [p EXCEPT !.hit_cur = next]
      /\ m = [p EXCEPT !.state = t]
  BY DEF p, Passed, Broken, Looped, Moved
<1>3. /\ Broken(l, next) = [cur |-> next, state |-> l.state, hit_symbol |-> l.hit_symbol,
                            hit_cur |-> l.hit_cur, broken |-> TRUE]
      /\ Looped(l, next) = [cur |-> next, state |-> l.state, hit_symbol |-> l.hit_symbol,
                            hit_cur |-> next, broken |-> l.broken]
      /\ m = [cur |-> next, state |-> t, hit_symbol |-> l.hit_symbol,
              hit_cur |-> l.hit_cur, broken |-> l.broken]
  <2>1. p = [cur |-> next, state |-> l.state, hit_symbol |-> l.hit_symbol,
             hit_cur |-> l.hit_cur, broken |-> l.broken]
    BY <1>1 DEF p
  <2> HIDE DEF m
  <2>2. Broken(l, next) = [cur |-> next, state |-> l.state, hit_symbol |-> l.hit_symbol,
                           hit_cur |-> l.hit_cur, broken |-> TRUE]
    BY <1>2, <2>1
  <2>3. Looped(l, next) = [cur |-> next, state |-> l.state, hit_symbol |-> l.hit_symbol,
                           hit_cur |-> next, broken |-> l.broken]
    BY <1>2, <2>1
  <2>4. m = [cur |-> next, state |-> t, hit_symbol |-> l.hit_symbol,
             hit_cur |-> l.hit_cur, broken |-> l.broken]
    BY <1>2, <2>1
  <2> QED
    BY <2>2, <2>3, <2>4
<1>4. Hits(l, next, t, a) = [h EXCEPT !.hit_cur = next]
  BY DEF Moved, Hits
<1> HIDE DEF m
<1>5. h = [cur |-> next, state |-> t, hit_symbol |-> a, hit_cur |-> l.hit_cur, broken |-> l.broken]
  BY <1>3
<1> HIDE DEF h
<1>6. Hits(l, next, t, a) = [cur |-> next, state |-> t, hit_symbol |-> a, hit_cur |-> next,
                             broken |-> l.broken]
  BY <1>4, <1>5
<1>7. /\ l.state \in DOMAIN DfaStates /\ l.hit_symbol \in DOMAIN SymbolType \cup {NoSymbol}
      /\ l.hit_cur \in Nat /\ l.broken \in BOOLEAN
  BY <1>0
<1>8. \A cur \in Nat, at \in DOMAIN DfaStates, hit_symbol \in DOMAIN SymbolType \cup {NoSymbol},
         hit_cur \in Nat, broken \in BOOLEAN :
        Fields([cur |-> cur, state |-> at, hit_symbol |-> hit_symbol,
                hit_cur |-> hit_cur, broken |-> broken], cur, at, hit_symbol, hit_cur, broken)
  BY DEF Fields, LoopState
<1>9. Fields(Broken(l, next), next, l.state, l.hit_symbol, l.hit_cur, TRUE)
  BY <1>3, <1>7, <1>8
<1>10. Fields(Passed(l, next), next, l.state, l.hit_symbol, l.hit_cur, l.broken)
  BY <1>1, <1>7, <1>8
<1>11. Fields(Looped(l, next), next, l.state, l.hit_symbol, next, l.broken)
  BY <1>3, <1>7, <1>8
<1>12. Fields(Moved(l, next, t), next, t, l.hit_symbol, l.hit_cur, l.broken)
  BY <1>3, <1>7, <1>8 DEF m
<1>13. Fields(Hits(l, next, t, a), next, t, a, next, l.broken)
  BY <1>6, <1>7, <1>8
<1> QED
  BY <1>9, <1>10, <1>11, <1>12, <1>13

LEMMA TurnUpdates ==
  ASSUME buf \in Seq(0..255), NEW l \in LoopState, ~Over(l)
  PROVE  \E t \in DOMAIN DfaStates :
           LET next == Decode(l.cur).next
               a    == DfaStates[t].accept
           IN \/ Turn[l] \in {Broken(l, next), Passed(l, next), Looped(l, next), Moved(l, next, t)}
              \/ a # NoSymbol /\ Turn[l] = Hits(l, next, t, a)
<1> DEFINE c == Decode(l.cur)
           taken == Takes(l.state, c.char)
           e(i) == DfaStates[l.state].edges[i].target
<1>1. l.state \in DOMAIN DfaStates
  BY DEF LoopState
<1>2. CASE taken = {}
  <2>1. Turn[l] = Broken(l, c.next)
    BY <1>2, TurnCases
  <2> QED
    BY <1>1, <2>1
<1>3. CASE taken # {}
  <2>1. PICK i \in taken :
          \/ Turn[l] \in {Looped(l, c.next), Passed(l, c.next), Moved(l, c.next, e(i))}
          \/ /\ DfaStates[e(i)].accept # NoSymbol
             /\ Turn[l] = Hits(l, c.next, e(i), DfaStates[e(i)].accept)
    <3> HIDE DEF c
    <3> QED
      BY <1>3, TurnCases DEF c
  <2>2. e(i) \in DOMAIN DfaStates
    BY <1>1, <2>1, EdgeTyped DEF Takes
  <2> QED
    BY <2>1, <2>2
<1> QED
  BY <1>2, <1>3

LEMMA TurnTyped ==
  ASSUME buf \in Seq(0..255)
  PROVE  Turn \in [LoopState -> LoopState]
<1>1. Turn = [l \in LoopState |-> Turn[l]]
  BY DEF Turn
<1> SUFFICES ASSUME NEW l \in LoopState PROVE Turn[l] \in LoopState
  BY <1>1
<1>2. CASE Over(l)
  BY <1>2, TurnCases
<1>3. CASE ~Over(l)
  <2>1. l.cur \in Nat /\ l.state \in DOMAIN DfaStates
    BY DEF LoopState
  <2>2. Decode(l.cur).next \in Nat
    BY <2>1, DecodeTyped
  <2> DEFINE next == Decode(l.cur).next
  <2>3. PICK t \in DOMAIN DfaStates :
          \/ Turn[l] \in {Broken(l, next), Passed(l, next), Looped(l, next), Moved(l, next, t)}
          \/ Turn[l] = Hits(l, next, t, DfaStates[t].accept)
    BY <1>3, TurnUpdates
  <2>4. DfaStates[t].accept \in DOMAIN SymbolType \cup {NoSymbol}
    BY AcceptedTyped
  <2>5. /\ Broken(l, next) \in LoopState /\ Passed(l, next) \in LoopState
        /\ Looped(l, next) \in LoopState /\ Moved(l, next, t) \in LoopState
        /\ Hits(l, next, t, DfaStates[t].accept) \in LoopState
    <3> HIDE DEF next
    <3>1. next \in Nat
      BY <2>2 DEF next
    <3> QED
      BY <2>4, <3>1, UpdatesTyped DEF Fields
  <2> HIDE DEF next
  <2> QED
    BY <2>3, <2>5
<1> QED
  BY <1>2, <1>3

LoopStart == [cur |-> buf_cur, state |-> DfaInit, hit_symbol |-> NoSymbol, hit_cur |-> 0,
              broken |-> FALSE]

LEMMA ScanTurns ==
  ASSUME buf \in Seq(0..255), buf_cur \in Nat
  PROVE  /\ Scan \in [Nat -> LoopState]
         /\ Scan[0] = LoopStart
         /\ \A n \in Nat : Scan[n + 1] = Turn[Scan[n]]
<1>1. LoopStart \in LoopState
  BY DfaTyped DEF LoopStart, LoopState
<1> DEFINE step == [x \in (Nat \ {0}) \X LoopState |-> Turn[x[2]]]
<1>2. step \in [(Nat \ {0}) \X LoopState -> LoopState]
  BY TurnTyped
<1> HIDE DEF step
<1>4. PICK f : Recurs(f, LoopState, LoopStart, step)
  BY <1>1, <1>2, RecursiveFunction
<1> DEFINE IsScan(g) == g = [n \in Nat |-> IF n = 0 THEN LoopStart ELSE Turn[g[n - 1]]]
<1>5. IsScan(f)
  <2>1. \A n \in Nat : n # 0 => step[<<n, f[n - 1]>>] = Turn[f[n - 1]]
    <3>1. \A n \in Nat : n # 0 => <<n, f[n - 1]>> \in (Nat \ {0}) \X LoopState
      BY <1>4 DEF Recurs
    <3> QED
      BY <3>1 DEF step
  <2> HIDE DEF step
  <2> QED
    BY <1>4, <2>1 DEF Recurs
<1>6. Scan = CHOOSE g : IsScan(g)
  BY DEF Scan, LoopStart
<1> HIDE DEF IsScan, step
<1>7. IsScan(Scan)
  BY <1>5, <1>6
<1>8. Scan = [n \in Nat |-> IF n = 0 THEN LoopStart ELSE Turn[Scan[n - 1]]]
  BY <1>7 DEF IsScan
<1> DEFINE T == {n \in Nat : Scan[n] \in LoopState}
<1>9. \A n \in Nat : n \in T
  <2>1. 0 \in T
    BY <1>1, <1>8
  <2>2. ASSUME NEW n \in Nat, n \in T PROVE n + 1 \in T
    <3>1. Scan[n + 1] = Turn[Scan[n]]
      BY <1>8
    <3> QED
      BY <2>2, <3>1, TurnTyped
  <2> HIDE DEF T
  <2> QED
    BY <2>1, <2>2, Induction
<1>10. Scan \in [Nat -> LoopState]
  BY <1>8, <1>9
<1>11. \A n \in Nat : Scan[n + 1] = Turn[Scan[n]]
  BY <1>8
<1>12. Scan[0] = LoopStart
  BY <1>8
<1> QED
  BY <1>10, <1>11, <1>12

\* What holds of the loop after n turns: it stands behind the cursor where it has
\* taken a byte, what it has hit is no end of the text, and it has taken n bytes or
\* is over.
Scanned(l, n) ==
  /\ l.cur >= buf_cur
  /\ l.broken => l.cur > buf_cur
  /\ l.hit_symbol # NoSymbol => l.hit_symbol \in Accepted /\ l.hit_cur > buf_cur
  /\ Over(l) \/ l.cur >= buf_cur + n
  /\ buf_cur >= Len(buf) => l.cur = buf_cur /\ l.hit_symbol = NoSymbol

LEMMA ScanScanned ==
  ASSUME buf \in Seq(0..255), buf_cur \in Nat
  PROVE  \A n \in Nat : Scanned(Scan[n], n)
<1> DEFINE T == {n \in Nat : Scanned(Scan[n], n)}
<1>0. Len(buf) \in Nat
  BY LenProperties
<1>1. 0 \in T
  BY <1>0, ScanTurns DEF Scanned, LoopStart
<1>2. ASSUME NEW n \in Nat, n \in T PROVE n + 1 \in T
  <2> DEFINE l == Scan[n]
             m == Turn[l]
             next == Decode(l.cur).next
  <2>1. l \in LoopState /\ Scan[n + 1] = m /\ Scanned(l, n)
    BY <1>2, ScanTurns
  <2>2. l.cur \in Nat /\ l.hit_cur \in Nat /\ l.state \in DOMAIN DfaStates
    BY <2>1 DEF LoopState
  <2>3. next \in Nat /\ l.cur < next
    BY <2>2, DecodeTyped
  <2>4. CASE Over(l)
    <3>1. m = l
      BY <2>1, <2>4, TurnCases
    <3> QED
      BY <2>1, <2>4, <3>1 DEF Scanned
  <2>5. CASE ~Over(l)
    <3>1. ~(buf_cur >= Len(buf)) /\ l.cur >= buf_cur + n /\ l.cur >= buf_cur
      BY <1>0, <2>1, <2>2, <2>5 DEF Scanned, Over
    <3>2. PICK t \in DOMAIN DfaStates :
            \/ m \in {Broken(l, next), Passed(l, next), Looped(l, next), Moved(l, next, t)}
            \/ DfaStates[t].accept # NoSymbol /\ m = Hits(l, next, t, DfaStates[t].accept)
      BY <2>1, <2>5, TurnUpdates
    <3>3. /\ m.cur = next
          /\ \/ m.hit_symbol = l.hit_symbol /\ m.hit_cur \in {l.hit_cur, next}
             \/ m.hit_symbol \in Accepted /\ m.hit_cur = next
      <4> DEFINE a == DfaStates[t].accept
      <4>1. a \in DOMAIN SymbolType \cup {NoSymbol} /\ (a # NoSymbol => a \in Accepted)
        BY AcceptedTyped
      <4>2. \/ m \in {Broken(l, next), Passed(l, next), Looped(l, next), Moved(l, next, t)}
            \/ a # NoSymbol /\ m = Hits(l, next, t, a)
        BY <3>2
      <4>3. l \in LoopState /\ next \in Nat
        BY <2>1, <2>3
      <4> HIDE DEF l, m, next, a
      <4>4. CASE m = Broken(l, next)
        <5>1. Fields(m, next, l.state, l.hit_symbol, l.hit_cur, TRUE)
          BY <4>1, <4>3, <4>4, UpdatesTyped
        <5> QED
          BY <4>1, <4>4, <5>1 DEF Fields
      <4>5. CASE m = Passed(l, next)
        <5>1. Fields(m, next, l.state, l.hit_symbol, l.hit_cur, l.broken)
          BY <4>1, <4>3, <4>5, UpdatesTyped
        <5> QED
          BY <4>1, <4>5, <5>1 DEF Fields
      <4>6. CASE m = Looped(l, next)
        <5>1. Fields(m, next, l.state, l.hit_symbol, next, l.broken)
          BY <4>1, <4>3, <4>6, UpdatesTyped
        <5> QED
          BY <4>1, <4>6, <5>1 DEF Fields
      <4>7. CASE m = Moved(l, next, t)
        <5>1. Fields(m, next, t, l.hit_symbol, l.hit_cur, l.broken)
          BY <4>1, <4>3, <4>7, UpdatesTyped
        <5> QED
          BY <4>1, <4>7, <5>1 DEF Fields
      <4>8. CASE a # NoSymbol /\ m = Hits(l, next, t, a)
        <5>1. Fields(m, next, t, a, next, l.broken)
          BY <4>1, <4>3, <4>8, UpdatesTyped
        <5> QED
          BY <4>1, <4>8, <5>1 DEF Fields
      <4> QED
        BY <4>2, <4>4, <4>5, <4>6, <4>7, <4>8
    <3> HIDE DEF l, m, next
    <3>4. next > buf_cur /\ next >= buf_cur + (n + 1)
      BY <2>2, <2>3, <3>1
    <3>5. m.hit_symbol # NoSymbol => m.hit_symbol \in Accepted /\ m.hit_cur > buf_cur
      BY <2>1, <3>3, <3>4 DEF Scanned
    <3>6. Scanned(m, n + 1)
      BY <2>2, <2>3, <3>1, <3>3, <3>4, <3>5 DEF Scanned
    <3> QED
      BY <2>1, <3>6
  <2> QED
    BY <2>4, <2>5
<1> HIDE DEF T
<1>3. \A n \in Nat : n \in T
  BY <1>1, <1>2, Induction
<1> QED
  BY <1>3 DEF T
-----------------------------------------------------------------------------
(* The longest match.                                                      *)

Points == [end : Nat, state : DOMAIN DfaStates, counts : BOOLEAN]

PathStep(points) ==
  UNION {LET c == Decode(p.end)
         IN {[end |-> c.next, state |-> t, counts |-> t # p.state \/ c.char \in Ascii] :
               t \in IF p.end < Len(buf) THEN Target(p.state, c.char) ELSE {}} :
         p \in points}

PathRules(f) == /\ f[0] = {[end |-> begun, state |-> DfaInit, counts |-> TRUE]}
                /\ \A n \in Nat : f[n + 1] = PathStep(f[n])

LEMMA TargetTyped ==
  ASSUME NEW s \in DOMAIN DfaStates, NEW c
  PROVE  Target(s, c) \subseteq DOMAIN DfaStates
BY EdgeTyped DEF Target, Takes

LEMMA PathStepTyped ==
  ASSUME buf \in Seq(0..255), NEW points \in SUBSET Points
  PROVE  PathStep(points) \in SUBSET Points
<1> SUFFICES ASSUME NEW p \in points, NEW t \in Target(p.state, Decode(p.end).char)
             PROVE  [end |-> Decode(p.end).next, state |-> t,
                     counts |-> t # p.state \/ Decode(p.end).char \in Ascii] \in Points
  BY DEF PathStep
<1>1. p \in Points
  OBVIOUS
<1>2. p.end \in Nat /\ p.state \in DOMAIN DfaStates
  BY <1>1 DEF Points
<1>3. Decode(p.end).next \in Nat /\ t \in DOMAIN DfaStates
  BY <1>2, DecodeTyped, TargetTyped
<1>4. (t # p.state \/ Decode(p.end).char \in Ascii) \in BOOLEAN
  OBVIOUS
<1> QED
  BY <1>3, <1>4 DEF Points

THEOREM PathsFollowRules == buf \in Seq(0..255) /\ begun \in Nat => PathRules(Paths)
<1> SUFFICES ASSUME buf \in Seq(0..255), begun \in Nat PROVE PathRules(Paths)
  OBVIOUS
<1> DEFINE V == SUBSET Points
           base == {[end |-> begun, state |-> DfaInit, counts |-> TRUE]}
           step == [x \in (Nat \ {0}) \X V |-> PathStep(x[2])]
           IsPaths(g) == g = [n \in Nat |-> IF n = 0 THEN base ELSE PathStep(g[n - 1])]
<1>1. base \in V
  BY DfaTyped DEF Points
<1>2. step \in [(Nat \ {0}) \X V -> V]
  BY PathStepTyped
<1> HIDE DEF base, step, V
<1>3. PICK f : Recurs(f, V, base, step)
  BY <1>1, <1>2, RecursiveFunction
<1>4. f \in [Nat -> V] /\ f = [n \in Nat |-> IF n = 0 THEN base ELSE step[<<n, f[n - 1]>>]]
  BY <1>3 DEF Recurs
<1>5. IsPaths(f)
  <2>1. \A n \in Nat : n # 0 => step[<<n, f[n - 1]>>] = PathStep(f[n - 1])
    <3>1. \A n \in Nat : n # 0 => <<n, f[n - 1]>> \in (Nat \ {0}) \X V
      BY <1>4
    <3> QED
      BY <3>1 DEF step
  <2> QED
    BY <1>4, <2>1
<1>6. Paths = CHOOSE g : IsPaths(g)
  BY DEF Paths, PathStep, base
<1> HIDE DEF IsPaths
<1>7. IsPaths(Paths)
  BY <1>5, <1>6
<1>8. Paths = [n \in Nat |-> IF n = 0 THEN base ELSE PathStep(Paths[n - 1])]
  BY <1>7 DEF IsPaths
<1>9. Paths[0] = base
  BY <1>8
<1>10. ASSUME NEW n \in Nat PROVE Paths[n + 1] = PathStep(Paths[n])
  <2>1. n + 1 \in Nat /\ n + 1 # 0 /\ n + 1 - 1 = n
    OBVIOUS
  <2> QED
    BY <1>8, <2>1
<1> QED
  BY <1>9, <1>10 DEF PathRules, base

\* next is what follows one place: one place at most.
Single(e, s, next) ==
  LET c == Decode(e)
  IN /\ e >= Len(buf) \/ Takes(s, c.char) = {} => next = {}
     /\ ~(e >= Len(buf)) => \A i \in Takes(s, c.char) :
          LET t == DfaStates[s].edges[i].target
          IN next = {[end |-> c.next, state |-> t, counts |-> t # s \/ c.char \in Ascii]}

LEMMA PathStepSingle ==
  ASSUME buf \in Seq(0..255), NEW e \in Nat, NEW s \in DOMAIN DfaStates, NEW counts
  PROVE  Single(e, s, PathStep({[end |-> e, state |-> s, counts |-> counts]}))
<1> DEFINE c == Decode(e)
           at(t) == [end |-> c.next, state |-> t, counts |-> t # s \/ c.char \in Ascii]
           next == PathStep({[end |-> e, state |-> s, counts |-> counts]})
<1>1. next = {at(t) : t \in IF e < Len(buf) THEN Target(s, c.char) ELSE {}}
  <2> DEFINE p == [end |-> e, state |-> s, counts |-> counts]
  <2>1. p.end = e /\ p.state = s
    OBVIOUS
  <2> HIDE DEF p
  <2>2. PathStep({p}) = {[end |-> Decode(p.end).next, state |-> t,
                          counts |-> t # p.state \/ Decode(p.end).char \in Ascii] :
                           t \in IF p.end < Len(buf) THEN Target(p.state, Decode(p.end).char) ELSE {}}
    BY DEF PathStep
  <2> QED
    BY <2>1, <2>2 DEF p
<1>2. Len(buf) \in Nat /\ c.char \in Nat
  BY LenProperties, DecodeTyped
<1> HIDE DEF at, next
<1>3. Takes(s, c.char) = {} => Target(s, c.char) = {}
  BY DEF Target
<1>4. \A i \in Takes(s, c.char) : Target(s, c.char) = {DfaStates[s].edges[i].target}
  BY <1>2, SingleEdge DEF Target
<1>5. e >= Len(buf) \/ Takes(s, c.char) = {} => next = {}
  BY <1>1, <1>2, <1>3
<1>6. ~(e >= Len(buf)) => \A i \in Takes(s, c.char) : next = {at(DfaStates[s].edges[i].target)}
  BY <1>1, <1>2, <1>4
<1> QED
  BY <1>5, <1>6 DEF at, next, Single

\* The places passed in n turns, and those of them that count as hits.
Passing(f, n) == UNION {f[k] : k \in 0..n}

HitsOf(points) == {p \in points : p.counts /\ DfaStates[p.state].accept # NoSymbol}

\* What was hit is the last of the hits.
LastHit(l, hits) ==
  IF hits = {} THEN l.hit_symbol = NoSymbol
  ELSE \E h \in hits : /\ \A g \in hits : g.end <= h.end
                       /\ l.hit_cur = h.end /\ l.hit_symbol = DfaStates[h.state].accept
                       /\ l.hit_symbol # NoSymbol

\* The loop is where the path is, or it is over and the path at its end.
Follows(l, points) ==
  \/ /\ ~l.broken
     /\ \E counts \in BOOLEAN : points = {[end |-> l.cur, state |-> l.state, counts |-> counts]}
     /\ DfaStates[l.state].accept # NoSymbol => l.hit_symbol = DfaStates[l.state].accept
  \/ Over(l) /\ points = {}

Tracks(l, f, n) == /\ Follows(l, f[n])
                   /\ Passing(f, n) \subseteq Points
                   /\ \A p \in Passing(f, n) : p.end <= l.cur
                   /\ LastHit(l, HitsOf(Passing(f, n)))

LEMMA PassingMore ==
  ASSUME NEW f, NEW n \in Nat
  PROVE  Passing(f, n + 1) = Passing(f, n) \cup f[n + 1]
<1>1. 0..(n + 1) = (0..n) \cup {n + 1}
  OBVIOUS
<1> QED
  BY <1>1 DEF Passing

\* A turn that hits nothing, and one that does.
LEMMA NoNewHit ==
  ASSUME NEW l \in LoopState, NEW m, NEW points, NEW more,
         LastHit(l, HitsOf(points)), m.hit_symbol = l.hit_symbol, m.hit_cur = l.hit_cur,
         HitsOf(more) = {}
  PROVE  LastHit(m, HitsOf(points \cup more))
<1>1. HitsOf(points \cup more) = HitsOf(points)
  BY DEF HitsOf
<1> QED
  BY <1>1 DEF LastHit

LEMMA NewHit ==
  ASSUME NEW m, NEW points, NEW e \in Nat, NEW s,
         points \subseteq Points, \A p \in points : p.end <= e,
         DfaStates[s].accept # NoSymbol,
         m.hit_symbol = DfaStates[s].accept, m.hit_cur = e
  PROVE  LastHit(m, HitsOf(points \cup {[end |-> e, state |-> s, counts |-> TRUE]}))
<1> DEFINE h == [end |-> e, state |-> s, counts |-> TRUE]
           hits == HitsOf(points \cup {h})
<1>1. h \in hits /\ h.end = e /\ h.state = s
  BY DEF HitsOf
<1>2. \A g \in hits : g.end <= e
  BY DEF HitsOf
<1> HIDE DEF h, hits
<1> QED
  BY <1>1, <1>2 DEF LastHit, hits, h

\* A turn of the loop is a step of the path.
LEMMA TurnTracks ==
  ASSUME buf \in Seq(0..255), NEW l \in LoopState, NEW f, NEW n \in Nat,
         f[n + 1] = PathStep(f[n]), Tracks(l, f, n)
  PROVE  Tracks(Turn[l], f, n + 1)
<1> DEFINE c == Decode(l.cur)
           m == Turn[l]
           old == Passing(f, n)
           more == f[n + 1]
           s == l.state
<1>0. /\ l.cur \in Nat /\ l.hit_cur \in Nat /\ s \in DOMAIN DfaStates /\ Len(buf) \in Nat
      /\ c.char \in Nat /\ c.next \in Nat /\ l.cur < c.next
  BY LenProperties, DecodeTyped DEF LoopState
<1>1. /\ Follows(l, f[n]) /\ old \subseteq Points /\ \A p \in old : p.end <= l.cur
      /\ LastHit(l, HitsOf(old)) /\ Passing(f, n + 1) = old \cup more
  BY PassingMore DEF Tracks
<1>2. CASE f[n] = {}
  <2>1. more = {}
    BY <1>2 DEF PathStep
  <2>2. Over(l)
    BY <1>1, <1>2 DEF Follows
  <2>3. m = l
    BY <2>2, TurnCases
  <2>4. Passing(f, n + 1) = old
    BY <1>1, <2>1
  <2> QED
    BY <1>1, <2>1, <2>2, <2>3, <2>4 DEF Tracks, Follows
<1>3. CASE f[n] # {}
  <2>1. /\ ~l.broken
        /\ DfaStates[s].accept # NoSymbol => l.hit_symbol = DfaStates[s].accept
    BY <1>1, <1>3 DEF Follows
  <2>2. PICK counts \in BOOLEAN : f[n] = {[end |-> l.cur, state |-> s, counts |-> counts]}
    BY <1>1, <1>3 DEF Follows
  <2>3. /\ l.cur >= Len(buf) \/ Takes(s, c.char) = {} => more = {}
        /\ ~(l.cur >= Len(buf)) => \A i \in Takes(s, c.char) :
             LET t == DfaStates[s].edges[i].target
             IN more = {[end |-> c.next, state |-> t, counts |-> t # s \/ c.char \in Ascii]}
    <3>1. more = PathStep({[end |-> l.cur, state |-> s, counts |-> counts]})
      BY <2>2
    <3>2. Single(l.cur, s, more)
      <4> HIDE DEF more
      <4> QED
        BY <1>0, <3>1, PathStepSingle
    <3> HIDE DEF more
    <3> QED
      BY <3>2 DEF Single
  <2>4. CASE Over(l)
    <3>1. l.cur >= Len(buf)
      BY <2>1, <2>4 DEF Over
    <3>2. m = l /\ more = {}
      BY <2>3, <2>4, <3>1, TurnCases
    <3>3. Passing(f, n + 1) = old
      BY <1>1, <3>2
    <3> QED
      BY <1>1, <2>4, <3>2, <3>3 DEF Tracks, Follows
  <2>5. CASE ~Over(l) /\ Takes(s, c.char) = {}
    <3>1. m = Broken(l, c.next) /\ more = {}
      <4> HIDE DEF c
      <4> QED
        BY <2>3, <2>5, TurnCases DEF c
    <3>2. Fields(m, c.next, s, l.hit_symbol, l.hit_cur, TRUE)
      <4>1. DfaInit \in DOMAIN DfaStates /\ NoSymbol \in DOMAIN SymbolType \cup {NoSymbol}
        BY DfaTyped
      <4> HIDE DEF c, m
      <4> QED
        BY <1>0, <3>1, <4>1, UpdatesTyped DEF c
    <3> HIDE DEF c, m
    <3>3. m.cur = c.next /\ m.broken /\ m.hit_symbol = l.hit_symbol /\ m.hit_cur = l.hit_cur
      BY <3>2 DEF Fields
    <3>4. Passing(f, n + 1) = old
      BY <1>1, <3>1
    <3>5. \A p \in old : p.end <= m.cur
      <4>1. \A p \in old : p.end \in Nat
        BY <1>1 DEF Points
      <4> QED
        BY <1>0, <1>1, <3>3, <4>1
    <3>6. LastHit(m, HitsOf(old))
      BY <1>1, <3>3 DEF LastHit
    <3>7. Follows(m, more)
      BY <3>1, <3>3 DEF Follows, Over
    <3> QED
      BY <1>1, <3>4, <3>5, <3>6, <3>7 DEF Tracks, m
  <2>6. CASE ~Over(l) /\ Takes(s, c.char) # {}
    <3>1. ~(l.cur >= Len(buf))
      BY <2>6 DEF Over
    <3>2. PICK i \in Takes(s, c.char) :
            LET t == DfaStates[s].edges[i].target
                a == DfaStates[t].accept
            IN \/ t = s /\ a # NoSymbol /\ c.char \in Ascii /\ m = Looped(l, c.next)
               \/ t = s /\ (a = NoSymbol \/ c.char \notin Ascii) /\ m = Passed(l, c.next)
               \/ t # s /\ a = NoSymbol /\ m = Moved(l, c.next, t)
               \/ t # s /\ a # NoSymbol /\ m = Hits(l, c.next, t, a)
      <4> HIDE DEF c, s, m
      <4> QED
        BY <2>6, TurnCases DEF c, s, m
    <3> DEFINE t == DfaStates[s].edges[i].target
               a == DfaStates[t].accept
               ascii == c.char \in Ascii
               next == c.next
               p == [end |-> next, state |-> t, counts |-> t # s \/ ascii]
    <3>3. more = {p}
      BY <2>3, <3>1, <3>2
    <3>4. t \in DOMAIN DfaStates /\ a \in DOMAIN SymbolType \cup {NoSymbol} /\ next \in Nat
          /\ l.cur < next
      BY <1>0, <3>2, EdgeTyped, AcceptedTyped DEF Takes
    <3>5. \/ t = s /\ a # NoSymbol /\ ascii /\ m = Looped(l, next)
          \/ t = s /\ (a = NoSymbol \/ ~ascii) /\ m = Passed(l, next)
          \/ t # s /\ a = NoSymbol /\ m = Moved(l, next, t)
          \/ t # s /\ a # NoSymbol /\ m = Hits(l, next, t, a)
      BY <3>2
    <3>6. l.hit_symbol = a \/ a = NoSymbol \/ t # s
      BY <2>1
    <3>7. p \in Points /\ p.end = next /\ p.state = t /\ p.counts = (t # s \/ ascii)
      <4> HIDE DEF next, ascii, t
      <4> QED
        BY <3>4 DEF Points
    <3> HIDE DEF c, s, m, t, a, ascii, next, p, more, old
    <3>8. /\ m.cur = next /\ m.state = t /\ ~m.broken
          /\ \/ t = s /\ a # NoSymbol /\ ascii /\ m.hit_symbol = l.hit_symbol /\ m.hit_cur = next
             \/ /\ (t = s /\ ~ascii) \/ a = NoSymbol
                /\ m.hit_symbol = l.hit_symbol /\ m.hit_cur = l.hit_cur
             \/ t # s /\ a # NoSymbol /\ m.hit_symbol = a /\ m.hit_cur = next
      <4>1. l.broken \in BOOLEAN /\ ~l.broken
        BY <2>1 DEF LoopState
      <4>2. CASE t = s /\ a # NoSymbol /\ ascii /\ m = Looped(l, next)
        <5>1. Fields(m, next, s, l.hit_symbol, next, l.broken)
          BY <3>4, <4>2, UpdatesTyped DEF s
        <5> QED
          BY <4>1, <4>2, <5>1 DEF Fields
      <4>3. CASE t = s /\ (a = NoSymbol \/ ~ascii) /\ m = Passed(l, next)
        <5>1. Fields(m, next, s, l.hit_symbol, l.hit_cur, l.broken)
          BY <3>4, <4>3, UpdatesTyped DEF s
        <5> QED
          BY <4>1, <4>3, <5>1 DEF Fields
      <4>4. CASE t # s /\ a = NoSymbol /\ m = Moved(l, next, t)
        <5>1. Fields(m, next, t, l.hit_symbol, l.hit_cur, l.broken)
          BY <3>4, <4>4, UpdatesTyped DEF s
        <5> QED
          BY <4>1, <4>4, <5>1 DEF Fields
      <4>5. CASE t # s /\ a # NoSymbol /\ m = Hits(l, next, t, a)
        <5>1. Fields(m, next, t, a, next, l.broken)
          BY <3>4, <4>5, UpdatesTyped DEF s
        <5> QED
          BY <4>1, <4>5, <5>1 DEF Fields
      <4> QED
        BY <3>5, <4>2, <4>3, <4>4, <4>5
    <3>9. /\ old \cup more \subseteq Points
          /\ \A q \in old \cup more : q.end <= m.cur
          /\ \A q \in old : q.end <= next
      <4>1. \A q \in old : q.end \in Nat
        BY <1>1 DEF Points
      <4> QED
        BY <1>0, <1>1, <3>3, <3>4, <3>7, <3>8, <4>1
    <3>10. Follows(m, more)
      <4>1. more = {[end |-> m.cur, state |-> m.state, counts |-> (t # s \/ ascii)]}
        BY <3>3, <3>8 DEF p
      <4>2. (t # s \/ ascii) \in BOOLEAN
        OBVIOUS
      <4>3. DfaStates[m.state].accept # NoSymbol => m.hit_symbol = DfaStates[m.state].accept
        BY <3>6, <3>8 DEF a
      <4> QED
        BY <3>8, <4>1, <4>2, <4>3 DEF Follows
    <3>11. LastHit(m, HitsOf(old \cup more))
      <4>1. CASE p.counts /\ a # NoSymbol
        <5>1. m.hit_symbol = a /\ m.hit_cur = next
          BY <3>6, <3>7, <3>8, <4>1
        <5>2. p = [end |-> next, state |-> t, counts |-> TRUE]
          BY <3>7, <4>1 DEF p
        <5> QED
          BY <1>1, <3>3, <3>4, <3>9, <4>1, <5>1, <5>2, NewHit DEF a
      <4>2. CASE ~(p.counts /\ a # NoSymbol)
        <5>1. m.hit_symbol = l.hit_symbol /\ m.hit_cur = l.hit_cur
          BY <3>7, <3>8, <4>2
        <5>2. HitsOf(more) = {}
          BY <3>3, <3>7, <4>2 DEF HitsOf, a
        <5> QED
          BY <1>1, <5>1, <5>2, NoNewHit
      <4> QED
        BY <4>1, <4>2
    <3> QED
      BY <1>1, <3>9, <3>10, <3>11 DEF Tracks, more, m, old
  <2> QED
    BY <2>4, <2>5, <2>6
<1> QED
  BY <1>2, <1>3

\* The loop follows the path to its end.
LEMMA ScanTracks ==
  ASSUME buf \in Seq(0..255), buf_cur \in Nat, NEW f,
         f[0] = {[end |-> buf_cur, state |-> DfaInit, counts |-> TRUE]},
         \A n \in Nat : f[n + 1] = PathStep(f[n])
  PROVE  \A n \in Nat : Tracks(Scan[n], f, n)
<1> DEFINE T == {n \in Nat : Tracks(Scan[n], f, n)}
<1>1. 0 \in T
  <2> DEFINE l == Scan[0]
             p == [end |-> buf_cur, state |-> DfaInit, counts |-> TRUE]
  <2>1. l = LoopStart
    BY ScanTurns
  <2>2. l.cur = buf_cur /\ l.state = DfaInit /\ l.hit_symbol = NoSymbol /\ l.broken = FALSE
    BY <2>1 DEF LoopStart
  <2>3. Passing(f, 0) = {p}
    <3>1. 0..0 = {0}
      OBVIOUS
    <3> QED
      BY <3>1 DEF Passing
  <2>4. p \in Points /\ p.end = buf_cur /\ p.state = DfaInit
    BY DfaTyped DEF Points
  <2> HIDE DEF l, p
  <2>5. DfaStates[DfaInit].accept = NoSymbol
    BY DfaTyped
  <2>6. HitsOf(Passing(f, 0)) = {}
    BY <2>3, <2>4, <2>5 DEF HitsOf
  <2>7. Follows(l, f[0])
    BY <2>2, <2>5 DEF Follows
  <2>8. LastHit(l, HitsOf(Passing(f, 0)))
    BY <2>2, <2>6 DEF LastHit
  <2>9. Passing(f, 0) \subseteq Points /\ \A q \in Passing(f, 0) : q.end <= l.cur
    <3> HIDE DEF Points, Passing
    <3>1. p.end <= l.cur
      BY <2>2, <2>4
    <3> QED
      BY <2>3, <2>4, <3>1
  <2>10. Tracks(l, f, 0)
    BY <2>7, <2>8, <2>9 DEF Tracks
  <2> QED
    BY <2>10 DEF l
<1>2. ASSUME NEW n \in Nat, n \in T PROVE n + 1 \in T
  <2>1. Scan[n] \in LoopState /\ Scan[n + 1] = Turn[Scan[n]]
    BY ScanTurns
  <2>2. Tracks(Scan[n], f, n) /\ f[n + 1] = PathStep(f[n])
    BY <1>2
  <2>3. Tracks(Turn[Scan[n]], f, n + 1)
    BY <2>1, <2>2, TurnTracks
  <2>4. Tracks(Scan[n + 1], f, n + 1)
    <3> HIDE DEF Tracks, Scan, Turn
    <3> QED
      BY <2>1, <2>3
  <2>5. n + 1 \in Nat
    OBVIOUS
  <2> HIDE DEF Tracks, Scan
  <2> QED
    BY <2>4, <2>5
<1> HIDE DEF T
<1>3. \A n \in Nat : n \in T
  BY <1>1, <1>2, Induction
<1> QED
  BY <1>3 DEF T

LEMMA EofTyped ==
  /\ Eof \in DOMAIN SymbolType /\ SymbolType[Eof] = "EndOfFile"
  /\ Error \in DOMAIN SymbolType /\ SymbolType[Error] = "Error"
  /\ Eof # NoSymbol
<1>1. (\E x \in DOMAIN SymbolType : SymbolType[x] = "EndOfFile")
      /\ (\E x \in DOMAIN SymbolType : SymbolType[x] = "Error")
  BY SymbolsTyped
<1> QED
  BY <1>1, SymbolsTyped DEF Eof, Error, OfType

LEMMA AcceptedNotEof ==
  ASSUME NEW x \in Accepted
  PROVE  x \in DOMAIN SymbolType /\ SymbolType[x] # "EndOfFile" /\ x # NoSymbol
<1>1. PICK s \in DOMAIN DfaStates : x = DfaStates[s].accept /\ x # NoSymbol
  BY DEF Accepted
<1> QED
  BY <1>1, AcceptedTyped, SymbolsTyped

\* The end of the text: EOF, and nothing is taken.
EndLexeme(t) == /\ t.lexeme = [symbol |-> Eof, from |-> 0, to |-> 0, place |-> place]
                /\ t.buf_peek = buf_cur

\* A piece of the text that is not empty and begins at the cursor.
PieceLexeme(t) ==
  /\ t.lexeme.symbol \in Accepted \cup {Error}
  /\ t.lexeme = [symbol |-> t.lexeme.symbol, from |-> buf_cur, to |-> t.buf_peek, place |-> place]
  /\ t.buf_peek \in Nat /\ buf_cur < t.buf_peek

\* PeekToken answers with EOF where no byte is left, and with a piece of the text
\* everywhere else.
LEMMA PeekFacts ==
  ASSUME buf \in Seq(0..255), buf_cur \in Nat
  PROVE  IF buf_cur >= Len(buf) THEN EndLexeme(Peek) ELSE PieceLexeme(Peek)
<1> DEFINE l == Scan[Len(buf)]
<1>1. Len(buf) \in Nat
  BY LenProperties
<1>2. l \in LoopState /\ Scanned(l, Len(buf))
  BY <1>1, ScanTurns, ScanScanned
<1>3. Peek = Found(l.hit_symbol, l.hit_cur, l.cur)
  BY DEF Peek
<1>4. l.cur \in Nat /\ l.hit_cur \in Nat
  BY <1>2 DEF LoopState
<1> HIDE DEF l
<1>5. CASE buf_cur >= Len(buf)
  <2>1. l.cur = buf_cur /\ l.hit_symbol = NoSymbol
    BY <1>2, <1>5 DEF Scanned
  <2>2. Peek = Peeked([Lexeme(Eof, 0) EXCEPT !.from = 0], buf_cur)
    BY <1>3, <2>1 DEF Found
  <2> QED
    BY <1>5, <2>2 DEF Peeked, Lexeme, EndLexeme
<1>6. CASE ~(buf_cur >= Len(buf))
  <2>1. l.cur > buf_cur
    BY <1>1, <1>2, <1>4, <1>6 DEF Scanned, Over
  <2>2. CASE l.hit_symbol # NoSymbol
    <3>1. Peek = Peeked(Lexeme(l.hit_symbol, l.hit_cur), l.hit_cur)
      BY <1>3, <2>2 DEF Found
    <3>2. l.hit_symbol \in Accepted /\ l.hit_cur > buf_cur
      BY <1>2, <2>2 DEF Scanned
    <3> QED
      BY <1>4, <1>6, <3>1, <3>2 DEF Peeked, Lexeme, PieceLexeme
  <2>3. CASE l.hit_symbol = NoSymbol
    <3>1. Peek = Peeked(Lexeme(Error, l.cur), l.cur)
      BY <1>3, <1>4, <2>1, <2>3 DEF Found
    <3> QED
      BY <1>4, <1>6, <2>1, <3>1 DEF Peeked, Lexeme, PieceLexeme
  <2> QED
    BY <2>2, <2>3
<1> QED
  BY <1>5, <1>6

LEMMA PieceTyped ==
  ASSUME NEW t, PieceLexeme(t)
  PROVE  /\ t.lexeme.symbol \in DOMAIN SymbolType
         /\ SymbolType[t.lexeme.symbol] # "EndOfFile" /\ t.lexeme.symbol # Eof
         /\ t.lexeme.symbol # NoSymbol
BY EofTyped, AcceptedNotEof, SymbolsTyped DEF PieceLexeme
-----------------------------------------------------------------------------
(* Places in the text.                                                     *)

LEMMA PlacesSteps ==
  ASSUME NEW at \in Nat \X Nat, NEW bytes
  PROVE  /\ Places(at, bytes) \in [Nat -> Nat \X Nat]
         /\ Places(at, bytes)[0] = at
         /\ \A n \in Nat : Places(at, bytes)[n + 1] = Behind(bytes[n + 1])[Places(at, bytes)[n]]
<1> DEFINE V == Nat \X Nat
           step == [x \in (Nat \ {0}) \X V |-> Behind(bytes[x[1]])[x[2]]]
           IsPlaces(g) == g = [n \in Nat |-> IF n = 0 THEN at ELSE Behind(bytes[n])[g[n - 1]]]
           P == Places(at, bytes)
<1>1. \A b : Behind(b) \in [V -> V]
  BY DEF Behind
<1>2. step \in [(Nat \ {0}) \X V -> V]
  <2> HIDE DEF V
  <2> QED
    BY <1>1
<1> HIDE DEF step
<1>3. PICK f : Recurs(f, V, at, step)
  BY <1>2, RecursiveFunction
<1>4. f \in [Nat -> V] /\ f = [n \in Nat |-> IF n = 0 THEN at ELSE step[<<n, f[n - 1]>>]]
  BY <1>3 DEF Recurs
<1>5. IsPlaces(f)
  <2>1. \A n \in Nat : n # 0 => step[<<n, f[n - 1]>>] = Behind(bytes[n])[f[n - 1]]
    <3>1. \A n \in Nat : n # 0 => <<n, f[n - 1]>> \in (Nat \ {0}) \X V
      BY <1>4
    <3> HIDE DEF V
    <3> QED
      BY <3>1 DEF step
  <2> QED
    BY <1>4, <2>1
<1>6. P = CHOOSE g : IsPlaces(g)
  BY DEF Places
<1> HIDE DEF IsPlaces
<1>7. IsPlaces(P)
  BY <1>5, <1>6
<1> HIDE DEF P
<1>8. P = [n \in Nat |-> IF n = 0 THEN at ELSE Behind(bytes[n])[P[n - 1]]]
  BY <1>7 DEF IsPlaces
<1>9. P[0] = at /\ \A n \in Nat : P[n + 1] = Behind(bytes[n + 1])[P[n]]
  BY <1>8
<1> DEFINE T == {n \in Nat : P[n] \in V}
<1>10. \A n \in Nat : n \in T
  <2>1. 0 \in T
    BY <1>9
  <2>2. ASSUME NEW n \in Nat, n \in T PROVE n + 1 \in T
    <3> HIDE DEF V
    <3> QED
      BY <1>1, <1>9, <2>2
  <2> HIDE DEF T
  <2> QED
    BY <2>1, <2>2, Induction
<1>11. P \in [Nat -> V]
  BY <1>8, <1>10
<1> QED
  BY <1>9, <1>11 DEF P

LEMMA BytesFacts ==
  ASSUME NEW m \in Nat, NEW n \in Nat, m <= n
  PROVE  /\ Len(Bytes(m, n)) = n - m
         /\ \A k \in 1..(n - m) : Bytes(m, n)[k] = ByteAt(m + k - 1)
<1>1. Bytes(m, n) = [k \in 1..(n - m) |-> ByteAt(m + k - 1)]
  BY DEF Bytes
<1> QED
  BY <1>1

\* Passing bytes in two parts is passing them at once.
LEMMA PastParts ==
  ASSUME NEW at \in Nat \X Nat, NEW m \in Nat, NEW n \in Nat, m <= n
  PROVE  /\ Past(at, Bytes(0, m)) \in Nat \X Nat
         /\ Past(Past(at, Bytes(0, m)), Bytes(m, n)) = Past(at, Bytes(0, n))
<1> DEFINE F == Places(at, Bytes(0, n))
           G == Places(at, Bytes(0, m))
           H == Places(G[m], Bytes(m, n))
           all == Bytes(0, n)
           left == Bytes(0, m)
           right == Bytes(m, n)
<1>1. /\ Len(all) = n /\ \A k \in 1..n : all[k] = ByteAt(k - 1)
      /\ Len(left) = m /\ \A k \in 1..m : left[k] = ByteAt(k - 1)
      /\ Len(right) = n - m /\ \A k \in 1..(n - m) : right[k] = ByteAt(m + k - 1)
  <2>1. \A k \in Nat : 0 + k - 1 = k - 1 /\ 0 <= k /\ k - 0 = k
    OBVIOUS
  <2>2. Len(right) = n - m /\ \A k \in 1..(n - m) : right[k] = ByteAt(m + k - 1)
    BY BytesFacts
  <2>3. Len(all) = n - 0 /\ \A k \in 1..(n - 0) : all[k] = ByteAt(0 + k - 1)
    BY <2>1, BytesFacts
  <2>4. Len(left) = m - 0 /\ \A k \in 1..(m - 0) : left[k] = ByteAt(0 + k - 1)
    BY <2>1, BytesFacts
  <2> HIDE DEF all, left, right
  <2> QED
    BY <2>1, <2>2, <2>3, <2>4
<1> HIDE DEF all, left, right
<1>2. G \in [Nat -> Nat \X Nat] /\ G[0] = at /\ \A k \in Nat : G[k + 1] = Behind(left[k + 1])[G[k]]
  BY PlacesSteps DEF left
<1>3. F \in [Nat -> Nat \X Nat] /\ F[0] = at /\ \A k \in Nat : F[k + 1] = Behind(all[k + 1])[F[k]]
  BY PlacesSteps DEF all
<1>4. G[m] \in Nat \X Nat
  BY <1>2
<1>5. H[0] = G[m] /\ \A k \in Nat : H[k + 1] = Behind(right[k + 1])[H[k]]
  <2> SUFFICES ASSUME NEW mid \in Nat \X Nat
               PROVE  /\ Places(mid, right)[0] = mid
                      /\ \A k \in Nat : Places(mid, right)[k + 1]
                                         = Behind(right[k + 1])[Places(mid, right)[k]]
    BY <1>4 DEF right
  <2> QED
    BY PlacesSteps
<1>6. Past(at, left) = G[m] /\ Past(at, all) = F[n] /\ Past(G[m], right) = H[n - m]
  BY <1>1 DEF Past, all, left, right
<1> HIDE DEF F, G, H
<1>7. G[m] = F[m]
  <2> DEFINE T == {k \in Nat : k <= m => G[k] = F[k]}
  <2>1. 0 \in T
    BY <1>2, <1>3
  <2>2. ASSUME NEW k \in Nat, k \in T PROVE k + 1 \in T
    <3> SUFFICES ASSUME k + 1 <= m PROVE G[k + 1] = F[k + 1]
      OBVIOUS
    <3>1. k + 1 \in 1..m /\ k + 1 \in 1..n
      OBVIOUS
    <3>2. left[k + 1] = all[k + 1]
      BY <1>1, <3>1
    <3>3. G[k] = F[k]
      BY <2>2
    <3>4. G[k + 1] = Behind(left[k + 1])[G[k]] /\ F[k + 1] = Behind(all[k + 1])[F[k]]
      BY <1>2, <1>3
    <3> HIDE DEF left, all
    <3> QED
      BY <3>2, <3>3, <3>4
  <2> HIDE DEF T
  <2>3. \A k \in Nat : k \in T
    BY <2>1, <2>2, Induction
  <2> QED
    BY <2>3 DEF T
<1>8. H[n - m] = F[n]
  <2> DEFINE T == {k \in Nat : k <= n - m => H[k] = F[m + k]}
  <2>1. 0 \in T
    BY <1>5, <1>7
  <2>2. ASSUME NEW k \in Nat, k \in T PROVE k + 1 \in T
    <3> SUFFICES ASSUME k + 1 <= n - m PROVE H[k + 1] = F[m + (k + 1)]
      OBVIOUS
    <3>1. k + 1 \in 1..(n - m) /\ m + (k + 1) \in 1..n /\ m + k \in Nat
          /\ m + (k + 1) = m + k + 1 /\ m + (k + 1) - 1 = m + k
      OBVIOUS
    <3>2. right[k + 1] = ByteAt(m + (k + 1) - 1)
      BY <1>1, <3>1
    <3>3. all[m + (k + 1)] = ByteAt(m + (k + 1) - 1)
      BY <1>1, <3>1
    <3>4. H[k] = F[m + k]
      BY <2>2
    <3>5. F[m + k + 1] = Behind(all[m + k + 1])[F[m + k]]
      BY <1>3, <3>1
    <3> QED
      BY <1>5, <3>1, <3>2, <3>3, <3>4, <3>5
  <2> HIDE DEF T
  <2>3. \A k \in Nat : k \in T
    BY <2>1, <2>2, Induction
  <2>4. n - m \in Nat /\ n - m <= n - m /\ m + (n - m) = n
    OBVIOUS
  <2> QED
    BY <2>3, <2>4 DEF T
<1> QED
  BY <1>4, <1>6, <1>8 DEF all, left, right
-----------------------------------------------------------------------------
(* One turn of the loop of ReadToken.                                      *)

Stacked == [group : DOMAIN Groups, from : Nat \cup {Elsewhere}]

LEMMA GroupFound ==
  ASSUME NEW x \in DOMAIN SymbolType, SymbolType[x] = "GroupStart"
  PROVE  GroupOf(x) \in DOMAIN Groups /\ Groups[GroupOf(x)].start = x
<1> DEFINE T == {g \in DOMAIN Groups : Groups[g].start = x}
<1>1. T \subseteq Nat /\ T # {}
  BY GroupsTyped
<1>2. PICK g \in T : \A h \in T : g <= h
  <2> HIDE DEF T
  <2> QED
    BY <1>1, Least
<1>3. \E f \in DOMAIN Groups : /\ Groups[f].start = x
                               /\ \A h \in DOMAIN Groups : Groups[h].start = x => f <= h
  BY <1>2
<1> QED
  BY <1>3 DEF GroupOf

LEMMA OpenTyped ==
  ASSUME TypeOK, group_stack # <<>>
  PROVE  /\ Open \in Stacked /\ Open = group_stack[Len(group_stack)]
         /\ Open.group \in DOMAIN Groups /\ Open.from \in Nat \cup {Elsewhere}
         /\ Len(group_stack) \in Nat \ {0}
         /\ Front(group_stack) \in Seq(Stacked)
         /\ Len(Front(group_stack)) = Len(group_stack) - 1
<1>1. group_stack \in Seq(Stacked)
  BY DEF TypeOK, Stacked
<1>2. Len(group_stack) \in Nat \ {0}
  BY <1>1, EmptySeq
<1>3. group_stack[Len(group_stack)] \in Stacked
  BY <1>1, <1>2, ElementOfSeq
<1>4. Front(group_stack) = SubSeq(group_stack, 1, Len(group_stack) - 1)
  BY DEF Front
<1>5. \A i \in 1..(Len(group_stack) - 1) : group_stack[i] \in Stacked
  BY <1>1, <1>2, ElementOfSeq
<1>6. /\ SubSeq(group_stack, 1, Len(group_stack) - 1) \in Seq(Stacked)
      /\ Len(SubSeq(group_stack, 1, Len(group_stack) - 1))
           = IF 1 <= Len(group_stack) - 1 THEN Len(group_stack) - 1 - 1 + 1 ELSE 0
  BY <1>2, <1>5, SubSeqProperties
<1>10. Front(group_stack) \in Seq(Stacked) /\ Len(Front(group_stack)) = Len(group_stack) - 1
  <2>1. \A n \in Nat \ {0} : (IF 1 <= n - 1 THEN n - 1 - 1 + 1 ELSE 0) = n - 1
    OBVIOUS
  <2> QED
    BY <1>2, <1>4, <1>6, <2>1
<1>7. Open = group_stack[Len(group_stack)]
  BY DEF Open, Last
<1> DEFINE o == Open
<1>8. o \in Stacked
  BY <1>3, <1>7
<1> HIDE DEF o
<1>9. o.group \in DOMAIN Groups /\ o.from \in Nat \cup {Elsewhere}
  BY <1>8 DEF Stacked
<1> QED
  BY <1>2, <1>7, <1>8, <1>9, <1>10 DEF o

\* The token of a closed group, told apart by how deep the group was.
LEMMA GroupTokenFacts ==
  ASSUME TypeOK, group_stack # <<>>, NEW x, NEW to \in Nat,
         x = [symbol |-> x.symbol, from |-> x.from, to |-> x.to, place |-> x.place]
  PROVE  GroupToken(x, to) = IF Len(group_stack) > 1 THEN x
                             ELSE [symbol |-> Groups[Open.group].container, from |-> Open.from,
                                   to |-> to, place |-> x.place]
<1> PICK s, f, n, p : x = [symbol |-> s, from |-> f, to |-> n, place |-> p]
  OBVIOUS
<1> DEFINE g == Groups[Open.group].container
           from == Open.from
           y == [x EXCEPT !.symbol = g]
           z == [y EXCEPT !.from = from]
<1>1. GroupToken(x, to) = IF Len(group_stack) > 1 THEN x ELSE [z EXCEPT !.to = to]
  BY DEF GroupToken
<1> HIDE DEF g, from
<1>2. y = [symbol |-> g, from |-> f, to |-> n, place |-> p]
  OBVIOUS
<1> HIDE DEF y
<1>3. z = [symbol |-> g, from |-> from, to |-> n, place |-> p]
  BY <1>2
<1> HIDE DEF z
<1>4. [z EXCEPT !.to = to] = [symbol |-> g, from |-> from, to |-> to, place |-> p]
  BY <1>3
<1> QED
  BY <1>1, <1>4 DEF g, from

LEMMA GroupSymbols ==
  ASSUME NEW g \in DOMAIN Groups
  PROVE  /\ Groups[g].container \in DOMAIN SymbolType /\ Groups[g].container \in Containers
         /\ Groups[g].container # Eof /\ Groups[g].end # Eof
         /\ Groups[g].container # NoSymbol
BY GroupsTyped, EofTyped, SymbolsTyped DEF Containers

\* What a turn does, once PeekToken's answer is known: EOF ends the call and moves
\* nothing.
LEMMA EndTurn ==
  ASSUME TypeOK, ReadTurn, EndLexeme(Peek)
  PROVE  /\ token' = [symbol |-> Eof, from |-> 0, to |-> 0, place |-> place]
         /\ buf_cur' = buf_cur /\ place' = place /\ group_stack' = group_stack /\ buf' = buf
         /\ begun' = begun /\ stale' = stale /\ loads' = loads
         /\ ~reading'
<1> DEFINE t == Peek
           x == t.lexeme.symbol
<1>1. \/ IntoNested(t) \/ PlainToken(t) \/ OutOfNested(t) \/ EofInNested(t) \/ TokenInNested(t)
  BY DEF ReadTurn
<1>2. t.lexeme = [symbol |-> Eof, from |-> 0, to |-> 0, place |-> place] /\ t.buf_peek = buf_cur
  BY DEF EndLexeme
<1> HIDE DEF t
<1>3. x = Eof /\ SymbolType[x] = "EndOfFile"
  BY <1>2, EofTyped
<1>4. ~IntoNested(t) /\ ~TokenInNested(t)
  BY <1>3 DEF IntoNested, Nests, TokenInNested, Inside
<1>5. ~OutOfNested(t)
  <2>1. group_stack # <<>> => Groups[Open.group].end # Eof
    BY OpenTyped, GroupSymbols
  <2> QED
    BY <1>3, <2>1 DEF OutOfNested, Ends
<1>6. buf' = buf /\ begun' = begun /\ stale' = stale /\ loads' = loads
  BY DEF ReadTurn
<1>7. CASE PlainToken(t)
  <2>1. Len(Bytes(buf_cur, buf_cur)) = 0
    <3>1. buf_cur \in Nat /\ buf_cur <= buf_cur /\ buf_cur - buf_cur = 0
      BY DEF TypeOK
    <3> QED
      BY <3>1, BytesFacts
  <2>2. Past(place, Bytes(buf_cur, buf_cur)) = place
    <3> SUFFICES ASSUME NEW p \in Nat \X Nat, NEW b, Len(b) = 0 PROVE Past(p, b) = p
      BY <2>1 DEF TypeOK
    <3> QED
      BY PlacesSteps DEF Past
  <2> QED
    BY <1>2, <1>6, <1>7, <2>2 DEF PlainToken, Advance, Return
<1>8. CASE EofInNested(t)
  BY <1>2, <1>6, <1>8 DEF EofInNested, Return
<1> QED
  BY <1>1, <1>4, <1>5, <1>7, <1>8

\* A piece of the text is returned, or is the beginning or the inside of a group, or
\* ends one.
GroupStarts(t) ==
  /\ SymbolType[t.lexeme.symbol] = "GroupStart"
  /\ group_stack # <<>> => GroupOf(t.lexeme.symbol) \in Groups[Open.group].nesting
  /\ buf_cur' = t.buf_peek
  /\ group_stack' = Append(group_stack, [group |-> GroupOf(t.lexeme.symbol), from |-> buf_cur])
  /\ token' = t.lexeme /\ reading'

Plain(t) == /\ group_stack = <<>> /\ group_stack' = <<>>
            /\ buf_cur' = t.buf_peek /\ token' = t.lexeme /\ ~reading'

GroupEnds(t) ==
  /\ group_stack # <<>> /\ group_stack' = Front(group_stack)
  /\ buf_cur' \in {buf_cur, t.buf_peek} /\ ~reading'
  /\ token' = IF Len(group_stack) > 1 THEN t.lexeme
              ELSE [symbol |-> Groups[Open.group].container, from |-> Open.from,
                    to |-> buf_cur', place |-> place]

Within(t) == /\ group_stack # <<>> /\ group_stack' = group_stack
             /\ buf_cur' \in {buf_cur + 1, t.buf_peek} /\ token' = t.lexeme /\ reading'

LEMMA PieceTurn ==
  ASSUME TypeOK, ReadTurn, PieceLexeme(Peek)
  PROVE  /\ \/ GroupStarts(Peek) \/ Plain(Peek) \/ GroupEnds(Peek) \/ Within(Peek)
         /\ buf' = buf /\ begun' = begun /\ stale' = stale /\ loads' = loads
         /\ buf_cur' \in Nat /\ buf_cur <= buf_cur'
         /\ \/ buf_cur' = buf_cur /\ place' = place
            \/ place' = Past(place, Bytes(buf_cur, buf_cur'))
<1> DEFINE t == Peek
           x == t.lexeme.symbol
           next == t.buf_peek
<1>1. \/ IntoNested(t) \/ PlainToken(t) \/ OutOfNested(t) \/ EofInNested(t) \/ TokenInNested(t)
  BY DEF ReadTurn
<1>2. t.lexeme = [symbol |-> x, from |-> buf_cur, to |-> next, place |-> place]
      /\ next \in Nat /\ buf_cur < next
  BY DEF PieceLexeme
<1>3. x \in DOMAIN SymbolType /\ SymbolType[x] # "EndOfFile" /\ buf_cur \in Nat
  BY PieceTyped DEF TypeOK
<1>4. buf' = buf /\ begun' = begun /\ stale' = stale /\ loads' = loads
  BY DEF ReadTurn
<1> HIDE DEF t
<1>5. CASE IntoNested(t)
  <2>1. GroupStarts(t)
    BY <1>2, <1>5 DEF IntoNested, GroupStarts, Nests, Advance, Continue
  <2>2. buf_cur' = next /\ place' = Past(place, Bytes(buf_cur, next))
    BY <1>5 DEF IntoNested, Advance
  <2> QED
    BY <1>2, <1>3, <1>4, <2>1, <2>2 DEF t
<1>6. CASE PlainToken(t)
  <2>1. Plain(t)
    BY <1>6 DEF PlainToken, Plain, Advance, Return
  <2>2. buf_cur' = next /\ place' = Past(place, Bytes(buf_cur, next))
    BY <1>6 DEF PlainToken, Advance
  <2> QED
    BY <1>2, <1>3, <1>4, <2>1, <2>2 DEF t
<1>7. CASE OutOfNested(t)
  <2>1. group_stack # <<>> /\ group_stack' = Front(group_stack) /\ ~reading'
    BY <1>7 DEF OutOfNested, Ends, Return
  <2>2. CASE Groups[Open.group].ending = "Closed"
    <3>1. /\ buf_cur' = next /\ place' = Past(place, Bytes(buf_cur, next))
          /\ token' = GroupToken(t.lexeme, t.lexeme.to)
      BY <1>7, <2>2 DEF OutOfNested, Advance
    <3>2. t.lexeme.to = next /\ t.lexeme.place = place /\ t.lexeme.from = buf_cur
      BY <1>2
    <3>3. token' = IF Len(group_stack) > 1 THEN t.lexeme
                   ELSE [symbol |-> Groups[Open.group].container, from |-> Open.from,
                         to |-> next, place |-> place]
      BY <1>2, <2>1, <3>1, <3>2, GroupTokenFacts
    <3>4. GroupEnds(t)
      BY <2>1, <3>1, <3>3 DEF GroupEnds
    <3> QED
      BY <1>2, <1>3, <1>4, <3>1, <3>4 DEF t
  <2>3. CASE Groups[Open.group].ending # "Closed"
    <3>1. /\ buf_cur' = buf_cur /\ place' = place
          /\ token' = GroupToken(t.lexeme, t.lexeme.from)
      BY <1>7, <2>3 DEF OutOfNested
    <3>2. t.lexeme.place = place /\ t.lexeme.from = buf_cur
      BY <1>2
    <3>3. token' = IF Len(group_stack) > 1 THEN t.lexeme
                   ELSE [symbol |-> Groups[Open.group].container, from |-> Open.from,
                         to |-> buf_cur, place |-> place]
      BY <1>2, <1>3, <2>1, <3>1, <3>2, GroupTokenFacts
    <3>4. GroupEnds(t)
      BY <2>1, <3>1, <3>3 DEF GroupEnds
    <3> QED
      BY <1>3, <1>4, <3>1, <3>4 DEF t
  <2> QED
    BY <2>2, <2>3
<1>8. ~EofInNested(t)
  BY <1>3 DEF EofInNested
<1>9. CASE TokenInNested(t)
  <2> DEFINE to == IF Groups[Open.group].advance = "Token" THEN t.buf_peek ELSE buf_cur + 1
  <2>1. buf_cur' = to /\ place' = Past(place, Bytes(buf_cur, to))
    BY <1>9 DEF TokenInNested, Advance
  <2>2. Within(t)
    BY <1>9, <2>1 DEF TokenInNested, Inside, Within, Continue
  <2>3. to \in Nat /\ buf_cur <= to
    BY <1>2, <1>3
  <2> HIDE DEF to
  <2> QED
    BY <1>4, <2>1, <2>2, <2>3 DEF t
<1> QED
  BY <1>1, <1>5, <1>6, <1>7, <1>8, <1>9
-----------------------------------------------------------------------------
(* The invariants.                                                         *)

\* Nothing is left behind EOF.
EofAtEnd == token.symbol = Eof => buf_cur >= Len(buf)

IInv == TypeOK /\ EofAtEnd /\ PlacesExact

\* The place n bytes into a text.
PlaceIn(b, n) == Past(<<1, 1>>, [k \in 1..(n - 0) |-> IF 0 + k - 1 < Len(b) THEN b[0 + k - 1 + 1]
                                                      ELSE Padding])

LEMMA PlaceInFacts ==
  ASSUME NEW m \in Nat, NEW n \in Nat, m <= n
  PROVE  /\ PlaceIn(buf, m) \in Nat \X Nat
         /\ Past(PlaceIn(buf, m), Bytes(m, n)) = PlaceIn(buf, n)
<1>1. PlaceIn(buf, m) = Past(<<1, 1>>, Bytes(0, m)) /\ PlaceIn(buf, n) = Past(<<1, 1>>, Bytes(0, n))
  BY DEF PlaceIn, Bytes, ByteAt
<1>2. <<1, 1>> \in Nat \X Nat
  OBVIOUS
<1> QED
  BY <1>1, <1>2, PastParts

LEMMA PlacesForm ==
  PlacesExact <=> /\ place = PlaceIn(buf, buf_cur)
                  /\ Returned /\ token.symbol \notin Containers \cup {Eof} =>
                       token.place = PlaceIn(buf, token.from)
BY DEF PlacesExact, PlaceIn, Bytes, ByteAt

LEMMA PlacesFormNext ==
  PlacesExact' <=> /\ place' = PlaceIn(buf', buf_cur')
                   /\ Returned' /\ token'.symbol \notin Containers \cup {Eof} =>
                        token'.place = PlaceIn(buf', token'.from)
BY DEF PlacesExact, PlaceIn, Bytes, ByteAt, Returned, Eof, OfType, Containers

LEMMA InitIInv == Init => IInv
<1> SUFFICES ASSUME Init PROVE IInv
  OBVIOUS
<1>1. TypeOK
  BY TextsTyped, EmptySeq DEF Init, TypeOK, NoToken
<1>2. EofAtEnd
  BY EofTyped DEF Init, EofAtEnd, NoToken
<1>3. place = PlaceIn(buf, buf_cur)
  <2>1. place = <<1, 1>> /\ buf_cur = 0
    BY DEF Init
  <2>2. Len(Bytes(0, 0)) = 0
    BY BytesFacts
  <2>3. <<1, 1>> \in Nat \X Nat
    OBVIOUS
  <2>4. Past(<<1, 1>>, Bytes(0, 0)) = <<1, 1>>
    BY <2>2, <2>3, PlacesSteps DEF Past
  <2> QED
    BY <2>1, <2>4 DEF PlaceIn, Bytes, ByteAt
<1>4. PlacesExact
  BY <1>3, PlacesForm DEF Init, Returned
<1> QED
  BY <1>1, <1>2, <1>4 DEF IInv

\* A turn of the loop.
LEMMA TurnKeepsType ==
  ASSUME TypeOK, ReadTurn
  PROVE  TypeOK'
<1> DEFINE t == Peek
           x == t.lexeme.symbol
<1>1. buf \in Seq(0..255) /\ buf_cur \in Nat /\ place \in Nat \X Nat /\ begun \in Nat
      /\ stale \in BOOLEAN /\ loads \in Nat /\ group_stack \in Seq(Stacked)
  BY DEF TypeOK, Stacked
<1>2. CASE buf_cur >= Len(buf)
  <2>1. EndLexeme(t)
    BY <1>1, <1>2, PeekFacts
  <2>2. reading' = FALSE
    BY <2>1, EndTurn DEF ReadTurn, IntoNested, PlainToken, OutOfNested, EofInNested, TokenInNested,
                         Return, Continue
  <2> HIDE DEF t
  <2>3. token' \in [symbol : DOMAIN SymbolType \cup {NoSymbol}, from : Nat \cup {Elsewhere},
                    to : Nat, place : Nat \X Nat]
    BY <1>1, <2>1, EndTurn, EofTyped DEF t
  <2> QED
    BY <1>1, <2>1, <2>2, <2>3, EndTurn DEF TypeOK, Stacked, t
<1>3. CASE ~(buf_cur >= Len(buf))
  <2>1. PieceLexeme(t)
    BY <1>1, <1>3, PeekFacts
  <2>2. reading' \in BOOLEAN
    BY DEF ReadTurn, IntoNested, PlainToken, OutOfNested, EofInNested, TokenInNested,
           Return, Continue
  <2>3. x \in DOMAIN SymbolType
    BY <2>1, PieceTyped
  <2> DEFINE Tokens == [symbol : DOMAIN SymbolType \cup {NoSymbol}, from : Nat \cup {Elsewhere},
                        to : Nat, place : Nat \X Nat]
  <2>4. t.lexeme \in Tokens
    BY <1>1, <2>1, <2>3 DEF PieceLexeme
  <2>5. /\ GroupStarts(t) \/ Plain(t) \/ GroupEnds(t) \/ Within(t)
        /\ buf' = buf /\ begun' = begun /\ stale' = stale /\ loads' = loads
        /\ buf_cur' \in Nat
    BY <2>1, PieceTurn
  <2>6. place' \in Nat \X Nat
    <3> SUFFICES ASSUME place' # place PROVE place' \in Nat \X Nat
      BY <1>1
    <3>1. place' = Past(place, Bytes(buf_cur, buf_cur')) /\ buf_cur <= buf_cur'
      BY <2>1, PieceTurn
    <3> DEFINE n == buf_cur'
               b == Bytes(buf_cur, n)
    <3>2. n \in Nat /\ Len(b) = n - buf_cur
      BY <1>1, <2>5, <3>1, BytesFacts
    <3>3. Len(b) \in Nat
      <4> HIDE DEF n, b
      <4>1. buf_cur \in Nat /\ buf_cur <= n
        BY <1>1, <3>1 DEF n
      <4> QED
        BY <3>2, <4>1
    <3>4. Places(place, b) \in [Nat -> Nat \X Nat]
      BY <1>1, PlacesSteps
    <3> HIDE DEF b
    <3> QED
      BY <3>1, <3>3, <3>4 DEF Past, b
  <2> HIDE DEF t
  <2>7. group_stack' \in Seq(Stacked) /\ token' \in Tokens
    <3>1. CASE GroupStarts(t)
      <4>1. GroupOf(x) \in DOMAIN Groups
        BY <2>3, <3>1, GroupFound DEF GroupStarts
      <4>2. [group |-> GroupOf(x), from |-> buf_cur] \in Stacked
        BY <1>1, <4>1 DEF Stacked
      <4> QED
        BY <1>1, <2>4, <3>1, <4>2, AppendProperties DEF GroupStarts
    <3>2. CASE Plain(t)
      BY <1>1, <2>4, <3>2 DEF Plain
    <3>3. CASE GroupEnds(t)
      <4>1. Front(group_stack) \in Seq(Stacked) /\ Open.group \in DOMAIN Groups
            /\ Open.from \in Nat \cup {Elsewhere}
        BY <3>3, OpenTyped DEF GroupEnds
      <4>2. Groups[Open.group].container \in DOMAIN SymbolType
        BY <4>1, GroupSymbols
      <4> DEFINE c == Groups[Open.group].container
                 f == Open.from
      <4>3. [symbol |-> c, from |-> f, to |-> buf_cur', place |-> place] \in Tokens
        <5> HIDE DEF c, f
        <5> QED
          BY <1>1, <2>5, <4>1, <4>2 DEF c, f
      <4> QED
        BY <2>4, <3>3, <4>1, <4>3 DEF GroupEnds
    <3>4. CASE Within(t)
      BY <1>1, <2>4, <3>4 DEF Within
    <3> QED
      BY <2>5, <3>1, <3>2, <3>3, <3>4
  <2> QED
    BY <1>1, <2>2, <2>5, <2>6, <2>7 DEF TypeOK, Stacked
<1> QED
  BY <1>2, <1>3

LEMMA TurnKeepsIInv ==
  ASSUME IInv, ReadTurn
  PROVE  IInv'
<1> DEFINE t == Peek
<1>1. /\ TypeOK /\ buf \in Seq(0..255) /\ buf_cur \in Nat
      /\ place = PlaceIn(buf, buf_cur) /\ EofAtEnd
  BY PlacesForm DEF IInv, TypeOK
<1>2. TypeOK'
  BY <1>1, TurnKeepsType
<1>3. Eof' = Eof /\ Containers' = Containers
  BY DEF Eof, OfType, Containers
<1>4. CASE buf_cur >= Len(buf)
  <2>1. /\ token' = [symbol |-> Eof, from |-> 0, to |-> 0, place |-> place]
        /\ buf_cur' = buf_cur /\ place' = place /\ buf' = buf
    BY <1>1, <1>4, PeekFacts, EndTurn
  <2>2. token'.symbol = Eof
    BY <2>1
  <2>3. EofAtEnd'
    BY <1>4, <2>1 DEF EofAtEnd
  <2>4. PlacesExact'
    BY <1>1, <2>1, <2>2, PlacesFormNext
  <2> QED
    BY <1>2, <2>3, <2>4 DEF IInv
<1>5. CASE ~(buf_cur >= Len(buf))
  <2>1. PieceLexeme(t)
    BY <1>1, <1>5, PeekFacts
  <2>2. /\ GroupStarts(t) \/ Plain(t) \/ GroupEnds(t) \/ Within(t)
        /\ buf' = buf /\ buf_cur' \in Nat /\ buf_cur <= buf_cur'
        /\ \/ buf_cur' = buf_cur /\ place' = place
           \/ place' = Past(place, Bytes(buf_cur, buf_cur'))
    BY <1>1, <2>1, PieceTurn
  <2>3. place' = PlaceIn(buf', buf_cur')
    <3> SUFFICES ASSUME NEW n \in Nat, buf_cur <= n
                 PROVE  Past(PlaceIn(buf, buf_cur), Bytes(buf_cur, n)) = PlaceIn(buf, n)
      BY <1>1, <2>2
    <3> QED
      BY <1>1, PlaceInFacts
  <2>4. \/ token' = t.lexeme
        \/ token'.symbol \in Containers /\ token'.symbol # Eof
    <3> HIDE DEF t
    <3>1. CASE GroupEnds(t) /\ ~(Len(group_stack) > 1)
      <4>1. group_stack # <<>>
        BY <3>1 DEF GroupEnds
      <4>2. Groups[Open.group].container \in Containers /\ Groups[Open.group].container # Eof
        BY <1>1, <4>1, OpenTyped, GroupSymbols
      <4> QED
        BY <3>1, <4>2 DEF GroupEnds
    <3> QED
      BY <2>2, <3>1 DEF GroupStarts, Plain, GroupEnds, Within
  <2>5. t.lexeme.symbol # Eof /\ t.lexeme.from = buf_cur /\ t.lexeme.place = place
    BY <2>1, PieceTyped DEF PieceLexeme
  <2>6. EofAtEnd'
    BY <1>3, <2>4, <2>5 DEF EofAtEnd
  <2>7. PlacesExact'
    BY <1>1, <2>2, <2>3, <2>4, <2>5, PlacesFormNext
  <2> QED
    BY <1>2, <2>6, <2>7 DEF IInv
<1> QED
  BY <1>4, <1>5

\* Load* and ResetCursor.
LEMMA FromStartKeepsIInv ==
  ASSUME IInv, Load \/ ResetCursor
  PROVE  IInv'
<1>1. FromStart
  BY DEF Load, ResetCursor
<1>2. /\ buf_cur' = 0 /\ place' = <<1, 1>> /\ token' = NoToken /\ begun' = 0 /\ reading' = reading
      /\ loads' = loads + 1 /\ stale' = (stale \/ group_stack # <<>>)
  BY <1>1 DEF FromStart
<1>3. buf' \in Seq(0..255)
  BY TextsTyped DEF Load, ResetCursor, IInv, TypeOK
<1>4. group_stack' \in Seq(Stacked)
  <2>1. group_stack \in Seq(Stacked)
    BY DEF IInv, TypeOK, Stacked
  <2>2. CASE Load
    <3> DEFINE g == [i \in DOMAIN group_stack |-> [group_stack[i] EXCEPT !.from = Elsewhere]]
    <3>1. DOMAIN group_stack = 1..Len(group_stack) /\ Len(group_stack) \in Nat
      BY <2>1, LenProperties
    <3>2. ASSUME NEW i \in 1..Len(group_stack)
          PROVE  [group_stack[i] EXCEPT !.from = Elsewhere] \in Stacked
      <4> DEFINE e == group_stack[i]
      <4>1. e \in Stacked
        BY <2>1, ElementOfSeq
      <4> HIDE DEF e
      <4>2. [e EXCEPT !.from = Elsewhere] \in Stacked
        BY <4>1 DEF Stacked
      <4> QED
        BY <4>2 DEF e
    <3>3. g \in [1..Len(group_stack) -> Stacked]
      BY <3>1, <3>2
    <3> HIDE DEF g
    <3>4. g \in Seq(Stacked)
      BY <3>1, <3>3, SeqDef
    <3> QED
      BY <2>2, <3>4 DEF Load, g
  <2>3. CASE ResetCursor
    BY <2>1, <2>3 DEF ResetCursor
  <2> QED
    BY <2>2, <2>3
<1>5. TypeOK'
  BY <1>2, <1>3, <1>4 DEF IInv, TypeOK, NoToken, Stacked
<1>6. EofAtEnd'
  BY <1>2, EofTyped DEF EofAtEnd, NoToken, Eof, OfType
<1>7. place' = PlaceIn(buf', buf_cur')
  <2>1. ASSUME NEW b PROVE PlaceIn(b, 0) = <<1, 1>>
    <3> DEFINE none == [k \in 1..(0 - 0) |-> IF 0 + k - 1 < Len(b) THEN b[0 + k - 1 + 1] ELSE Padding]
    <3>1. Len(none) = 0
      OBVIOUS
    <3>2. <<1, 1>> \in Nat \X Nat
      OBVIOUS
    <3> HIDE DEF none
    <3>3. Past(<<1, 1>>, none) = <<1, 1>>
      BY <3>1, <3>2, PlacesSteps DEF Past
    <3> QED
      BY <3>3 DEF PlaceIn, none
  <2> QED
    BY <1>2, <2>1
<1>8. PlacesExact'
  <2>1. ~Returned'
    BY <1>2 DEF Returned, NoToken
  <2> QED
    BY <1>7, <2>1, PlacesFormNext
<1> QED
  BY <1>5, <1>6, <1>8 DEF IInv

LEMMA NextIInv == IInv /\ [Next]_vars => IInv'
<1> SUFFICES ASSUME IInv, [Next]_vars PROVE IInv'
  OBVIOUS
<1>1. CASE ReadTurn
  BY <1>1, TurnKeepsIInv
<1>2. CASE ReadToken
  <2>1. /\ reading' = TRUE /\ begun' = buf_cur
        /\ buf' = buf /\ buf_cur' = buf_cur /\ place' = place /\ group_stack' = group_stack
        /\ token' = token /\ stale' = stale /\ loads' = loads
    BY <1>2 DEF ReadToken
  <2>2. TypeOK' /\ EofAtEnd'
    BY <2>1 DEF IInv, TypeOK, EofAtEnd, Eof, OfType
  <2>3. PlacesExact'
    BY <2>1, PlacesForm, PlacesFormNext DEF IInv, Returned
  <2> QED
    BY <2>2, <2>3 DEF IInv
<1>3. CASE Load \/ ResetCursor
  BY <1>3, FromStartKeepsIInv
<1>4. CASE UNCHANGED vars
  <2>1. TypeOK' /\ EofAtEnd'
    BY <1>4 DEF vars, IInv, TypeOK, EofAtEnd, Eof, OfType
  <2>2. PlacesExact'
    BY <1>4, PlacesForm, PlacesFormNext DEF vars, IInv, Returned
  <2> QED
    BY <2>1, <2>2 DEF IInv
<1> QED
  BY <1>1, <1>2, <1>3, <1>4 DEF Next

\* The invariant on which the others rest: the kinds of values, that EOF is answered
\* at the end only, and the places.
THEOREM LexerInvariant == Spec => []IInv
<1>1. Init => IInv
  BY InitIInv
<1>2. IInv /\ [Next]_vars => IInv'
  BY NextIInv
<1> QED
  BY <1>1, <1>2, PTL DEF Spec

\* PlacesExact, whatever the DFA, the groups and the text: line_ and column_ count the
\* bytes before the cursor, and a token that is no group carries the place of its
\* first byte.
THEOREM PlacesAreExact == Spec => []PlacesExact
<1>1. IInv => PlacesExact
  BY DEF IInv
<1> QED
  BY <1>1, LexerInvariant, PTL

\* EofSticks: behind EOF every call answers EOF until a text is loaded or read anew.
THEOREM EofStaysEof == Spec => EofSticks
<1>1. IInv /\ [Next]_vars => [loads' = loads /\ token.symbol = Eof => token'.symbol = Eof]_vars
  <2> SUFFICES ASSUME IInv, Next, loads' = loads, token.symbol = Eof PROVE token'.symbol = Eof
    OBVIOUS
  <2>1. CASE ReadTurn
    <3>1. buf_cur >= Len(buf) /\ TypeOK /\ buf \in Seq(0..255) /\ buf_cur \in Nat
      BY DEF IInv, EofAtEnd, TypeOK
    <3>2. token' = [symbol |-> Eof, from |-> 0, to |-> 0, place |-> place]
      BY <2>1, <3>1, PeekFacts, EndTurn
    <3> QED
      BY <3>2
  <2>2. CASE ReadToken
    BY <2>2 DEF ReadToken
  <2>3. ~(Load \/ ResetCursor)
    BY DEF Load, ResetCursor, FromStart, IInv, TypeOK
  <2> QED
    BY <2>1, <2>2, <2>3 DEF Next
<1> QED
  BY <1>1, LexerInvariant, PTL DEF Spec, EofSticks

\* What LongestMatch asks of a token, the path being f.
Answers(f, n, symbol, to) ==
  LET hits == HitsOf(Passing(f, n))
  IN IF hits = {} THEN symbol = Error
     ELSE \E h \in hits : /\ \A g \in hits : g.end <= h.end
                          /\ to = h.end /\ symbol = DfaStates[h.state].accept

LEMMA PeekAnswers ==
  ASSUME buf \in Seq(0..255), buf_cur \in Nat, NEW f,
         f[0] = {[end |-> buf_cur, state |-> DfaInit, counts |-> TRUE]},
         \A n \in Nat : f[n + 1] = PathStep(f[n]),
         Peek.lexeme.symbol # Eof
  PROVE  Answers(f, Len(buf), Peek.lexeme.symbol, Peek.lexeme.to)
<1> DEFINE l == Scan[Len(buf)]
           hits == HitsOf(Passing(f, Len(buf)))
<1>1. Len(buf) \in Nat
  BY LenProperties
<1>2. Tracks(l, f, Len(buf))
  BY <1>1, ScanTracks
<1>3. LastHit(l, hits)
  BY <1>2 DEF Tracks
<1>4. Peek = Found(l.hit_symbol, l.hit_cur, l.cur)
  BY DEF Peek
<1>5. l.cur \in Nat
  BY <1>1, ScanTurns DEF LoopState
<1> HIDE DEF l, hits
<1>6. CASE hits = {}
  <2>1. l.hit_symbol = NoSymbol
    BY <1>3, <1>6 DEF LastHit
  <2>2. CASE l.cur = buf_cur
    <3>1. Peek = Peeked([Lexeme(Eof, 0) EXCEPT !.from = 0], buf_cur)
      BY <1>4, <2>1, <2>2 DEF Found
    <3>2. Peek.lexeme.symbol = Eof
      BY <3>1 DEF Peeked, Lexeme
    <3> QED
      BY <3>2
  <2>3. CASE l.cur # buf_cur
    <3>1. Peek = Peeked(Lexeme(Error, l.cur), l.cur)
      BY <1>4, <2>1, <2>3 DEF Found
    <3>2. Peek.lexeme.symbol = Error
      BY <3>1 DEF Peeked, Lexeme
    <3> QED
      BY <1>6, <3>2 DEF Answers, hits
  <2> QED
    BY <2>2, <2>3
<1>7. CASE hits # {}
  <2>1. PICK h \in hits : /\ \A g \in hits : g.end <= h.end
                          /\ l.hit_cur = h.end /\ l.hit_symbol = DfaStates[h.state].accept
                          /\ l.hit_symbol # NoSymbol
    BY <1>3, <1>7 DEF LastHit
  <2>2. Peek = Peeked(Lexeme(l.hit_symbol, l.hit_cur), l.hit_cur)
    BY <1>4, <2>1 DEF Found
  <2>3. Peek.lexeme.symbol = l.hit_symbol /\ Peek.lexeme.to = l.hit_cur
    BY <2>2 DEF Peeked, Lexeme
  <2> QED
    BY <1>7, <2>1, <2>3 DEF Answers, hits
<1> QED
  BY <1>6, <1>7

LEMMA LongestForm ==
  LongestMatch <=> (Returned /\ token.symbol \notin Containers \cup {Eof} /\ token.from = begun
                      => Answers(Paths, Len(buf), token.symbol, token.to))
BY DEF LongestMatch, Answers, HitsOf, Passing

LEMMA LongestFormNext ==
  LongestMatch' <=> (Returned' /\ token'.symbol \notin Containers \cup {Eof} /\ token'.from = begun'
                       => Answers(Paths', Len(buf'), token'.symbol, token'.to))
BY DEF LongestMatch, Answers, HitsOf, Passing, Containers, Eof, Error, OfType

\* The path depends on the text and on where the call began.
LEMMA PathsStay ==
  ASSUME buf' = buf, begun' = begun
  PROVE  Paths' = Paths
BY DEF Paths, Decode, ByteAt, Target, Takes, CharIn

LEMMA TurnIsLongest ==
  ASSUME IInv, ReadTurn
  PROVE  LongestMatch'
<1> SUFFICES ASSUME Returned', token'.symbol \notin Containers \cup {Eof}, token'.from = begun'
             PROVE  Answers(Paths', Len(buf'), token'.symbol, token'.to)
  BY LongestFormNext
<1>1. TypeOK /\ buf \in Seq(0..255) /\ buf_cur \in Nat /\ begun \in Nat
  BY DEF IInv, TypeOK
<1>2. buf' = buf /\ begun' = begun
  BY DEF ReadTurn
<1>3. PathRules(Paths)
  BY <1>1, PathsFollowRules
<1>5. PICK f : f = Paths /\ f = Paths'
  BY <1>2, PathsStay
<1>6. /\ f[0] = {[end |-> begun, state |-> DfaInit, counts |-> TRUE]}
      /\ \A n \in Nat : f[n + 1] = PathStep(f[n])
  BY <1>3, <1>5 DEF PathRules
<1>7. CASE buf_cur >= Len(buf)
  <2>1. token' = [symbol |-> Eof, from |-> 0, to |-> 0, place |-> place]
    BY <1>1, <1>7, PeekFacts, EndTurn
  <2> QED
    BY <2>1
<1>8. CASE ~(buf_cur >= Len(buf))
  <2> DEFINE t == Peek
  <2>1. PieceLexeme(t)
    BY <1>1, <1>8, PeekFacts
  <2>2. GroupStarts(t) \/ Plain(t) \/ GroupEnds(t) \/ Within(t)
    BY <1>1, <2>1, PieceTurn
  <2>3. token' = t.lexeme
    <3> HIDE DEF t
    <3>1. CASE GroupEnds(t) /\ ~(Len(group_stack) > 1)
      <4>1. group_stack # <<>>
        BY <3>1 DEF GroupEnds
      <4>2. Groups[Open.group].container \in Containers
        BY <1>1, <4>1, OpenTyped, GroupSymbols
      <4> QED
        BY <3>1, <4>2 DEF GroupEnds
    <3> QED
      BY <2>2, <3>1 DEF GroupStarts, Plain, GroupEnds, Within
  <2>4. buf_cur = begun /\ t.lexeme.symbol # Eof
    BY <1>2, <2>1, <2>3, PieceTyped DEF PieceLexeme
  <2>5. Answers(f, Len(buf), t.lexeme.symbol, t.lexeme.to)
    BY <1>1, <1>6, <2>4, PeekAnswers
  <2> QED
    BY <1>2, <1>5, <2>3, <2>5
<1> QED
  BY <1>7, <1>8

\* LongestMatch, for every DFA and every text: what PeekToken takes, by way of the
\* compiled tables and their codes for self-loops, is the longest beginning that the
\* edges accept, but for what a self-loop on characters beyond ASCII adds.
THEOREM LongestMatchTaken == Spec => []LongestMatch
<1>1. Init => LongestMatch
  BY LongestForm DEF Init, Returned
<1>2. IInv /\ LongestMatch /\ [Next]_vars => LongestMatch'
  <2> SUFFICES ASSUME IInv, LongestMatch, [Next]_vars PROVE LongestMatch'
    OBVIOUS
  <2>1. CASE ReadTurn
    BY <2>1, TurnIsLongest
  <2>2. CASE ReadToken
    BY <2>2, LongestFormNext DEF ReadToken, Returned
  <2>3. CASE Load \/ ResetCursor
    <3>1. ~Returned'
      BY <2>3 DEF Load, ResetCursor, FromStart, Returned, NoToken
    <3> QED
      BY <3>1, LongestFormNext
  <2>4. CASE UNCHANGED vars
    <3>1. buf' = buf /\ begun' = begun /\ token' = token /\ reading' = reading
      BY <2>4 DEF vars
    <3>2. Paths' = Paths
      BY <3>1, PathsStay
    <3> QED
      BY <3>1, <3>2, LongestForm, LongestFormNext DEF Returned
  <2> QED
    BY <2>1, <2>2, <2>3, <2>4 DEF Next
<1> QED
  BY <1>1, <1>2, LexerInvariant, PTL DEF Spec
-----------------------------------------------------------------------------
(* Groups that do not nest.                                                *)

NoNesting == \A g \in DOMAIN Groups : Groups[g].nesting = {}

\* What a call has passed: nothing yet, or a group from its first byte on.  A group is
\* left open by a call only if the text ends in it.
OpenGroup ==
  /\ reading /\ group_stack = <<>> => buf_cur = begun
  /\ reading /\ group_stack # <<>> =>
       \/ buf_cur >= Len(buf)
       \/ Len(group_stack) = 1 /\ group_stack[1].from = begun /\ begun < buf_cur
  /\ ~reading /\ group_stack # <<>> => buf_cur >= Len(buf)

TileInv == (~stale => OpenGroup) /\ TokensTile

LEMMA TurnKeepsTiles ==
  ASSUME NoNesting, IInv, TileInv, ReadTurn
  PROVE  TileInv'
<1> DEFINE t == Peek
           x == t.lexeme.symbol
<1>1. /\ TypeOK /\ buf \in Seq(0..255) /\ buf_cur \in Nat /\ begun \in Nat /\ reading
      /\ group_stack \in Seq(Stacked) /\ Len(buf) \in Nat
  BY LenProperties DEF IInv, TypeOK, Stacked, ReadTurn
<1>2. Eof' = Eof
  BY DEF Eof, OfType
<1>3. stale' = stale
  BY DEF ReadTurn
<1> SUFFICES ASSUME ~stale PROVE OpenGroup' /\ TokensTile'
  BY <1>3 DEF TileInv, TokensTile
<1>4. OpenGroup
  BY DEF TileInv
<1>5. CASE buf_cur >= Len(buf)
  <2>1. /\ token' = [symbol |-> Eof, from |-> 0, to |-> 0, place |-> place]
        /\ buf_cur' = buf_cur /\ buf' = buf /\ group_stack' = group_stack /\ ~reading'
    BY <1>1, <1>5, PeekFacts, EndTurn
  <2>2. token'.symbol = Eof
    BY <2>1
  <2>3. OpenGroup'
    BY <1>5, <2>1 DEF OpenGroup
  <2> QED
    BY <1>2, <1>5, <2>1, <2>2, <2>3 DEF TokensTile
<1>6. CASE ~(buf_cur >= Len(buf))
  <2>1. PieceLexeme(t)
    BY <1>1, <1>6, PeekFacts
  <2>2. /\ GroupStarts(t) \/ Plain(t) \/ GroupEnds(t) \/ Within(t)
        /\ buf' = buf /\ begun' = begun /\ buf_cur' \in Nat /\ buf_cur <= buf_cur'
    BY <1>1, <2>1, PieceTurn
  <2>3. /\ t.buf_peek \in Nat /\ buf_cur < t.buf_peek /\ t.lexeme.from = buf_cur
        /\ t.lexeme.to = t.buf_peek /\ x \in DOMAIN SymbolType /\ x # Eof
    BY <2>1, PieceTyped DEF PieceLexeme
  <2>4. /\ group_stack = <<>> => buf_cur = begun
        /\ group_stack # <<>> => /\ Len(group_stack) = 1 /\ group_stack[1].from = begun
                                 /\ begun < buf_cur
    BY <1>1, <1>4, <1>6 DEF OpenGroup
  <2> HIDE DEF t
  <2>5. CASE GroupStarts(t)
    <3> DEFINE s == [group |-> GroupOf(x), from |-> buf_cur]
    <3>1. group_stack = <<>>
      <4> SUFFICES ASSUME group_stack # <<>> PROVE FALSE
        OBVIOUS
      <4>1. Open.group \in DOMAIN Groups
        BY <1>1, OpenTyped
      <4> QED
        BY <2>5, <4>1 DEF GroupStarts, NoNesting
    <3>2. s \in Stacked
      <4>1. GroupOf(x) \in DOMAIN Groups
        BY <2>3, <2>5, GroupFound DEF GroupStarts
      <4> QED
        BY <1>1, <4>1 DEF Stacked
    <3>3. reading' /\ buf_cur' = t.buf_peek /\ group_stack' = Append(group_stack, s)
      BY <2>5 DEF GroupStarts
    <3>4. s.from = buf_cur
      OBVIOUS
    <3> HIDE DEF s
    <3>5. Len(group_stack') = 1 /\ group_stack'[1] = s /\ group_stack' # <<>>
      <4>1. group_stack' = Append(<<>>, s)
        BY <3>1, <3>3
      <4>2. Append(<<>>, s) # <<>> /\ Len(Append(<<>>, s)) = 1 /\ Append(<<>>, s)[1] = s
        BY <3>2, AppendProperties, EmptySeq
      <4> QED
        BY <4>1, <4>2
    <3>6. OpenGroup'
      BY <2>2, <2>3, <2>4, <3>1, <3>3, <3>4, <3>5 DEF OpenGroup
    <3> QED
      BY <3>3, <3>6 DEF TokensTile, Returned
  <2>6. CASE Plain(t)
    <3>1. /\ group_stack = <<>> /\ group_stack' = <<>> /\ ~reading'
          /\ buf_cur' = t.buf_peek /\ token' = t.lexeme
      BY <2>6 DEF Plain
    <3>2. OpenGroup'
      BY <3>1 DEF OpenGroup
    <3>3. /\ token'.symbol # Eof' /\ token'.from = begun' /\ begun' < token'.to
          /\ token'.to = buf_cur'
      BY <1>2, <2>2, <2>3, <2>4, <3>1
    <3>4. TokensTile'
      BY <3>3 DEF TokensTile
    <3> QED
      BY <3>2, <3>4
  <2>7. CASE GroupEnds(t)
    <3>1. /\ group_stack # <<>> /\ Len(group_stack) = 1 /\ group_stack[1].from = begun
          /\ begun < buf_cur
      BY <2>4, <2>7 DEF GroupEnds
    <3>2. /\ Open = group_stack[1] /\ Open.group \in DOMAIN Groups
          /\ Front(group_stack) \in Seq(Stacked) /\ Len(Front(group_stack)) = 0
      BY <1>1, <3>1, OpenTyped
    <3>3. Front(group_stack) = <<>>
      BY <3>2, EmptySeq
    <3>4. /\ token' = [symbol |-> Groups[Open.group].container, from |-> Open.from,
                       to |-> buf_cur', place |-> place]
          /\ group_stack' = <<>> /\ ~reading'
      BY <2>7, <3>1, <3>3 DEF GroupEnds
    <3>5. Groups[Open.group].container # Eof
      BY <3>2, GroupSymbols
    <3>6. /\ token'.symbol # Eof' /\ token'.from = begun' /\ token'.to = buf_cur'
      BY <1>2, <2>2, <3>1, <3>2, <3>4, <3>5
    <3>7. begun' < token'.to
      BY <1>1, <2>2, <3>1, <3>6
    <3>8. OpenGroup' /\ TokensTile'
      BY <3>4, <3>6, <3>7 DEF OpenGroup, TokensTile
    <3> QED
      BY <3>8
  <2>8. CASE Within(t)
    <3>1. group_stack # <<>> /\ group_stack' = group_stack /\ reading'
      BY <2>8 DEF Within
    <3>2. begun' < buf_cur' /\ Len(group_stack') = 1 /\ group_stack'[1].from = begun'
      BY <1>1, <2>2, <2>4, <3>1
    <3>3. OpenGroup'
      BY <3>1, <3>2 DEF OpenGroup
    <3> QED
      BY <3>1, <3>3 DEF TokensTile, Returned
  <2> QED
    BY <2>2, <2>5, <2>6, <2>7, <2>8
<1> QED
  BY <1>5, <1>6

LEMMA NextTiles ==
  ASSUME NoNesting, IInv, TileInv, [Next]_vars
  PROVE  TileInv'
<1>1. CASE ReadTurn
  BY <1>1, TurnKeepsTiles
<1>2. CASE ReadToken
  <2>1. /\ ~reading /\ reading' = TRUE /\ begun' = buf_cur
        /\ buf' = buf /\ buf_cur' = buf_cur /\ group_stack' = group_stack /\ stale' = stale
    BY <1>2 DEF ReadToken
  <2> QED
    BY <2>1 DEF TileInv, OpenGroup, TokensTile, Returned
<1>3. CASE Load \/ ResetCursor
  <2>1. /\ ~reading /\ reading' = reading /\ token' = NoToken
        /\ stale' = (stale \/ group_stack # <<>>)
    BY <1>3 DEF Load, ResetCursor, FromStart
  <2>2. ~stale' => group_stack' = <<>>
    <3> SUFFICES ASSUME group_stack = <<>> PROVE group_stack' = <<>>
      BY <2>1 DEF IInv, TypeOK
    <3>1. CASE ResetCursor
      BY <3>1 DEF ResetCursor
    <3>2. CASE Load
      <4> DEFINE g == [i \in DOMAIN group_stack |-> [group_stack[i] EXCEPT !.from = Elsewhere]]
      <4>1. DOMAIN group_stack = 1..0 /\ Len(group_stack) = 0
        OBVIOUS
      <4>2. g \in [1..0 -> {}]
        BY <4>1
      <4>3. group_stack' = g
        BY <3>2 DEF Load
      <4> HIDE DEF g
      <4>4. g \in Seq({})
        BY <4>2, SeqDef
      <4>5. Len(g) = 0
        BY <4>2, <4>4, LenProperties
      <4>6. g = <<>>
        BY <4>4, <4>5, EmptySeq
      <4> QED
        BY <4>3, <4>6
    <3> QED
      BY <1>3, <3>1, <3>2
  <2>3. (~stale => OpenGroup)'
    BY <2>1, <2>2 DEF OpenGroup
  <2>4. ~Returned'
    BY <2>1 DEF Returned, NoToken
  <2> QED
    BY <2>3, <2>4 DEF TileInv, TokensTile
<1>4. CASE UNCHANGED vars
  BY <1>4 DEF vars, TileInv, OpenGroup, TokensTile, Returned, Eof, OfType
<1> QED
  BY <1>1, <1>2, <1>3, <1>4 DEF Next

\* TokensTile, for groups that do not nest in each other: the tokens follow one another
\* without a gap or an overlap, none is empty, and EOF is not answered before the last
\* byte was passed.  For nested groups the code returns the ends of the inner ones.
THEOREM TokensTileText ==
  ASSUME NoNesting
  PROVE  Spec => []TokensTile
<1>1. Init => TileInv
  BY DEF Init, TileInv, OpenGroup, TokensTile, Returned
<1>2. IInv /\ TileInv /\ [Next]_vars => TileInv'
  BY NextTiles
<1>3. TileInv => TokensTile
  BY DEF TileInv
<1> QED
  BY <1>1, <1>2, <1>3, LexerInvariant, PTL DEF Spec
-----------------------------------------------------------------------------
(* Under the parser (LexedParser): what PeekToken and a turn of the loop   *)
(* make of a buffer, as functions of it.                                   *)

ByteIn(b, i) == IF i < Len(b) THEN b[i + 1] ELSE Padding

DecodeIn(b, i) ==
  LET c   == ByteIn(b, i)
      low == [k \in 1..3 |-> ByteIn(b, i + k) % 64]
  IN CASE c < 128              -> [char |-> c, next |-> i + 1]
       [] c \in 128..(224 - 1) -> [char |-> (c % 32) * 64 + low[1], next |-> i + 2]
       [] c \in 224..(240 - 1) -> [char |-> (c % 16) * 4096 + low[1] * 64 + low[2], next |-> i + 3]
       [] c >= 240             -> [char |-> 65535, next |-> i + 4]

TurnIn(b) == [l \in LoopState |->
  LET c    == DecodeIn(b, l.cur)
      t    == Lookup(l.state, c.char)
      past == [l EXCEPT !.cur = c.next]
  IN IF l.broken \/ l.cur >= Len(b) THEN l
     ELSE CASE t = NoTarget -> [past EXCEPT !.broken = TRUE]
            [] t = MissLoop -> past
            [] t = HitLoop  -> IF c.char \in Ascii THEN [past EXCEPT !.hit_cur = c.next] ELSE past
            [] OTHER        -> IF DfaStates[t].accept = NoSymbol THEN [past EXCEPT !.state = t]
                               ELSE [past EXCEPT !.state = t, !.hit_symbol = DfaStates[t].accept,
                                                 !.hit_cur = c.next]]

ScanIn(b, i) ==
  LET loop[n \in Nat] ==
        IF n = 0 THEN [cur |-> i, state |-> DfaInit, hit_symbol |-> NoSymbol,
                       hit_cur |-> 0, broken |-> FALSE]
        ELSE TurnIn(b)[loop[n - 1]]
  IN loop

AnswerIn(b, i) ==
  LET l == ScanIn(b, i)[Len(b)]
  IN IF l.hit_symbol # NoSymbol THEN <<l.hit_symbol, l.hit_cur>>
     ELSE IF l.cur = i THEN <<Eof, l.cur>> ELSE <<Error, l.cur>>

LEMMA AnswerIs ==
  ASSUME buf \in Seq(0..255), buf_cur \in Nat
  PROVE  AnswerIn(buf, buf_cur) = <<Peek.lexeme.symbol, Peek.buf_peek>>
<1>2. Turn = TurnIn(buf)
  BY DEF Turn, TurnIn, Decode, DecodeIn, ByteAt, ByteIn
<1>3. Scan = ScanIn(buf, buf_cur)
  BY <1>2 DEF Scan, ScanIn
<1> DEFINE l == Scan[Len(buf)]
<1>4. Peek = Found(l.hit_symbol, l.hit_cur, l.cur)
  BY DEF Peek
<1>5. AnswerIn(buf, buf_cur) = 
    IF l.hit_symbol # NoSymbol THEN <<l.hit_symbol, l.hit_cur>>
     ELSE IF l.cur = buf_cur THEN <<Eof, l.cur>> ELSE <<Error, l.cur>>
  BY <1>3 DEF AnswerIn
<1> HIDE DEF l
<1> QED
  BY <1>4, <1>5 DEF Found, Peeked, Lexeme

\* The lexer as it stands between two turns, and the lexemes it has handed over.
LexState == [cur : Nat, open : Seq(DOMAIN Groups), reading : BOOLEAN, got : Seq(Parse!Lexemes)]

At(cur, open, busy, got) == [cur |-> cur, open |-> open, reading |-> busy, got |-> got]

Inner(open) == Groups[open[Len(open)]]

NestsIn(open, x) == /\ SymbolType[x] = "GroupStart"
                    /\ open # <<>> => GroupOf(x) \in Inner(open).nesting

Handed(open, x) == IF Len(open) > 1 THEN x ELSE Inner(open).container

NextOf(b, s) ==
  LET x  == AnswerIn(b, s.cur)[1]
      to == AnswerIn(b, s.cur)[2]
  IN IF ~s.reading THEN At(s.cur, s.open, TRUE, s.got)
     ELSE IF NestsIn(s.open, x) THEN At(to, Append(s.open, GroupOf(x)), TRUE, s.got)
     ELSE IF s.open = <<>> THEN At(to, s.open, FALSE, Append(s.got, x))
     ELSE IF Inner(s.open).end = x
          THEN At(IF Inner(s.open).ending = "Closed" THEN to ELSE s.cur,
                  SubSeq(s.open, 1, Len(s.open) - 1), FALSE, Append(s.got, Handed(s.open, x)))
     ELSE IF SymbolType[x] = "EndOfFile" THEN At(s.cur, s.open, FALSE, Append(s.got, x))
     ELSE At(IF Inner(s.open).advance = "Token" THEN to ELSE s.cur + 1, s.open, TRUE, s.got)

Opened == [i \in 1..Len(group_stack) |-> group_stack[i].group]

LEMMA OpenedTyped ==
  ASSUME NEW g \in Seq(Stacked)
  PROVE  [i \in 1..Len(g) |-> g[i].group] \in Seq(DOMAIN Groups)
<1>1. Len(g) \in Nat /\ \A i \in 1..Len(g) : g[i] \in Stacked
  BY LenProperties, ElementOfSeq
<1>2. \A i \in 1..Len(g) : g[i].group \in DOMAIN Groups
  BY <1>1 DEF Stacked
<1> QED
  BY <1>1, <1>2, IsASeq

LEMMA OpenedFacts ==
  ASSUME TypeOK
  PROVE  /\ Opened \in Seq(DOMAIN Groups) /\ Len(Opened) = Len(group_stack) /\ Len(Opened) \in Nat
         /\ Opened = <<>> <=> group_stack = <<>>
         /\ group_stack # <<>> => Inner(Opened) = Groups[Open.group]
<1>1. group_stack \in Seq(Stacked)
  BY DEF TypeOK, Stacked
<1>2. Len(group_stack) \in Nat /\ (group_stack = <<>> <=> Len(group_stack) = 0)
  BY <1>1, EmptySeq, LenProperties
<1>4. Opened \in Seq(DOMAIN Groups)
  BY <1>1, OpenedTyped DEF Opened
<1>5. Len(Opened) = Len(group_stack)
  <2>1. DOMAIN Opened = 1..Len(group_stack)
    BY DEF Opened
  <2> QED
    BY <1>2, <1>4, <2>1, LenProperties
<1>6. Opened = <<>> <=> group_stack = <<>>
  BY <1>2, <1>4, <1>5, EmptySeq
<1>7. ASSUME group_stack # <<>> PROVE Inner(Opened) = Groups[Open.group]
  <2>1. Open = group_stack[Len(group_stack)] /\ Len(group_stack) \in 1..Len(group_stack)
    BY <1>2, <1>7, OpenTyped
  <2>2. Opened[Len(group_stack)] = Open.group
    BY <2>1 DEF Opened
  <2> QED
    BY <1>5, <2>2 DEF Inner
<1> QED
  BY <1>2, <1>4, <1>5, <1>6, <1>7

LEMMA OpenedNext ==
  ASSUME TypeOK, TypeOK'
  PROVE  /\ group_stack' = group_stack => Opened' = Opened
         /\ \A g : group_stack' = Append(group_stack, g) => Opened' = Append(Opened, g.group)
         /\ group_stack # <<>> /\ group_stack' = Front(group_stack) =>
              Opened' = SubSeq(Opened, 1, Len(Opened) - 1)
<1>1. group_stack \in Seq(Stacked) /\ group_stack' \in Seq(Stacked)
  BY DEF TypeOK, Stacked
<1> DEFINE n == Len(group_stack)
<1>2. n \in Nat /\ Len(Opened) = n /\ Opened \in Seq(DOMAIN Groups)
  BY OpenedFacts
<1>3. ASSUME NEW g, group_stack' = Append(group_stack, g) PROVE Opened' = Append(Opened, g.group)
  <2> DEFINE S == Stacked \cup {g}
  <2>0. group_stack \in Seq(S) /\ g \in S
    <3>1. \A i \in 1..n : group_stack[i] \in S
      BY <1>1, <1>2, ElementOfSeq
    <3> QED
      BY <1>1, <1>2, <3>1, IsASeq
  <2> HIDE DEF S
  <2>1. /\ Len(group_stack') = n + 1 /\ group_stack'[n + 1] = g
        /\ \A i \in 1..n : group_stack'[i] = group_stack[i]
    BY <1>3, <2>0, AppendProperties
  <2>3. Opened' = [i \in 1..n + 1 |-> group_stack'[i].group]
    BY <2>1 DEF Opened
  <2> DEFINE T == DOMAIN Groups \cup {g.group}
  <2>4. Opened \in Seq(T) /\ g.group \in T
    <3>1. \A i \in 1..n : Opened[i] \in T
      BY <1>2, ElementOfSeq
    <3>2. Opened = [i \in 1..n |-> Opened[i]]
      BY <1>2, LenProperties
    <3> QED
      BY <1>2, <3>1, <3>2, IsASeq
  <2> HIDE DEF T
  <2>5. /\ Append(Opened, g.group) \in Seq(T) /\ Len(Append(Opened, g.group)) = n + 1
        /\ Append(Opened, g.group)[n + 1] = g.group
        /\ \A i \in 1..n : Append(Opened, g.group)[i] = Opened[i]
    BY <1>2, <2>4, AppendProperties
  <2>6. \A i \in 1..n + 1 : Append(Opened, g.group)[i] = group_stack'[i].group
    <3> TAKE i \in 1..n + 1
    <3>1. i \in 1..n \/ i = n + 1
      BY <1>2
    <3>2. i \in 1..n => Opened[i] = group_stack[i].group
      BY DEF Opened
    <3> QED
      BY <2>1, <2>5, <3>1, <3>2
  <2>7. Append(Opened, g.group) = [i \in 1..n + 1 |-> Append(Opened, g.group)[i]]
    BY <1>2, <2>5, LenProperties
  <2> QED
    BY <2>3, <2>6, <2>7
<1>4. ASSUME group_stack # <<>>, group_stack' = Front(group_stack)
      PROVE  Opened' = SubSeq(Opened, 1, Len(Opened) - 1)
  <2>1. n \in Nat \ {0} /\ Len(group_stack') = n - 1
    BY <1>4, OpenTyped
  <2>2. group_stack' = SubSeq(group_stack, 1, n - 1)
    BY <1>4 DEF Front
  <2>3. \A i \in 1..n - 1 : group_stack'[i] = group_stack[i] /\ i \in 1..n
    BY <1>1, <2>1, <2>2
  <2>4. Opened' = [i \in 1..n - 1 |-> group_stack[i].group]
    BY <2>1, <2>3 DEF Opened
  <2>5. SubSeq(Opened, 1, n - 1) = [i \in 1..n - 1 |-> Opened[i]]
    BY <1>2, <2>1
  <2>6. \A i \in 1..n - 1 : Opened[i] = group_stack[i].group
    BY <2>3 DEF Opened
  <2> QED
    BY <1>2, <2>4, <2>5, <2>6
<1> QED
  BY <1>3, <1>4 DEF Opened

\* A turn of the loop goes where the buffer says.
LEMMA TurnFollows ==
  ASSUME TypeOK, TypeOK', ReadTurn, NEW got
  PROVE  At(buf_cur', Opened', reading', IF reading' THEN got ELSE Append(got, token'.symbol))
           = NextOf(buf, At(buf_cur, Opened, reading, got))
<1> DEFINE t  == Peek
           x  == t.lexeme.symbol
           to == t.buf_peek
           s  == At(buf_cur, Opened, TRUE, got)
<1>1. buf \in Seq(0..255) /\ buf_cur \in Nat
  BY DEF TypeOK
<1>2. AnswerIn(buf, buf_cur)[1] = x /\ AnswerIn(buf, buf_cur)[2] = to
  BY <1>1, AnswerIs
<1>3. reading = TRUE /\ (\/ IntoNested(t) \/ PlainToken(t) \/ OutOfNested(t) \/ EofInNested(t)
                         \/ TokenInNested(t))
  BY DEF ReadTurn, TypeOK
<1>4. /\ NestsIn(Opened, x) <=> Nests(x)
      /\ Opened = <<>> <=> group_stack = <<>>
      /\ Ends(x) <=> Opened # <<>> /\ Inner(Opened).end = x
      /\ Opened # <<>> => Inner(Opened) = Groups[Open.group]
  BY OpenedFacts DEF NestsIn, Nests, Ends
<1>5. NextOf(buf, s) =
        IF NestsIn(Opened, x) THEN At(to, Append(Opened, GroupOf(x)), TRUE, got)
        ELSE IF Opened = <<>> THEN At(to, Opened, FALSE, Append(got, x))
        ELSE IF Inner(Opened).end = x
             THEN At(IF Inner(Opened).ending = "Closed" THEN to ELSE buf_cur,
                     SubSeq(Opened, 1, Len(Opened) - 1), FALSE, Append(got, Handed(Opened, x)))
        ELSE IF SymbolType[x] = "EndOfFile" THEN At(buf_cur, Opened, FALSE, Append(got, x))
        ELSE At(IF Inner(Opened).advance = "Token" THEN to ELSE buf_cur + 1, Opened, TRUE, got)
  BY <1>2 DEF NextOf, At
<1> HIDE DEF t
<1>6. CASE IntoNested(t)
  <2>1. /\ Nests(x) /\ buf_cur' = to /\ reading' = TRUE
        /\ group_stack' = Append(group_stack, [group |-> GroupOf(x), from |-> t.lexeme.from])
    BY <1>6 DEF IntoNested, Advance, Continue
  <2>2. Opened' = Append(Opened, GroupOf(x))
    BY <2>1, OpenedNext
  <2> QED
    BY <1>3, <1>4, <1>5, <2>1, <2>2
<1>7. CASE PlainToken(t)
  <2>1. /\ ~Nests(x) /\ group_stack = <<>> /\ buf_cur' = to /\ reading' = FALSE
        /\ group_stack' = group_stack /\ token' = t.lexeme
    BY <1>7 DEF PlainToken, Advance, Return
  <2>2. Opened' = Opened
    BY <2>1, OpenedNext
  <2> QED
    BY <1>3, <1>4, <1>5, <2>1, <2>2
<1>8. CASE OutOfNested(t)
  <2>1. /\ ~Nests(x) /\ Ends(x) /\ group_stack' = Front(group_stack) /\ reading' = FALSE
        /\ buf_cur' = IF Groups[Open.group].ending = "Closed" THEN to ELSE buf_cur
        /\ token' = GroupToken(t.lexeme, IF Groups[Open.group].ending = "Closed"
                                         THEN t.lexeme.to ELSE t.lexeme.from)
    BY <1>8 DEF OutOfNested, Advance, Return
  <2>2. group_stack # <<>> /\ Opened' = SubSeq(Opened, 1, Len(Opened) - 1)
    BY <2>1, OpenedNext DEF Ends
  <2>3. token'.symbol = Handed(Opened, x)
    <3> DEFINE end == IF Groups[Open.group].ending = "Closed" THEN t.lexeme.to ELSE t.lexeme.from
    <3>1. Len(Opened) = Len(group_stack)
      BY OpenedFacts
    <3>2. CASE Len(group_stack) > 1
      BY <2>1, <3>1, <3>2 DEF GroupToken, Handed
    <3>3. CASE ~(Len(group_stack) > 1)
      <4>1. IF buf_cur >= Len(buf) THEN EndLexeme(t) ELSE PieceLexeme(t)
        BY <1>1, PeekFacts DEF t
      <4>2. PICK a, f, n, p : t.lexeme = [symbol |-> a, from |-> f, to |-> n, place |-> p]
        BY <4>1 DEF EndLexeme, PieceLexeme
      <4>3. token' = [t.lexeme EXCEPT !.symbol = Groups[Open.group].container, !.from = Open.from,
                                      !.to = end]
        BY <2>1, <3>3 DEF GroupToken
      <4> HIDE DEF end
      <4>4. token'.symbol = Groups[Open.group].container
        BY <4>2, <4>3
      <4> QED
        BY <1>4, <2>2, <3>1, <3>3, <4>4 DEF Handed
    <3> QED
      BY <3>2, <3>3
  <2> QED
    BY <1>3, <1>4, <1>5, <2>1, <2>2, <2>3
<1>9. CASE EofInNested(t)
  <2>1. /\ group_stack # <<>> /\ ~Ends(x) /\ SymbolType[x] = "EndOfFile" /\ token' = t.lexeme
        /\ reading' = FALSE /\ buf_cur' = buf_cur /\ group_stack' = group_stack
    BY <1>9 DEF EofInNested, Return
  <2>2. Opened' = Opened /\ ~Nests(x)
    BY <2>1, OpenedNext DEF Nests
  <2> QED
    BY <1>3, <1>4, <1>5, <2>1, <2>2
<1>10. CASE TokenInNested(t)
  <2>1. /\ Inside(x) /\ reading' = TRUE /\ group_stack' = group_stack
        /\ buf_cur' = IF Groups[Open.group].advance = "Token" THEN to ELSE buf_cur + 1
    BY <1>10 DEF TokenInNested, Advance, Continue
  <2>2. Opened' = Opened
    BY <2>1, OpenedNext
  <2> QED
    BY <1>3, <1>4, <1>5, <2>1, <2>2 DEF Inside
<1> QED
  BY <1>3, <1>6, <1>7, <1>8, <1>9, <1>10

-----------------------------------------------------------------------------
(* Readings: the lexer's states since a text was begun.                    *)

Reading(b, h) == /\ h \in Seq(LexState) /\ Len(h) >= 1
                 /\ h[1] = At(0, <<>>, FALSE, <<>>)
                 /\ \A i \in 1..Len(h) - 1 : h[i + 1] = NextOf(b, h[i])

Starts(u, w) == Len(u) <= Len(w) /\ \A i \in 1..Len(u) : w[i] = u[i]

LEMMA ReadingTyped ==
  ASSUME NEW b, NEW h, Reading(b, h)
  PROVE  /\ Len(h) \in Nat \ {0}
         /\ \A i \in 1..Len(h) : h[i] \in LexState /\ h[i].got \in Seq(Parse!Lexemes)
<1>1. Len(h) \in Nat \ {0}
  BY LenProperties DEF Reading
<1>2. \A i \in 1..Len(h) : h[i] \in LexState
  BY <1>1, ElementOfSeq DEF Reading
<1> QED
  BY <1>1, <1>2 DEF LexState

LEMMA AppendStarts ==
  ASSUME NEW V, NEW u \in Seq(V), NEW x
  PROVE  Starts(u, Append(u, x)) /\ Len(Append(u, x)) = Len(u) + 1 /\ Append(u, x)[Len(u) + 1] = x
<1> DEFINE S == V \cup {x}
<1>1. Len(u) \in Nat
  BY LenProperties
<1>2. u \in Seq(S) /\ x \in S
  <2>1. \A i \in 1..Len(u) : u[i] \in S
    BY <1>1, ElementOfSeq
  <2>2. u = [i \in 1..Len(u) |-> u[i]]
    BY LenProperties
  <2> QED
    BY <1>1, <2>1, <2>2, IsASeq
<1> HIDE DEF S
<1> QED
  BY <1>1, <1>2, AppendProperties DEF Starts

LEMMA StepGrows ==
  ASSUME NEW b, NEW s \in LexState
  PROVE  Starts(s.got, NextOf(b, s).got)
<1> DEFINE x == AnswerIn(b, s.cur)[1]
           to == AnswerIn(b, s.cur)[2]
           a  == Append(s.got, x)
           c  == Append(s.got, Handed(s.open, x))
<1>1. s.got \in Seq(Parse!Lexemes) /\ Len(s.got) \in Nat
  BY LenProperties DEF LexState
<1>2. Starts(s.got, s.got)
  BY <1>1 DEF Starts
<1>3. Starts(s.got, a) /\ Starts(s.got, c)
  BY <1>1, AppendStarts
<1>4. NextOf(b, s).got \in {s.got, a, c}
  BY DEF NextOf, At
<1> QED
  BY <1>2, <1>3, <1>4

LEMMA SameReading ==
  ASSUME NEW b, NEW h, NEW k, Reading(b, h), Reading(b, k), Len(h) <= Len(k)
  PROVE  \A i \in 1..Len(h) : h[i] = k[i]
<1> DEFINE N == Len(h) - 1
           T == {n \in 0..N : h[n + 1] = k[n + 1]}
<1>1. Len(h) \in Nat \ {0} /\ Len(k) \in Nat \ {0} /\ N \in Nat
  BY ReadingTyped
<1>2. 0 \in T
  <2>1. h[1] = k[1]
    BY DEF Reading
  <2> QED
    BY <1>1, <2>1
<1>3. ASSUME NEW n \in 0..N - 1, n \in T PROVE n + 1 \in T
  <2>1. n + 1 \in 1..Len(h) - 1 /\ n + 1 \in 1..Len(k) - 1 /\ n + 1 \in 0..N
    BY <1>1
  <2>2. h[(n + 1) + 1] = NextOf(b, h[n + 1]) /\ k[(n + 1) + 1] = NextOf(b, k[n + 1])
    BY <2>1 DEF Reading
  <2> QED
    BY <1>3, <2>1, <2>2
<1> HIDE DEF T
<1>4. \A n \in 0..N : n \in T
  BY <1>1, <1>2, <1>3, InductionUpTo
<1> TAKE i \in 1..Len(h)
<1>5. i - 1 \in 0..N /\ (i - 1) + 1 = i
  BY <1>1
<1>6. i - 1 \in T
  BY <1>4, <1>5
<1> QED
  BY <1>5, <1>6 DEF T

LEMMA GotGrows ==
  ASSUME NEW b, NEW k, Reading(b, k), NEW m \in 1..Len(k)
  PROVE  Starts(k[m].got, k[Len(k)].got)
<1> DEFINE N == Len(k) - m
           T == {n \in 0..N : Starts(k[m].got, k[m + n].got)}
<1>1. Len(k) \in Nat \ {0} /\ N \in Nat /\ m \in Nat
  BY ReadingTyped
<1>2. \A i \in 1..Len(k) : k[i] \in LexState /\ k[i].got \in Seq(Parse!Lexemes) /\ Len(k[i].got) \in Nat
  BY ReadingTyped, LenProperties
<1>3. 0 \in T
  BY <1>1, <1>2 DEF Starts
<1>4. ASSUME NEW n \in 0..N - 1, n \in T PROVE n + 1 \in T
  <2> DEFINE u == k[m].got
             v == k[m + n].got
             w == k[m + (n + 1)].got
  <2>1. m + n \in 1..Len(k) - 1 /\ m + n \in 1..Len(k) /\ (m + n) + 1 = m + (n + 1)
        /\ m + (n + 1) \in 1..Len(k) /\ n + 1 \in 0..N
    BY <1>1
  <2>2. k[(m + n) + 1] = NextOf(b, k[m + n])
    BY <2>1 DEF Reading
  <2>3. Starts(v, w)
    BY <1>2, <2>1, <2>2, StepGrows
  <2>4. Starts(u, v)
    BY <1>4
  <2>5. Len(u) \in Nat /\ Len(v) \in Nat /\ Len(w) \in Nat
    BY <1>2, <2>1
  <2> HIDE DEF u, v, w
  <2>6. Starts(u, w)
    BY <2>3, <2>4, <2>5 DEF Starts
  <2> QED
    BY <2>1, <2>6 DEF u, w
<1> HIDE DEF T
<1>5. \A n \in 0..N : n \in T
  BY <1>1, <1>3, <1>4, InductionUpTo
<1>6. N \in 0..N /\ m + N = Len(k)
  BY <1>1
<1>7. N \in T
  BY <1>5, <1>6
<1> QED
  BY <1>6, <1>7 DEF T

\* Of two readings of a text one goes on where the other is.
LEMMA ReadingsAgree ==
  ASSUME NEW b, NEW h, NEW k, Reading(b, h), Reading(b, k)
  PROVE  Starts(h[Len(h)].got, k[Len(k)].got) \/ Starts(k[Len(k)].got, h[Len(h)].got)
<1>1. Len(h) \in Nat \ {0} /\ Len(k) \in Nat \ {0}
  BY ReadingTyped
<1>2. CASE Len(h) <= Len(k)
  <2>1. h[Len(h)] = k[Len(h)] /\ Len(h) \in 1..Len(k)
    BY <1>1, <1>2, SameReading
  <2> QED
    BY <2>1, GotGrows
<1>3. CASE Len(k) <= Len(h)
  <2>1. k[Len(k)] = h[Len(k)] /\ Len(k) \in 1..Len(h)
    BY <1>1, <1>3, SameReading
  <2> QED
    BY <2>1, GotGrows
<1> QED
  BY <1>1, <1>2, <1>3

LEMMA OneTurnMore ==
  ASSUME NEW b, NEW h, Reading(b, h), NextOf(b, h[Len(h)]) \in LexState
  PROVE  \E k : Reading(b, k) /\ k[Len(k)] = NextOf(b, h[Len(h)])
<1> DEFINE n == Len(h)
           s == NextOf(b, h[n])
           k == Append(h, s)
<1>1. n \in Nat \ {0} /\ h \in Seq(LexState)
  BY ReadingTyped DEF Reading
<1>2. k \in Seq(LexState) /\ Len(k) = n + 1 /\ k[n + 1] = s /\ \A i \in 1..n : k[i] = h[i]
  BY <1>1, AppendProperties
<1>3. ASSUME NEW i \in 1..Len(k) - 1 PROVE k[i + 1] = NextOf(b, k[i])
  <2>1. i = n \/ (i \in 1..n - 1 /\ i + 1 \in 1..n)
    BY <1>1, <1>2
  <2>2. i \in 1..n
    BY <1>1, <1>2
  <2> HIDE DEF k
  <2> QED
    BY <1>2, <2>1, <2>2 DEF Reading
<1>4. k[1] = At(0, <<>>, FALSE, <<>>) /\ Len(k) >= 1
  <2>1. h[1] = At(0, <<>>, FALSE, <<>>)
    BY DEF Reading
  <2>2. k[1] = h[1] /\ n + 1 >= 1
    BY <1>1, <1>2
  <2> QED
    BY <1>2, <2>1, <2>2
<1> HIDE DEF k
<1>5. Reading(b, k)
  BY <1>2, <1>3, <1>4 DEF Reading
<1> QED
  BY <1>2, <1>5

-----------------------------------------------------------------------------
(* What the parser has been given: the text up to cursor and what was      *)
(* fetched for it.                                                         *)

Got == SubSeq(text, 1, cursor) \o fetched

Now == At(buf_cur, Opened, reading, Got)

Noisy(x) == SymbolType[x] = "Noise"

\* Noise alone precedes what is fetched last, and a call is under way while it is.
Fetching ==
  /\ text \in Seq(Parse!Lexemes) /\ cursor \in 0..Len(text)
  /\ fetched \in Seq(Parse!Lexemes) /\ token_used \in BOOLEAN
  /\ call = "idle" \/ ~token_used => fetched = <<>>
  /\ reading => call # "idle" /\ token_used /\ Skipping
  /\ \A i \in 1..Len(fetched) - 1 : Noisy(fetched[i])
  /\ text # <<>> => ~Noisy(text[Len(text)])

IsEof(x) == SymbolType[x] = "EndOfFile"

\* Behind EOF nothing is left and nothing but EOF comes.
EofsLast == /\ \A i \in 1..Len(Got) - 1 : IsEof(Got[i]) => IsEof(Got[i + 1])
            /\ Len(Got) > 0 /\ IsEof(Got[Len(Got)]) => buf_cur >= Len(buf)

\* Both what was got and the text, which may have been read before, are readings of buf.
BothRead == /\ \E h : Reading(buf, h) /\ h[Len(h)] = Now
            /\ \E k : Reading(buf, k) /\ k[Len(k)].got = text

\* A text that was left inside a group is not read again.
OnceIfStale == stale => cursor = Len(text)

LexedInv == IInv /\ Fetching /\ EofsLast /\ OnceIfStale /\ (~stale => BothRead)

LEMMA GotFacts ==
  ASSUME Fetching
  PROVE  /\ Len(text) \in Nat /\ cursor \in Nat /\ Len(fetched) \in Nat
         /\ Got \in Seq(Parse!Lexemes) /\ Len(Got) = cursor + Len(fetched) /\ Len(Got) \in Nat
         /\ \A i \in 1..Len(Got) : Got[i] = IF i <= cursor THEN text[i] ELSE fetched[i - cursor]
<1> DEFINE u == SubSeq(text, 1, cursor)
<1>1. text \in Seq(Parse!Lexemes) /\ fetched \in Seq(Parse!Lexemes) /\ cursor \in 0..Len(text)
  BY DEF Fetching
<1>2. Len(text) \in Nat /\ cursor \in Nat /\ Len(fetched) \in Nat /\ cursor <= Len(text)
  BY <1>1, LenProperties
<1>3. \A i \in 1..cursor : text[i] \in Parse!Lexemes
  BY <1>1, <1>2, ElementOfSeq
<1>4. u \in Seq(Parse!Lexemes) /\ Len(u) = cursor /\ \A i \in 1..cursor : u[i] = text[i]
  BY <1>2, <1>3, SubSeqProperties
<1> HIDE DEF u
<1>5. /\ u \o fetched \in Seq(Parse!Lexemes) /\ Len(u \o fetched) = cursor + Len(fetched)
      /\ \A i \in 1..cursor + Len(fetched) :
           (u \o fetched)[i] = IF i <= cursor THEN u[i] ELSE fetched[i - cursor]
  BY <1>1, <1>4, ConcatProperties
<1>6. Got = u \o fetched
  BY DEF Got, u
<1>7. \A i \in 1..cursor + Len(fetched) : i <= cursor => i \in 1..cursor
  BY <1>2
<1> QED
  BY <1>2, <1>4, <1>5, <1>6, <1>7

\* Fetching one lexeme more adds it to what was got.
LEMMA FetchOne ==
  ASSUME Fetching, NEW x, text' = text, cursor' = cursor, fetched' = Append(fetched, x)
  PROVE  Got' = Append(Got, x)
<1> DEFINE V == Parse!Lexemes \cup {x}
           u == SubSeq(text, 1, cursor)
<1>1. text \in Seq(Parse!Lexemes) /\ fetched \in Seq(Parse!Lexemes) /\ cursor \in 0..Len(text)
  BY DEF Fetching
<1>2. Len(text) \in Nat /\ cursor \in Nat
  BY <1>1, LenProperties
<1>3. \A i \in 1..cursor : text[i] \in V
  BY <1>1, <1>2, ElementOfSeq
<1>4. u \in Seq(V) /\ fetched \in Seq(V) /\ x \in V
  <2>1. u \in Seq(V)
    BY <1>2, <1>3, SubSeqProperties
  <2>2. Len(fetched) \in Nat /\ \A i \in 1..Len(fetched) : fetched[i] \in V
    BY <1>1, LenProperties, ElementOfSeq
  <2>3. fetched = [i \in 1..Len(fetched) |-> fetched[i]]
    BY <1>1, LenProperties
  <2>4. fetched \in Seq(V)
    BY <2>2, <2>3, IsASeq
  <2> QED
    BY <2>1, <2>4
<1>5. Got = u \o fetched /\ Got' = u \o Append(fetched, x)
  BY DEF Got
<1> HIDE DEF u, V
<1>6. u \o Append(fetched, x) = Append(u \o fetched, x)
  BY <1>4
<1> QED
  BY <1>5, <1>6

\* What is fetched once a lexeme is no noise.
LEMMA FetchedForm ==
  ASSUME Fetching, ~Skipping
  PROVE  /\ Len(fetched) \in Nat \ {0} /\ ~Noisy(fetched[Len(fetched)])
         /\ \A i \in 1..Len(fetched) : /\ fetched[i] \in Parse!Lexemes
                                       /\ fetched[i] = Got[cursor + i]
                                       /\ i # Len(fetched) => Noisy(fetched[i])
<1>1. /\ fetched \in Seq(Parse!Lexemes) /\ \A i \in 1..Len(fetched) - 1 : Noisy(fetched[i])
      /\ Len(fetched) \in Nat
  BY LenProperties DEF Fetching
<1>2. PICK i \in DOMAIN fetched : ~Noisy(fetched[i])
  BY DEF Skipping, Noisy
<1>3. i \in 1..Len(fetched)
  BY <1>1, <1>2, LenProperties
<1>4. i = Len(fetched)
  BY <1>1, <1>2, <1>3
<1>5. ASSUME NEW j \in 1..Len(fetched)
      PROVE  /\ fetched[j] \in Parse!Lexemes /\ fetched[j] = Got[cursor + j]
             /\ j # Len(fetched) => Noisy(fetched[j])
  <2>1. /\ cursor \in Nat /\ Len(Got) = cursor + Len(fetched)
        /\ \A k \in 1..Len(Got) : Got[k] = IF k <= cursor THEN text[k] ELSE fetched[k - cursor]
    BY GotFacts
  <2>2. cursor + j \in 1..Len(Got) /\ ~(cursor + j <= cursor) /\ (cursor + j) - cursor = j
    BY <1>1, <2>1
  <2>3. Got[cursor + j] = fetched[j]
    BY <2>1, <2>2
  <2>4. fetched[j] \in Parse!Lexemes
    BY <1>1, ElementOfSeq
  <2>5. j # Len(fetched) => j \in 1..Len(fetched) - 1
    BY <1>1
  <2> QED
    BY <1>1, <2>3, <2>4, <2>5
<1> QED
  BY <1>1, <1>2, <1>3, <1>4, <1>5

\* In a text that was read before, the lexemes are those of the first reading.
LEMMA FetchedAgain ==
  ASSUME Fetching, BothRead, ~Skipping, cursor # Len(text)
  PROVE  /\ fetched = SubSeq(text, cursor + 1, cursor + Len(fetched))
         /\ cursor + Len(fetched) <= Len(text)
         /\ \A i \in 1..Len(fetched) : text[cursor + i] = fetched[i]
<1> DEFINE m == Len(fetched)
<1>1. /\ Len(text) \in Nat /\ cursor \in Nat /\ cursor <= Len(text)
      /\ text \in Seq(Parse!Lexemes) /\ fetched \in Seq(Parse!Lexemes)
      /\ Len(Got) = cursor + m
  BY GotFacts DEF Fetching
<1>2. /\ m \in Nat \ {0} /\ ~Noisy(fetched[m])
      /\ \A i \in 1..m : fetched[i] = Got[cursor + i] /\ (i # m => Noisy(fetched[i]))
  BY FetchedForm
<1>3. PICK h : Reading(buf, h) /\ h[Len(h)] = Now
  BY DEF BothRead
<1>4. PICK k : Reading(buf, k) /\ k[Len(k)].got = text
  BY DEF BothRead
<1>5. Starts(Got, text) \/ Starts(text, Got)
  BY <1>3, <1>4, ReadingsAgree DEF Now, At
<1>6. cursor + m <= Len(text)
  <2>1. CASE Starts(Got, text)
    BY <1>1, <2>1 DEF Starts
  <2>2. CASE Starts(text, Got)
    <3> SUFFICES ASSUME Len(text) < cursor + m PROVE FALSE
      BY <1>1, <1>2
    <3> DEFINE i == Len(text) - cursor
    <3>1. i \in 1..m /\ i # m /\ cursor + i = Len(text) /\ Len(text) \in 1..Len(text)
      BY <1>1, <1>2
    <3>2. Got[Len(text)] = text[Len(text)]
      BY <2>2, <3>1 DEF Starts
    <3>3. Noisy(text[Len(text)])
      BY <1>2, <3>1, <3>2
    <3>4. text # <<>>
      BY <3>1, EmptySeq
    <3> QED
      BY <3>3, <3>4 DEF Fetching
  <2> QED
    BY <1>5, <2>1, <2>2
<1>7. \A i \in 1..m : text[cursor + i] = fetched[i]
  <2> TAKE i \in 1..m
  <2>1. cursor + i \in 1..Len(Got) /\ cursor + i \in 1..Len(text)
    BY <1>1, <1>2, <1>6
  <2>2. text[cursor + i] = Got[cursor + i]
    BY <1>5, <2>1 DEF Starts
  <2> QED
    BY <1>2, <2>2
<1>8. \A j \in cursor + 1 .. cursor + m : text[j] \in Parse!Lexemes
  <2> TAKE j \in cursor + 1 .. cursor + m
  <2>1. j \in 1..Len(text)
    BY <1>1, <1>2, <1>6
  <2> QED
    BY <1>1, <2>1, ElementOfSeq
<1> DEFINE u == SubSeq(text, cursor + 1, cursor + m)
<1>9. /\ u \in Seq(Parse!Lexemes) /\ Len(u) = m
      /\ \A i \in 1..m : u[i] = text[cursor + i]
  <2>1. /\ u \in Seq(Parse!Lexemes)
        /\ Len(u) = IF cursor + 1 <= cursor + m THEN (cursor + m) - (cursor + 1) + 1 ELSE 0
        /\ \A i \in 1 .. (cursor + m) - (cursor + 1) + 1 : u[i] = text[(cursor + 1) + i - 1]
    BY <1>1, <1>2, <1>8, SubSeqProperties
  <2>2. (cursor + m) - (cursor + 1) + 1 = m /\ cursor + 1 <= cursor + m
        /\ \A i \in 1..m : (cursor + 1) + i - 1 = cursor + i
    BY <1>1, <1>2
  <2> HIDE DEF u
  <2> QED
    BY <2>1, <2>2
<1> HIDE DEF u
<1>10. u = [i \in 1..m |-> u[i]] /\ fetched = [i \in 1..m |-> fetched[i]]
  BY <1>1, <1>9, LenProperties
<1>11. fetched = u
  BY <1>7, <1>9, <1>10
<1> QED
  BY <1>6, <1>7, <1>11 DEF u

\* Behind the text read so far comes noise and then a token, and behind EOF comes EOF.
LEMMA FetchedNew ==
  ASSUME Fetching, EofsLast, ~Skipping, cursor = Len(text), Len(fetched) <= MaxGap + 1
  PROVE  fetched \in Parse!Unseen
<1> DEFINE m == Len(fetched)
           e == fetched[m]
           g == SubSeq(fetched, 1, m - 1)
<1>1. /\ cursor \in Nat /\ fetched \in Seq(Parse!Lexemes) /\ Len(Got) = cursor + m
      /\ \A i \in 1..Len(Got) : Got[i] = IF i <= cursor THEN text[i] ELSE fetched[i - cursor]
  BY GotFacts DEF Fetching
<1>2. /\ m \in Nat \ {0} /\ ~Noisy(e)
      /\ \A i \in 1..m : /\ fetched[i] \in Parse!Lexemes /\ fetched[i] = Got[cursor + i]
                         /\ i # m => Noisy(fetched[i])
  BY FetchedForm
<1>3. fetched = Append(g, e)
  BY <1>1, <1>2
<1>4. CASE Parse!AtEof
  <2>1. cursor > 0 /\ IsEof(text[cursor])
    BY <1>4 DEF Parse!AtEof, Parse!Eofs, Parse!OfType, IsEof
  <2>2. IsEof(Got[cursor])
    BY <1>1, <1>2, <2>1
  <2>3. IsEof(fetched[1])
    <3>1. cursor \in 1..Len(Got) - 1 /\ 1 \in 1..m
      BY <1>1, <1>2, <2>1
    <3> QED
      BY <1>2, <2>2, <3>1 DEF EofsLast
  <2>4. m = 1
    <3>1. 1 \in 1..m
      BY <1>2
    <3>2. 1 # m => Noisy(fetched[1])
      BY <1>2, <3>1
    <3> QED
      BY <2>3, <3>2 DEF Noisy, IsEof
  <2>5. g = <<>>
    BY <2>4, SubSeqEmpty
  <2>6. e \in Parse!Eofs
    BY <1>2, <2>3, <2>4 DEF Parse!Eofs, Parse!OfType, Parse!Lexemes, Parse!Symbols, IsEof
  <2> QED
    BY <1>3, <1>4, <2>5, <2>6 DEF Parse!Unseen, Parse!NextGaps, Parse!NextTokens
<1>5. CASE ~Parse!AtEof
  <2>1. e \in Parse!Lexemes \ Parse!Noises
    BY <1>2 DEF Parse!Noises, Parse!OfType, Noisy
  <2>2. m - 1 \in 0..MaxGap
    BY <1>2, GapTyped
  <2>3. g \in [1..m - 1 -> Parse!Noises]
    <3>1. \A i \in 1..m - 1 : fetched[i] \in Parse!Noises
      BY <1>2 DEF Parse!Noises, Parse!OfType, Parse!Lexemes, Noisy
    <3>2. g \in Seq(Parse!Noises) /\ Len(g) = m - 1
      <4>1. /\ g \in Seq(Parse!Noises)
            /\ Len(g) = IF 1 <= m - 1 THEN (m - 1) - 1 + 1 ELSE 0
        <5>1. 1 \in Int /\ m - 1 \in Int
          BY <1>2
        <5> HIDE DEF m
        <5> QED
          BY <3>1, <5>1, SubSeqProperties
      <4>2. m \in Nat /\ m >= 1
        BY <1>2
      <4> HIDE DEF g, m
      <4>3. Len(g) = m - 1
        BY <4>1, <4>2
      <4> QED
        BY <4>1, <4>3
    <3> HIDE DEF g
    <3>3. DOMAIN g = 1..m - 1 /\ g = [i \in 1..m - 1 |-> g[i]]
          /\ \A i \in 1..m - 1 : g[i] \in Parse!Noises
      BY <3>2, LenProperties, ElementOfSeq
    <3> QED
      BY <3>3
  <2> HIDE DEF g, m, e
  <2>4. g \in Parse!Gaps
    BY <2>2, <2>3 DEF Parse!Gaps
  <2> QED
    BY <1>3, <1>5, <2>1, <2>4 DEF Parse!Unseen, Parse!NextGaps, Parse!NextTokens
<1> QED
  BY <1>4, <1>5

\* What a step of the parser does to the lexer and the token.
LEMMA StepReads ==
  ASSUME ParserStep
  PROVE  /\ TakeToken /\ Parse!Act /\ token_used' \in BOOLEAN
         /\ fetched' = <<>> /\ call # "idle" /\ ~Awaiting /\ loads' = loads
         /\ buf' = buf /\ buf_cur' = buf_cur /\ place' = place /\ group_stack' = group_stack
         /\ token' = token /\ reading' = reading /\ begun' = begun /\ stale' = stale
<1>1. Parse!Act
  BY DEF ParserStep
<1>2. token_used' \in BOOLEAN
  BY <1>1 DEF Parse!Act, Parse!LexicalError, Parse!SyntaxError, Parse!Shift, Parse!Reduce,
              Parse!GotoError, Parse!ActionError, Parse!Accept, Parse!Underflow, Parse!Fail
<1> QED
  BY <1>1, <1>2 DEF ParserStep, lexerVars

\* What the parser takes, with m the number of lexemes fetched for it: in a new text they
\* are added, in a text that is read again they are there.
Taken(m) ==
  /\ m = Len(fetched) /\ m \in Nat \ {0} /\ ~Noisy(fetched[m])
  /\ cursor' = cursor + m /\ lookahead' = [symbol |-> fetched[m], pos |-> cursor + m]
  /\ IF cursor = Len(text) THEN text' = text \o fetched /\ text' = Got
     ELSE /\ text' = text /\ cursor + m <= Len(text)
          /\ \A i \in 1..m : text[cursor + i] = fetched[i]

LEMMA StepTakes ==
  ASSUME Fetching, ParserStep, token_used, cursor # Len(text) => BothRead
  PROVE  ~Skipping /\ Taken(Len(fetched))
<1> DEFINE m    == Len(fetched)
           rest == SubSeq(text, cursor + m + 1, Len(text))
<1>1. ~Skipping
  BY StepReads DEF Awaiting
<1>2. m \in Nat \ {0} /\ ~Noisy(fetched[m])
  BY <1>1, FetchedForm
<1>3. /\ text' = Got \o rest /\ cursor' = cursor + m
      /\ lookahead' = [symbol |-> fetched[m], pos |-> cursor + m]
  BY StepReads DEF TakeToken, Got, Last
<1>4. /\ text \in Seq(Parse!Lexemes) /\ Len(text) \in Nat /\ cursor \in Nat /\ cursor <= Len(text)
      /\ Got \in Seq(Parse!Lexemes) /\ Len(Got) = cursor + m
      /\ \A i \in 1..Len(Got) : Got[i] = IF i <= cursor THEN text[i] ELSE fetched[i - cursor]
  BY GotFacts DEF Fetching
<1>5. CASE cursor = Len(text)
  <2>1. rest = <<>>
    BY <1>2, <1>4, <1>5, SubSeqEmpty
  <2>2. text' = Got
    BY <1>3, <1>4, <2>1, ConcatEmptySeq
  <2>3. SubSeq(text, 1, cursor) = text
    BY <1>4, <1>5, SubSeqFull
  <2>4. text' = text \o fetched
    BY <2>2, <2>3 DEF Got
  <2> QED
    BY <1>1, <1>2, <1>3, <1>5, <2>2, <2>4 DEF Taken
<1>6. CASE cursor # Len(text)
  <2>1. cursor + m <= Len(text) /\ \A i \in 1..m : text[cursor + i] = fetched[i]
    BY <1>1, <1>6, FetchedAgain
  <2>2. \A i \in cursor + m + 1 .. Len(text) : text[i] \in Parse!Lexemes
    BY <1>2, <1>4, ElementOfSeq
  <2>3. /\ rest \in Seq(Parse!Lexemes)
        /\ Len(rest) = Len(text) - (cursor + m)
        /\ \A i \in 1..Len(text) - (cursor + m) : rest[i] = text[cursor + m + i]
    <3> DEFINE k == cursor + m + 1
    <3>1. /\ rest \in Seq(Parse!Lexemes)
          /\ Len(rest) = IF k <= Len(text) THEN Len(text) - k + 1 ELSE 0
          /\ \A i \in 1..Len(text) - k + 1 : rest[i] = text[k + i - 1]
      BY <1>2, <1>4, <2>2, SubSeqProperties
    <3>2. /\ k \in Nat /\ Len(text) - k + 1 = Len(text) - (cursor + m)
          /\ k <= Len(text) \/ Len(text) - (cursor + m) = 0
          /\ \A i \in 1..Len(text) - (cursor + m) : k + i - 1 = cursor + m + i
      BY <1>2, <1>4, <2>1
    <3> HIDE DEF k, rest
    <3> QED
      BY <3>1, <3>2
  <2> HIDE DEF rest
  <2>4. /\ Got \o rest \in Seq(Parse!Lexemes)
        /\ Len(Got \o rest) = Len(Got) + Len(rest)
        /\ \A i \in 1..Len(Got) + Len(rest) :
             (Got \o rest)[i] = IF i <= Len(Got) THEN Got[i] ELSE rest[i - Len(Got)]
    <3>1. Got \in Seq(Parse!Lexemes) /\ rest \in Seq(Parse!Lexemes)
      BY <1>4, <2>3
    <3> QED
      BY <3>1, ConcatProperties
  <2>5. Len(Got \o rest) = Len(text)
    BY <1>2, <1>4, <2>1, <2>3, <2>4
  <2>6. \A i \in 1..Len(text) : text[i] = (Got \o rest)[i]
    <3> TAKE i \in 1..Len(text)
    <3>1. (Got \o rest)[i] = IF i <= cursor + m THEN Got[i] ELSE rest[i - (cursor + m)]
      BY <1>4, <2>4, <2>5
    <3>2. CASE i <= cursor
      BY <1>2, <1>4, <3>1, <3>2
    <3>3. CASE ~(i <= cursor) /\ i <= cursor + m
      <4>1. i - cursor \in 1..m /\ cursor + (i - cursor) = i
        BY <1>2, <1>4, <3>3
      <4>2. text[i] = fetched[i - cursor]
        BY <2>1, <4>1
      <4> QED
        BY <1>2, <1>4, <3>1, <3>3, <4>2
    <3>4. CASE ~(i <= cursor + m)
      <4>1. i - (cursor + m) \in 1..Len(text) - (cursor + m) /\ cursor + m + (i - (cursor + m)) = i
        BY <1>2, <1>4, <3>4
      <4> QED
        BY <2>3, <3>1, <3>4, <4>1
    <3> QED
      BY <3>2, <3>3, <3>4
  <2>7. text' = text
    BY <1>3, <1>4, <2>4, <2>5, <2>6, SeqEqual
  <2> QED
    BY <1>1, <1>2, <1>3, <1>6, <2>1, <2>7 DEF Taken
<1> QED
  BY <1>5, <1>6

\* The step takes the lexemes it reads from where they were fetched.
LEMMA ReadKeepsGot ==
  ASSUME Fetching, ParserStep, cursor # Len(text) => BothRead
  PROVE  /\ Got' = Got /\ text' \in Seq(Parse!Lexemes) /\ cursor' \in 0..Len(text')
         /\ text' # <<>> => ~Noisy(text'[Len(text')])
         /\ text' = text \/ text' = Got
         /\ cursor = Len(text) => cursor' = Len(text')
<1>1. /\ text \in Seq(Parse!Lexemes) /\ fetched \in Seq(Parse!Lexemes) /\ cursor \in 0..Len(text)
      /\ text # <<>> => ~Noisy(text[Len(text)])
      /\ ~token_used => fetched = <<>>
  BY DEF Fetching
<1>2. fetched' = <<>>
  BY StepReads
<1>3. CASE ~token_used
  <2>1. text' = text /\ cursor' = cursor
    BY <1>3, StepReads DEF TakeToken
  <2>2. Got' = Got
    BY <1>1, <1>2, <1>3, <2>1 DEF Got
  <2> QED
    BY <1>1, <2>1, <2>2
<1>4. CASE token_used
  <2> DEFINE m == Len(fetched)
             u == SubSeq(text', 1, cursor + m)
  <2>1. Taken(m)
    BY <1>4, StepTakes
  <2>2. /\ Len(text) \in Nat /\ cursor \in Nat /\ cursor <= Len(text)
        /\ Got \in Seq(Parse!Lexemes) /\ Len(Got) = cursor + m
        /\ \A i \in 1..Len(Got) : Got[i] = IF i <= cursor THEN text[i] ELSE fetched[i - cursor]
    BY GotFacts DEF Fetching
  <2>3. m \in Nat \ {0} /\ ~Noisy(fetched[m]) /\ cursor' = cursor + m
    BY <2>1 DEF Taken
  <2>4. /\ text' \in Seq(Parse!Lexemes) /\ Len(text') \in Nat /\ cursor + m <= Len(text')
        /\ cursor = Len(text) => Len(text') = cursor + m
        /\ \A i \in 1..cursor + m : text'[i] = Got[i]
    <3>1. CASE cursor = Len(text)
      BY <2>1, <2>2, <2>3, <3>1 DEF Taken
    <3>2. CASE cursor # Len(text)
      <4>1. text' = text /\ cursor + m <= Len(text) /\ \A i \in 1..m : text[cursor + i] = fetched[i]
        BY <2>1, <3>2 DEF Taken
      <4>2. ASSUME NEW i \in 1..cursor + m PROVE text[i] = Got[i]
        <5>1. CASE i <= cursor
          BY <2>2, <2>3, <5>1
        <5>2. CASE ~(i <= cursor)
          <6>1. i - cursor \in 1..m /\ cursor + (i - cursor) = i
            BY <2>2, <2>3, <5>2
          <6> QED
            BY <2>2, <4>1, <5>2, <6>1
        <5> QED
          BY <5>1, <5>2
      <4> QED
        BY <1>1, <2>2, <3>2, <4>1, <4>2
    <3> QED
      BY <3>1, <3>2
  <2>5. \A i \in 1..cursor + m : text'[i] \in Parse!Lexemes
    BY <2>2, <2>3, <2>4, ElementOfSeq
  <2>6. u \in Seq(Parse!Lexemes) /\ Len(u) = cursor + m /\ \A i \in 1..cursor + m : u[i] = text'[i]
    BY <2>2, <2>3, <2>5, SubSeqProperties
  <2>7. Got' = u \o <<>>
    BY <1>2, <2>3 DEF Got
  <2> HIDE DEF u, m
  <2>8. Got' = u
    BY <2>6, <2>7, ConcatEmptySeq
  <2>9. u = Got
    BY <2>2, <2>4, <2>6, SeqEqual
  <2>10. text' # <<>> => ~Noisy(text'[Len(text')])
    <3>1. CASE cursor = Len(text)
      <4>1. Len(text') = cursor + m /\ Len(text') \in 1..Len(Got) /\ ~(Len(text') <= cursor)
            /\ Len(text') - cursor = m
        BY <2>2, <2>3, <2>4, <3>1
      <4> QED
        BY <2>2, <2>3, <2>4, <4>1
    <3>2. CASE cursor # Len(text)
      BY <1>1, <2>1, <3>2 DEF Taken
    <3> QED
      BY <3>1, <3>2
  <2>11. text' = text \/ text' = Got
    BY <2>1 DEF Taken
  <2> QED
    BY <2>2, <2>3, <2>4, <2>8, <2>9, <2>10, <2>11
<1> QED
  BY <1>1, <1>3, <1>4 DEF Fetching

-----------------------------------------------------------------------------
(* The steps.                                                              *)

LEMMA TurnHands ==
  ASSUME TypeOK, ReadTurn
  PROVE  /\ ~reading' => token'.symbol \in Parse!Lexemes
         /\ IF buf_cur >= Len(buf) THEN ~reading' /\ IsEof(token'.symbol) /\ buf_cur' = buf_cur
            ELSE ~reading' => ~IsEof(token'.symbol)
         /\ buf' = buf /\ stale' = stale /\ loads' = loads
<1>1. buf \in Seq(0..255) /\ buf_cur \in Nat
  BY DEF TypeOK
<1>2. CASE buf_cur >= Len(buf)
  <2>1. EndLexeme(Peek)
    BY <1>1, <1>2, PeekFacts
  <2>2. token' = [symbol |-> Eof, from |-> 0, to |-> 0, place |-> place] /\ ~reading'
        /\ buf_cur' = buf_cur /\ buf' = buf /\ stale' = stale /\ loads' = loads
    BY <2>1, EndTurn
  <2>3. token'.symbol = Eof
    BY <2>2
  <2> QED
    BY <1>2, <2>2, <2>3, EofTyped DEF IsEof, Parse!Lexemes, Parse!Symbols
<1>3. CASE ~(buf_cur >= Len(buf))
  <2> DEFINE t == Peek
             x == t.lexeme.symbol
             c == Groups[Open.group].container
  <2>1. PieceLexeme(t)
    BY <1>1, <1>3, PeekFacts
  <2>2. /\ GroupStarts(t) \/ Plain(t) \/ GroupEnds(t) \/ Within(t)
        /\ buf' = buf /\ stale' = stale /\ loads' = loads
    BY <2>1, PieceTurn
  <2> HIDE DEF t
  <2>3. x \in Parse!Lexemes /\ ~IsEof(x)
    <3>1. x \in DOMAIN SymbolType /\ SymbolType[x] # "EndOfFile"
      BY <2>1, PieceTyped
    <3>2. x \in Accepted \cup {Error}
      BY <2>1 DEF PieceLexeme
    <3>3. SymbolType[x] # "NonTerminal"
      BY <3>2, EofTyped, LexemesTyped DEF Accepted
    <3> QED
      BY <3>1, <3>3 DEF Parse!Lexemes, Parse!Symbols, IsEof
  <2>4. ASSUME group_stack # <<>> PROVE c \in Parse!Lexemes /\ ~IsEof(c)
    BY <2>4, OpenTyped, GroupsTyped, LexemesTyped DEF Parse!Lexemes, Parse!Symbols, IsEof
  <2>5. ASSUME ~reading' PROVE token'.symbol = x \/ (group_stack # <<>> /\ token'.symbol = c)
    <3>1. CASE Plain(t)
      BY <3>1 DEF Plain
    <3>2. CASE GroupEnds(t)
      <4>1. /\ group_stack # <<>>
            /\ token' = IF Len(group_stack) > 1 THEN t.lexeme
                        ELSE [symbol |-> c, from |-> Open.from, to |-> buf_cur', place |-> place]
        BY <3>2 DEF GroupEnds
      <4> HIDE DEF c
      <4>2. CASE Len(group_stack) > 1
        BY <4>1, <4>2
      <4>3. CASE ~(Len(group_stack) > 1)
        BY <4>1, <4>3
      <4> QED
        BY <4>2, <4>3
    <3> QED
      BY <2>2, <2>5, <3>1, <3>2 DEF GroupStarts, Within
  <2> QED
    BY <1>3, <2>2, <2>3, <2>4, <2>5
<1> QED
  BY <1>2, <1>3

LEMMA TurnKeepsFetching ==
  ASSUME TypeOK, Fetching, LexerTurn
  PROVE  /\ Fetching' /\ Got' = IF reading' THEN Got ELSE Append(Got, token'.symbol)
         /\ text' = text
<1>1. /\ ReadTurn /\ fetched' = IF reading' THEN fetched ELSE Append(fetched, token'.symbol)
      /\ text' = text /\ cursor' = cursor /\ call' = call /\ token_used' = token_used
  BY DEF LexerTurn, parserVars
<1>2. /\ text \in Seq(Parse!Lexemes) /\ fetched \in Seq(Parse!Lexemes) /\ cursor \in 0..Len(text)
      /\ token_used \in BOOLEAN /\ call # "idle" /\ token_used /\ Skipping
      /\ text # <<>> => ~Noisy(text[Len(text)])
  BY <1>1 DEF Fetching, ReadTurn
<1>3. Len(fetched) \in Nat /\ \A i \in 1..Len(fetched) : Noisy(fetched[i])
  BY <1>2, LenProperties DEF Skipping, Noisy
<1>4. CASE reading'
  <2>1. fetched' = fetched
    BY <1>1, <1>4
  <2>2. Skipping'
    BY <1>2, <2>1 DEF Skipping
  <2>3. Fetching'
    BY <1>1, <1>2, <1>3, <2>1, <2>2 DEF Fetching
  <2>4. Got' = Got
    BY <1>1, <2>1 DEF Got
  <2> QED
    BY <1>1, <1>4, <2>3, <2>4
<1>5. CASE ~reading'
  <2> DEFINE x == token'.symbol
  <2>1. fetched' = Append(fetched, x) /\ x \in Parse!Lexemes
    BY <1>1, <1>5, TurnHands
  <2>2. /\ fetched' \in Seq(Parse!Lexemes) /\ Len(fetched') = Len(fetched) + 1
        /\ \A i \in 1..Len(fetched) : fetched'[i] = fetched[i]
    BY <1>2, <2>1, AppendProperties
  <2>3. Fetching'
    BY <1>1, <1>2, <1>3, <1>5, <2>2 DEF Fetching, Noisy
  <2>4. Got' = Append(Got, x)
    BY <1>1, <2>1, FetchOne
  <2> QED
    BY <1>1, <1>5, <2>3, <2>4
<1> QED
  BY <1>4, <1>5

LEMMA TurnKeepsEofs ==
  ASSUME TypeOK, Fetching, EofsLast, LexerTurn
  PROVE  EofsLast'
<1>1. ReadTurn /\ Got' = IF reading' THEN Got ELSE Append(Got, token'.symbol)
  BY TurnKeepsFetching DEF LexerTurn
<1>2. Got \in Seq(Parse!Lexemes) /\ Len(Got) \in Nat
  BY GotFacts
<1>3. /\ ~reading' => token'.symbol \in Parse!Lexemes
      /\ IF buf_cur >= Len(buf) THEN ~reading' /\ IsEof(token'.symbol) /\ buf_cur' = buf_cur
         ELSE ~reading' => ~IsEof(token'.symbol)
      /\ buf' = buf
  BY <1>1, TurnHands
<1>4. /\ \A i \in 1..Len(Got) - 1 : IsEof(Got[i]) => IsEof(Got[i + 1])
      /\ Len(Got) > 0 /\ IsEof(Got[Len(Got)]) => buf_cur >= Len(buf)
  BY DEF EofsLast
<1>5. EofsLast' <=> /\ \A i \in 1..Len(Got') - 1 : IsEof(Got'[i]) => IsEof(Got'[i + 1])
                    /\ Len(Got') > 0 /\ IsEof(Got'[Len(Got')]) => buf_cur' >= Len(buf')
  BY DEF EofsLast, IsEof
<1>6. CASE reading'
  BY <1>1, <1>3, <1>4, <1>5, <1>6
<1>7. CASE ~reading'
  <2> DEFINE x == token'.symbol
             n == Len(Got)
  <2>1. Got' = Append(Got, x) /\ x \in Parse!Lexemes
    BY <1>1, <1>3, <1>7
  <2>2. Len(Got') = n + 1 /\ Got'[n + 1] = x /\ \A i \in 1..n : Got'[i] = Got[i]
    BY <1>2, <2>1, AppendProperties
  <2>3. \A i \in 1..n + 1 - 1 : IsEof(Got'[i]) => IsEof(Got'[i + 1])
    <3> SUFFICES ASSUME NEW i \in 1..n, IsEof(Got[i])
                 PROVE  IsEof(Got'[i + 1])
      BY <1>2, <2>2
    <3>1. CASE i < n
      BY <1>2, <1>4, <2>2, <3>1
    <3>2. CASE i = n
      BY <1>2, <1>3, <1>4, <2>2, <3>2
    <3> QED
      BY <1>2, <3>1, <3>2
  <2>4. IsEof(x) => buf_cur' >= Len(buf')
    BY <1>3, <1>7
  <2> QED
    BY <1>5, <2>2, <2>3, <2>4
<1> QED
  BY <1>6, <1>7

LEMMA TurnKeepsRead ==
  ASSUME TypeOK, TypeOK', Fetching, BothRead, LexerTurn
  PROVE  BothRead'
<1>1. ReadTurn /\ Got' = (IF reading' THEN Got ELSE Append(Got, token'.symbol)) /\ text' = text
      /\ Fetching'
  BY TurnKeepsFetching DEF LexerTurn
<1>2. buf' = buf
  BY <1>1, TurnHands
<1>3. Now' = NextOf(buf, Now)
  <2>1. At(buf_cur', Opened', reading', IF reading' THEN Got ELSE Append(Got, token'.symbol))
          = NextOf(buf, At(buf_cur, Opened, reading, Got))
    BY <1>1, TurnFollows
  <2>2. Now' = At(buf_cur', Opened', reading', Got')
    BY DEF Now
  <2> QED
    BY <1>1, <2>1, <2>2 DEF Now
<1>4. Now' \in LexState
  <2>1. Got \in Seq(Parse!Lexemes)
    BY GotFacts
  <2>2. Got' \in Seq(Parse!Lexemes)
    BY <1>1, <2>1, TurnHands, AppendProperties
  <2>3. group_stack' \in Seq(Stacked) /\ buf_cur' \in Nat /\ reading' \in BOOLEAN
    BY DEF TypeOK, Stacked
  <2>4. Opened' \in Seq(DOMAIN Groups)
    BY <2>3, OpenedTyped DEF Opened
  <2> QED
    BY <2>2, <2>3, <2>4 DEF Now, At, LexState
<1>5. PICK h : Reading(buf, h) /\ h[Len(h)] = Now
  BY DEF BothRead
<1>6. \E k : Reading(buf, k) /\ k[Len(k)] = Now'
  BY <1>3, <1>4, <1>5, OneTurnMore
<1> QED
  BY <1>1, <1>2, <1>6 DEF BothRead

LEMMA NextKeepsLexer ==
  ASSUME LexedNext \/ UNCHANGED lexedVars
  PROVE  [Next]_vars
<1>1. CASE NextLexeme
  BY <1>1 DEF NextLexeme, Next
<1>2. CASE LexerTurn
  BY <1>2 DEF LexerTurn, Next
<1>3. CASE ParserStep
  BY <1>3, StepReads DEF vars
<1>4. CASE CallParser
  BY <1>4 DEF CallParser, Parse!Call, lexerVars, vars
<1>5. CASE LoadBoth
  BY <1>5 DEF LoadBoth, Next
<1>6. CASE ResetBoth
  BY <1>6 DEF ResetBoth, Next
<1>7. CASE UNCHANGED lexedVars
  BY <1>7 DEF lexedVars, lexerVars, vars
<1> QED
  BY <1>1, <1>2, <1>3, <1>4, <1>5, <1>6, <1>7 DEF LexedNext

Start == At(0, <<>>, FALSE, <<>>)

LEMMA StartRead ==
  ASSUME NEW b
  PROVE  Reading(b, <<Start>>) /\ <<Start>>[Len(<<Start>>)] = Start /\ Start.got = <<>>
<1>1. Start \in LexState /\ Start.got = <<>>
  BY DEF Start, At, LexState
<1>2. <<Start>> \in Seq(LexState) /\ Len(<<Start>>) = 1 /\ <<Start>>[1] = Start
  BY <1>1
<1> DEFINE h == <<Start>>
<1>3. h[1] = At(0, <<>>, FALSE, <<>>)
  BY <1>2 DEF Start
<1>4. h \in Seq(LexState) /\ Len(h) = 1 /\ h[Len(h)] = Start
  BY <1>2
<1> HIDE DEF h
<1>5. Reading(b, h)
  BY <1>3, <1>4 DEF Reading
<1>6. Reading(b, h) /\ h[Len(h)] = Start
  BY <1>4, <1>5
<1> QED
  BY <1>1, <1>6 DEF h

LEMMA NothingGot ==
  /\ cursor = 0 /\ fetched = <<>> => Got = <<>>
  /\ cursor' = 0 /\ fetched' = <<>> => Got' = <<>>
<1>1. SubSeq(text, 1, 0) = <<>> /\ SubSeq(text', 1, 0) = <<>> /\ <<>> \o <<>> = <<>>
  <2>1. <<>> \o <<>> = <<>>
    BY ConcatEmptySeq, EmptySeq
  <2> QED
    BY <2>1, SubSeqEmpty
<1> QED
  BY <1>1 DEF Got

LEMMA NothingOpened ==
  /\ group_stack = <<>> => Opened = <<>>
  /\ group_stack' = <<>> => Opened' = <<>>
<1>1. Len(<<>>) = 0 /\ 1..0 = {}
  BY EmptySeq
<1> QED
  BY <1>1 DEF Opened

\* What leaves the lexemes where they are.
LEMMA SameGotKeeps ==
  ASSUME TypeOK, Fetching, Got' = Got, buf' = buf, buf_cur' = buf_cur, group_stack' = group_stack,
         reading' = reading, text' = text \/ text' = Got
  PROVE  (EofsLast => EofsLast') /\ (BothRead => BothRead')
<1>1. ASSUME EofsLast PROVE EofsLast'
  BY <1>1 DEF EofsLast, IsEof
<1>2. ASSUME BothRead PROVE BothRead'
  <2>1. Now' = Now /\ Now.got = Got
    BY DEF Now, Opened, At
  <2>2. PICK h : Reading(buf, h) /\ h[Len(h)] = Now
    BY <1>2 DEF BothRead
  <2>3. PICK k : Reading(buf, k) /\ k[Len(k)].got = text
    BY <1>2 DEF BothRead
  <2>4. \E k_1 : Reading(buf, k_1) /\ k_1[Len(k_1)].got = text'
    BY <2>1, <2>2, <2>3
  <2> QED
    BY <2>1, <2>2, <2>4 DEF BothRead
<1> QED
  BY <1>1, <1>2

LEMMA NextLexemeKeeps ==
  ASSUME TypeOK, Fetching, NextLexeme
  PROVE  Fetching' /\ (EofsLast => EofsLast') /\ (BothRead => BothRead')
<1>1. /\ call # "idle" /\ token_used /\ Skipping /\ reading = FALSE /\ reading' = TRUE
      /\ buf' = buf /\ buf_cur' = buf_cur /\ group_stack' = group_stack
      /\ text' = text /\ cursor' = cursor /\ fetched' = fetched
      /\ call' = call /\ token_used' = token_used
  BY DEF NextLexeme, Awaiting, ReadToken, parserVars, TypeOK
<1>2. Fetching'
  BY <1>1 DEF Fetching, Skipping, Noisy
<1>3. Got' = Got
  BY <1>1 DEF Got
<1>4. ASSUME EofsLast PROVE EofsLast'
  BY <1>1, <1>3, <1>4 DEF EofsLast, IsEof
<1>5. ASSUME BothRead PROVE BothRead'
  <2>1. Now' = At(buf_cur, Opened, TRUE, Got)
    BY <1>1, <1>3 DEF Now, Opened
  <2>2. NextOf(buf, Now) = At(buf_cur, Opened, TRUE, Got)
    BY <1>1 DEF Now, At, NextOf
  <2>3. Now' \in LexState
    BY <2>1, GotFacts, OpenedFacts DEF At, LexState, TypeOK
  <2>4. PICK h : Reading(buf, h) /\ h[Len(h)] = Now
    BY <1>5 DEF BothRead
  <2>5. \E k : Reading(buf, k) /\ k[Len(k)] = Now'
    BY <2>1, <2>2, <2>3, <2>4, OneTurnMore
  <2> QED
    BY <1>1, <1>5, <2>5 DEF BothRead
<1> QED
  BY <1>2, <1>4, <1>5

LEMMA ParserStepKeeps ==
  ASSUME TypeOK, Fetching, ParserStep, cursor # Len(text) => BothRead
  PROVE  /\ Fetching' /\ (EofsLast => EofsLast') /\ (BothRead => BothRead')
         /\ cursor = Len(text) => cursor' = Len(text')
<1>1. /\ token_used' \in BOOLEAN /\ fetched' = <<>> /\ ~Awaiting
      /\ buf' = buf /\ buf_cur' = buf_cur /\ group_stack' = group_stack /\ reading' = reading
  BY StepReads
<1>2. /\ Got' = Got /\ text' \in Seq(Parse!Lexemes) /\ cursor' \in 0..Len(text')
      /\ text' # <<>> => ~Noisy(text'[Len(text')])
      /\ text' = text \/ text' = Got
      /\ cursor = Len(text) => cursor' = Len(text')
  BY ReadKeepsGot
<1>3. reading' = FALSE
  BY <1>1 DEF Fetching, Awaiting, TypeOK
<1>4. fetched' \in Seq(Parse!Lexemes) /\ Len(fetched') = 0
  BY <1>1, EmptySeq
<1>5. Fetching'
  BY <1>1, <1>2, <1>3, <1>4 DEF Fetching, Noisy
<1> QED
  BY <1>1, <1>2, <1>5, SameGotKeeps

LEMMA CallParserKeeps ==
  ASSUME TypeOK, Fetching, CallParser
  PROVE  Fetching' /\ (EofsLast => EofsLast') /\ (BothRead => BothRead')
<1>1. /\ call = "idle" /\ text' = text /\ cursor' = cursor /\ token_used' = token_used
      /\ fetched' = fetched
      /\ buf' = buf /\ buf_cur' = buf_cur /\ group_stack' = group_stack /\ reading' = reading
  BY DEF CallParser, Parse!Call, Parse!lexer, Parse!engine, lexerVars
<1>2. fetched = <<>> /\ reading = FALSE
  BY <1>1 DEF Fetching, TypeOK
<1>3. Fetching'
  BY <1>1, <1>2 DEF Fetching, Noisy
<1>4. Got' = Got
  BY <1>1 DEF Got
<1> QED
  BY <1>1, <1>3, <1>4, SameGotKeeps

LEMMA FromStartKeeps ==
  ASSUME TypeOK, Fetching, LoadBoth \/ ResetBoth
  PROVE  /\ Fetching' /\ EofsLast' /\ OnceIfStale'
         /\ ~stale' => ~stale
         /\ ~stale' => (BothRead => BothRead')
<1>1. /\ call = "idle" /\ cursor' = 0 /\ token_used' = TRUE /\ fetched' = fetched /\ call' = call
      /\ text' = <<>> \/ text' = text
  BY DEF LoadBoth, ResetBoth, Parse!Load, Parse!ResetCursor, Parse!ResetState
<1>2. /\ buf_cur' = 0 /\ reading = FALSE /\ reading' = FALSE
      /\ stale' = (stale \/ group_stack # <<>>)
  BY DEF LoadBoth, ResetBoth, Load, ResetCursor, FromStart, TypeOK
<1>3. /\ fetched = <<>> /\ text \in Seq(Parse!Lexemes)
      /\ text # <<>> => ~Noisy(text[Len(text)])
  BY <1>1 DEF Fetching
<1>4. Len(<<>>) = 0 /\ <<>> \in Seq(Parse!Lexemes)
  BY EmptySeq
<1>5. Fetching'
  <2>1. text' \in Seq(Parse!Lexemes) /\ (text' # <<>> => ~Noisy(text'[Len(text')]))
    BY <1>1, <1>3, <1>4
  <2>2. Len(text') \in Nat
    BY <2>1, LenProperties
  <2> QED
    BY <1>1, <1>2, <1>3, <1>4, <2>1, <2>2 DEF Fetching, Noisy
<1>6. Got' = <<>>
  BY <1>1, <1>3, NothingGot
<1>7. EofsLast' /\ OnceIfStale'
  <2>1. EofsLast'
    BY <1>4, <1>6 DEF EofsLast, IsEof
  <2>2. stale' => text' = <<>>
    BY DEF LoadBoth, ResetBoth, Parse!Load
  <2> QED
    BY <1>1, <1>4, <2>1, <2>2 DEF OnceIfStale
<1>8. ~stale' => ~stale /\ group_stack = <<>>
  BY <1>2
<1>9. ASSUME ~stale', BothRead PROVE BothRead'
  <2>1. group_stack' = <<>>
    <3>1. CASE ResetBoth
      BY <1>8, <1>9, <3>1 DEF ResetBoth, ResetCursor
    <3>2. CASE LoadBoth
      <4>1. group_stack' = [i \in DOMAIN group_stack |-> [group_stack[i] EXCEPT !.from = Elsewhere]]
        BY <3>2 DEF LoadBoth, Load
      <4>2. DOMAIN <<>> = {}
        BY EmptySeq
      <4> QED
        BY <1>8, <1>9, <4>1, <4>2
    <3> QED
      BY <3>1, <3>2
  <2>2. Now' = Start
    BY <1>2, <1>6, <2>1, NothingOpened DEF Now, Start
  <2>3. Reading(buf', <<Start>>) /\ <<Start>>[Len(<<Start>>)] = Start /\ Start.got = <<>>
    BY StartRead
  <2>4. \E h : Reading(buf', h) /\ h[Len(h)] = Now'
    BY <2>2, <2>3
  <2>5. \E k : Reading(buf', k) /\ k[Len(k)].got = text'
    <3>1. CASE LoadBoth
      BY <2>3, <3>1 DEF LoadBoth, Parse!Load
    <3>2. CASE ResetBoth
      <4>1. buf' = buf /\ text' = text
        BY <1>9, <3>2 DEF ResetBoth, ResetCursor, Parse!ResetCursor
      <4> QED
        BY <1>9, <4>1 DEF BothRead
    <3> QED
      BY <3>1, <3>2
  <2> QED
    BY <2>4, <2>5 DEF BothRead
<1> QED
  BY <1>5, <1>7, <1>8, <1>9

LEMMA InitLexedInv == LexedInit => LexedInv
<1> SUFFICES ASSUME LexedInit PROVE LexedInv
  OBVIOUS
<1>1. /\ Init /\ text = <<>> /\ cursor = 0 /\ token_used = TRUE /\ call = "idle" /\ fetched = <<>>
      /\ buf_cur = 0 /\ group_stack = <<>> /\ reading = FALSE
  BY DEF LexedInit, Init, Parse!Init
<1>2. Len(<<>>) = 0 /\ <<>> \in Seq(Parse!Lexemes)
  BY EmptySeq
<1>3. IInv
  BY <1>1, InitIInv
<1>4. Fetching
  BY <1>1, <1>2 DEF Fetching
<1>5. Got = <<>>
  BY <1>1, NothingGot
<1>6. EofsLast /\ OnceIfStale
  BY <1>1, <1>2, <1>5 DEF EofsLast, OnceIfStale
<1>7. BothRead
  <2>1. Now = Start
    BY <1>1, <1>5, NothingOpened DEF Now, Start
  <2> QED
    BY <1>1, <2>1, StartRead DEF BothRead
<1> QED
  BY <1>3, <1>4, <1>6, <1>7 DEF LexedInv

LEMMA NextLexedInv == LexedInv /\ [LexedNext]_lexedVars => LexedInv'
<1> SUFFICES ASSUME LexedInv, LexedNext \/ UNCHANGED lexedVars PROVE LexedInv'
  OBVIOUS
<1>1. /\ IInv /\ Fetching /\ EofsLast /\ OnceIfStale /\ (~stale => BothRead)
      /\ cursor # Len(text) => BothRead
  BY DEF LexedInv, OnceIfStale
<1>2. IInv'
  BY <1>1, NextKeepsLexer, NextIInv
<1>3. TypeOK /\ TypeOK'
  BY <1>1, <1>2 DEF IInv
<1>4. ASSUME Fetching', EofsLast', stale' = stale, BothRead => BothRead',
             cursor = Len(text) => cursor' = Len(text')
      PROVE  LexedInv'
  BY <1>1, <1>2, <1>4 DEF LexedInv, OnceIfStale
<1>5. CASE NextLexeme
  BY <1>1, <1>3, <1>4, <1>5, NextLexemeKeeps DEF NextLexeme, ReadToken, parserVars
<1>6. CASE LexerTurn
  <2>1. stale' = stale /\ text' = text /\ cursor' = cursor
    BY <1>3, <1>6, TurnHands DEF LexerTurn, parserVars
  <2> QED
    BY <1>1, <1>3, <1>4, <1>6, <2>1, TurnKeepsFetching, TurnKeepsEofs, TurnKeepsRead
<1>7. CASE ParserStep
  BY <1>1, <1>3, <1>4, <1>7, ParserStepKeeps, StepReads
<1>8. CASE CallParser
  BY <1>1, <1>3, <1>4, <1>8, CallParserKeeps DEF CallParser, lexerVars, Parse!Call, Parse!lexer
<1>9. CASE LoadBoth \/ ResetBoth
  BY <1>1, <1>2, <1>3, <1>9, FromStartKeeps DEF LexedInv, OnceIfStale
<1>10. CASE UNCHANGED lexedVars
  <2>1. /\ text' = text /\ cursor' = cursor /\ token_used' = token_used /\ call' = call
        /\ fetched' = fetched /\ buf' = buf /\ buf_cur' = buf_cur /\ stale' = stale
        /\ group_stack' = group_stack /\ reading' = reading
    BY <1>10 DEF lexedVars, parserVars, lexerVars
  <2>2. Fetching'
    BY <1>1, <2>1 DEF Fetching, Skipping, Noisy
  <2>3. Got' = Got
    BY <2>1 DEF Got
  <2> QED
    BY <1>1, <1>3, <1>4, <2>1, <2>2, <2>3, SameGotKeeps
<1> QED
  BY <1>5, <1>6, <1>7, <1>8, <1>9, <1>10 DEF LexedNext

\* The lexemes got and the text read before are beginnings of one reading of the buffer.
THEOREM LexedInvariant == LexedSpec => []LexedInv
<1>1. LexedInit => LexedInv
  BY InitLexedInv
<1>2. LexedInv /\ [LexedNext]_lexedVars => LexedInv'
  BY NextLexedInv
<1> QED
  BY <1>1, <1>2, PTL DEF LexedSpec

\* LexerAsAssumed: whatever the buffers and the groups, what Parser takes for granted of
\* its lexer holds of the lexer in it, unless there is more noise between two tokens
\* than the model of the parser counts.
THEOREM LexerIsAsAssumed == LexedSpec => [](Len(fetched) <= MaxGap + 1 => LexerAsAssumed)
<1>1. LexedInv => (Len(fetched) <= MaxGap + 1 => LexerAsAssumed)
  BY FetchedAgain, FetchedNew DEF LexedInv, OnceIfStale, LexerAsAssumed
<1>2. LexedSpec => []LexedInv
  BY LexedInvariant
<1> QED
  BY <1>1, <1>2, PTL

\* The token the step takes is one that Parser may read.
LEMMA TakenIsRead ==
  ASSUME LexedInv, WithinBounds, ParserStep
  PROVE  Parse!ReadToken
<1>1. Fetching /\ EofsLast /\ (cursor # Len(text) => BothRead)
  BY DEF LexedInv, OnceIfStale
<1>2. CASE ~token_used
  BY <1>2, StepReads DEF TakeToken, Parse!ReadToken
<1> DEFINE m == Len(fetched)
<1>3. ASSUME token_used
      PROVE  /\ ~Skipping /\ Taken(m) /\ fetched # <<>>
             /\ m <= MaxGap + 1
             /\ cursor + m <= MaxText \/ fetched[m] \in Parse!Eofs
             /\ text \in Seq(Parse!Lexemes) /\ fetched \in Seq(Parse!Lexemes)
             /\ cursor \in Nat /\ Len(text) \in Nat
  <2>1. ~Skipping /\ Taken(m)
    BY <1>1, <1>3, StepTakes
  <2>2. fetched # <<>>
    BY <2>1, EmptySeq DEF Taken
  <2> QED
    BY <1>1, <2>1, <2>2, GotFacts DEF WithinBounds, Last, Fetching
<1>4. CASE token_used /\ cursor = Len(text)
  <2>1. fetched \in Parse!Unseen
    BY <1>1, <1>3, <1>4, FetchedNew
  <2>2. text' = text \o fetched /\ cursor' = cursor + m /\ m \in Nat
        /\ lookahead' = [symbol |-> fetched[m], pos |-> cursor']
    BY <1>3, <1>4 DEF Taken
  <2>3. Len(text') = Len(text) + m
    BY <1>3, <2>2, ConcatProperties
  <2>4. Parse!ReadNew
    BY <1>3, <1>4, <2>1, <2>2, <2>3 DEF Parse!ReadNew
  <2> QED
    BY <1>4, <2>4 DEF Parse!ReadToken
<1>5. CASE token_used /\ cursor # Len(text)
  <2>1. /\ m \in Nat \ {0} /\ text' = text /\ cursor' = cursor + m
        /\ lookahead' = [symbol |-> fetched[m], pos |-> cursor + m]
        /\ cursor + m <= Len(text) /\ \A i \in 1..m : text[cursor + i] = fetched[i]
    BY <1>3, <1>5 DEF Taken
  <2>2. /\ \A i \in 1..m : fetched[i] \in Parse!Lexemes /\ (i # m => Noisy(fetched[i]))
        /\ ~Noisy(fetched[m])
    BY <1>1, <1>3, <1>5, FetchedForm
  <2>3. \A x \in Parse!Lexemes : x \in Parse!Noises <=> Noisy(x)
    BY DEF Parse!Noises, Parse!OfType, Parse!Lexemes, Parse!Symbols, Noisy
  <2> DEFINE k == cursor + m
  <2>4. k \in cursor + 1 .. Len(text) /\ text[k] = fetched[m] /\ m \in 1..m
    <3>1. k \in cursor + 1 .. Len(text) /\ m \in 1..m
      BY <1>3, <1>5, <2>1
    <3> QED
      BY <2>1, <3>1
  <2>5. text[k] \notin Parse!Noises
    BY <2>2, <2>3, <2>4
  <2>6. ASSUME NEW j \in cursor + 1 .. k - 1 PROVE text[j] \in Parse!Noises
    <3>1. j - cursor \in 1..m /\ j - cursor # m /\ cursor + (j - cursor) = j
      BY <1>3, <1>5, <2>1
    <3>2. text[j] = fetched[j - cursor]
      BY <2>1, <3>1
    <3> QED
      BY <2>2, <2>3, <3>1, <3>2
  <2>7. lookahead' = [symbol |-> text[k], pos |-> k] /\ cursor' = k
    BY <2>1, <2>4
  <2> HIDE DEF k
  <2>8. Parse!ReadAgain
    BY <2>1, <2>4, <2>5, <2>6, <2>7 DEF Parse!ReadAgain
  <2> QED
    BY <1>5, <2>8 DEF Parse!ReadToken
<1> QED
  BY <1>2, <1>4, <1>5

\* LexedImplementsParser: as long as the bounds of Parser are kept, the engine on the
\* bytes of a buffer does what Parser allows it, because the lexer hands over what
\* Parser takes for granted; the theorems on Parse!Spec say of it what they say there.
THEOREM LexedIsParser == LexedSpec /\ []WithinBounds => LexedImplementsParser
<1>1. LexedInit => Parse!Init
  BY DEF LexedInit
<1>2. LexedInv /\ WithinBounds /\ [LexedNext]_lexedVars => [Parse!Next]_(Parse!vars)
  <2> SUFFICES ASSUME LexedInv, WithinBounds, LexedNext \/ UNCHANGED lexedVars
               PROVE  Parse!Next \/ UNCHANGED Parse!vars
    OBVIOUS
  <2>1. CASE NextLexeme
    BY <2>1 DEF NextLexeme, ReadToken, parserVars, Parse!vars
  <2>2. CASE LexerTurn
    BY <2>2 DEF LexerTurn, ReadTurn, parserVars, Parse!vars
  <2>3. CASE UNCHANGED lexedVars
    BY <2>3 DEF lexedVars, parserVars, Parse!vars
  <2>4. CASE ParserStep
    <3>1. Parse!ReadToken /\ Parse!Act /\ call # "idle" /\ loads' = loads
      BY <2>4, TakenIsRead, StepReads
    <3> QED
      BY <3>1 DEF Parse!Next, Parse!ParseStep, Parse!Begin
  <2>5. CASE CallParser
    BY <2>5 DEF CallParser, Parse!Next
  <2>6. CASE LoadBoth \/ ResetBoth
    BY <2>6 DEF LoadBoth, ResetBoth, Parse!Next
  <2> QED
    BY <2>1, <2>2, <2>3, <2>4, <2>5, <2>6 DEF LexedNext
<1>3. LexedSpec => []LexedInv
  BY LexedInvariant
<1> QED
  BY <1>1, <1>2, <1>3, PTL DEF LexedSpec, LexedImplementsParser, Parse!Spec
=============================================================================
