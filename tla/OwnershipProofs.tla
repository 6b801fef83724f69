-------------------------- MODULE OwnershipProofs --------------------------
(***************************************************************************)
(* Proofs about memory.  First TreeNodeAllocator, for every block size,    *)
(* every width of size_t and every sequence of requests that fit a block.  *)
(* Then who frees what, for any number of texts, trees and results:        *)
(* each text and each block of nodes that is malloc'ed has one owner, and  *)
(* what a tree points into is there.                                       *)
(***************************************************************************)
EXTENDS Ownership, TLAPS

Node == [block : Nat, from : Nat, to : Nat]

\* the part of the newest block that is not handed out is what cur_left counts
LeftIsLeft == freed = {} => \/ blocks = 0 /\ cur = 0 /\ cur_left = 0
                            \/ blocks # 0 /\ cur + cur_left = BlockSize

\* and no node of that block reaches into it
LeftIsFree == \A i \in 1..Len(nodes) : freed = {} /\ nodes[i].block = blocks => nodes[i].to <= cur

Types == blocks \in Nat /\ cur \in Nat /\ cur_left \in Nat /\ nodes \in Seq(Node)

IInv == Types /\ LeftIsLeft /\ LeftIsFree /\ NodesInBlocks /\ NodesApart

\* size_t does not wrap around as long as the request fits
LEMMA SmallMod == ASSUME NEW x \in Nat, NEW m \in Nat, x < m PROVE x % m = x
  OBVIOUS

\* a part is no larger than the whole
LEMMA Within == ASSUME NEW a \in Nat, NEW b \in Nat, NEW c \in Nat, a + b = c
                PROVE  a <= c
  OBVIOUS

\* the bounds of a node that ends at d and has size s
LEMMA Offsets == ASSUME NEW c \in Nat, NEW d \in Nat, NEW s \in Nat, s <= d
                 PROVE  /\ d - s \in Nat
                        /\ (d - s = c => c <= d)
                        /\ 0 <= d - s
                        /\ (s # 0 => d - s < d)
  OBVIOUS

\* Where Alloc puts a node: behind cur in the newest block, or at the start of a
\* new one, with the rest of the block left.
LEMMA AllocFits ==
  ASSUME IInv, NEW size \in Sizes, Alloc(size)
  PROVE  /\ nodes' = Append(nodes, [block |-> blocks', from |-> cur' - size, to |-> cur'])
         /\ freed = {} /\ freed' = {}
         /\ cur' \in Nat /\ cur_left' \in Nat /\ blocks' \in Nat \ {0}
         /\ size <= cur' /\ cur' + cur_left' = BlockSize
         /\ \/ blocks' = blocks /\ cur' - size = cur
            \/ blocks' = blocks + 1 /\ cur' - size = 0
<1>1. size \in 1..BlockSize /\ BlockSize \in Nat \ {0} /\ SizeMod \in Nat /\ BlockSize < SizeMod
  BY SizesFit
<1>2. CASE size > cur_left
  <2>1. /\ blocks' = blocks + 1 /\ cur' = 0 + size
        /\ cur_left' = (BlockSize - size) % SizeMod
        /\ nodes' = Append(nodes, [block |-> blocks + 1, from |-> 0, to |-> 0 + size])
        /\ freed = {} /\ freed' = freed
    BY <1>2 DEF Alloc, Behind
  <2>2. (BlockSize - size) % SizeMod = BlockSize - size
    <3>1. BlockSize - size \in Nat /\ BlockSize - size < SizeMod
      BY <1>1
    <3> QED BY <1>1, <3>1, SmallMod
  <2> QED BY <1>1, <2>1, <2>2 DEF IInv, Types
<1>3. CASE ~(size > cur_left)
  <2>1. /\ blocks' = blocks /\ cur' = cur + size
        /\ cur_left' = (cur_left - size) % SizeMod
        /\ nodes' = Append(nodes, [block |-> blocks, from |-> cur, to |-> cur + size])
        /\ freed = {} /\ freed' = freed
    BY <1>3 DEF Alloc, Behind
  <2>2. blocks # 0 /\ cur + cur_left = BlockSize
    BY <1>1, <1>3, <2>1 DEF IInv, Types, LeftIsLeft
  <2>3. (cur_left - size) % SizeMod = cur_left - size
    <3>1. cur_left - size \in Nat /\ cur_left - size < SizeMod
      BY <1>1, <1>3, <2>2 DEF IInv, Types
    <3> QED BY <1>1, <3>1, SmallMod
  <2>4. size \in Nat /\ cur \in Nat /\ cur_left \in Nat /\ blocks \in Nat /\ size <= cur_left
    BY <1>1, <1>3 DEF IInv, Types
  <2>5. cur' - size = cur /\ size <= cur' /\ cur' \in Nat
    BY <2>1, <2>4
  <2>6. cur_left' = cur_left - size
    BY <2>1, <2>3
  <2>7. cur_left' \in Nat /\ cur' + cur_left' = BlockSize
    BY <1>1, <2>1, <2>2, <2>4, <2>6
  <2>8. nodes' = Append(nodes, [block |-> blocks', from |-> cur' - size, to |-> cur'])
    BY <2>1, <2>5
  <2> QED BY <2>1, <2>2, <2>4, <2>5, <2>7, <2>8
<1> QED BY <1>2, <1>3

\* Alloc keeps the invariant.
LEMMA AllocKeeps == ASSUME IInv, NEW size \in Sizes, Alloc(size) PROVE IInv'
<1> DEFINE node == [block |-> blocks', from |-> cur' - size, to |-> cur']
<1>1. /\ nodes' = Append(nodes, node)
      /\ freed = {} /\ freed' = {}
      /\ cur' \in Nat /\ cur_left' \in Nat /\ blocks' \in Nat \ {0}
      /\ size <= cur' /\ cur' + cur_left' = BlockSize
      /\ \/ blocks' = blocks /\ cur' - size = cur
         \/ blocks' = blocks + 1 /\ cur' - size = 0
  BY AllocFits
<1>2. size \in 1..BlockSize /\ BlockSize \in Nat
  BY SizesFit
<1>3. node \in Node /\ nodes \in Seq(Node)
  <2>1. cur' - size \in Nat /\ blocks' \in Nat /\ cur' \in Nat
    <3>1. size \in Nat /\ cur' \in Nat /\ size <= cur'
      BY <1>1, <1>2
    <3> QED BY <1>1, <3>1, Offsets
  <2> QED BY <2>1 DEF Node, IInv, Types
<1>4. /\ Len(nodes') = Len(nodes) + 1 /\ Len(nodes) \in Nat
      /\ nodes'[Len(nodes) + 1] = node
      /\ \A i \in 1..Len(nodes) : nodes'[i] = nodes[i] /\ nodes[i] \in Node
  BY <1>1, <1>3
<1>5. Types'
  BY <1>1, <1>3 DEF Types
<1>6. LeftIsLeft'
  BY <1>1 DEF LeftIsLeft
<1>7. \A i \in 1..Len(nodes) : NodeInBlock(nodes[i]) /\ nodes[i].block \in 1..blocks
  BY DEF IInv, NodesInBlocks, NodeInBlock
<1>8. node.block = blocks' /\ node.from = cur' - size /\ node.to = cur'
  OBVIOUS
<1>9. NodesInBlocks'
  <2> SUFFICES ASSUME NEW i \in 1..Len(nodes)'
               PROVE  /\ nodes'[i].block \in 1..blocks' /\ 0 <= nodes'[i].from
                      /\ nodes'[i].from < nodes'[i].to /\ nodes'[i].to <= BlockSize
    BY DEF NodesInBlocks, NodeInBlock
  <2>1. CASE i = Len(nodes) + 1
    <3>1. size \in Nat /\ size # 0 /\ cur' \in Nat /\ size <= cur'
      BY <1>1, <1>2
    <3>2. 0 <= cur' - size /\ cur' - size < cur'
      BY <3>1, Offsets
    <3>3. cur' <= BlockSize /\ blocks' \in 1..blocks'
      <4>1. cur' <= BlockSize
        BY <1>1, <1>2, Within
      <4>2. blocks' \in Nat \ {0}
        BY <1>1
      <4>3. blocks' \in 1..blocks'
        BY <4>2
      <4> QED BY <4>1, <4>3
    <3>4. nodes'[i] = node
      BY <1>4, <2>1
    <3> QED BY <1>8, <3>2, <3>3, <3>4
  <2>2. CASE i \in 1..Len(nodes)
    <3>1. nodes'[i] = nodes[i] /\ NodeInBlock(nodes[i])
      BY <1>4, <1>7, <2>2
    <3>2. blocks \in Nat /\ (blocks' = blocks \/ blocks' = blocks + 1)
      BY <1>1 DEF IInv, Types
    <3>3. nodes[i].block \in 1..blocks'
      BY <3>1, <3>2 DEF NodeInBlock
    <3>4. nodes[i].block \in 1..blocks' /\ 0 <= nodes[i].from
          /\ nodes[i].from < nodes[i].to /\ nodes[i].to <= BlockSize
      BY <3>1, <3>3 DEF NodeInBlock
    <3> QED BY <3>1, <3>4
  <2> QED BY <1>4, <2>1, <2>2
<1>10. LeftIsFree'
  <2> SUFFICES ASSUME NEW i \in 1..Len(nodes)', nodes'[i].block = blocks'
               PROVE  nodes'[i].to <= cur'
    BY DEF LeftIsFree
  <2>1. CASE i = Len(nodes) + 1
    BY <1>1, <1>4, <1>8, <2>1
  <2>2. CASE i \in 1..Len(nodes)
    <3>1. nodes[i].block = blocks' /\ nodes[i].block \in 1..blocks /\ nodes[i] \in Node
      BY <1>4, <1>7, <2>2
    <3>2. blocks' = blocks /\ cur' - size = cur
      BY <1>1, <3>1 DEF IInv, Types
    <3>3. nodes[i].to <= cur
      BY <1>1, <2>2, <3>1, <3>2 DEF IInv, LeftIsFree
    <3>4. cur \in Nat /\ size \in Nat /\ cur' \in Nat /\ nodes[i].to \in Nat
      BY <1>1, <1>2, <3>1 DEF Node, IInv, Types
    <3>5. cur <= cur'
      BY <1>1, <3>2, <3>4, Offsets
    <3>6. nodes[i].to <= cur'
      BY <3>3, <3>4, <3>5
    <3> QED BY <1>4, <2>2, <3>6
  <2> QED BY <1>4, <2>1, <2>2
<1>11. \A i \in 1..Len(nodes) : Apart(nodes[i], node) /\ Apart(node, nodes[i])
  <2> TAKE i \in 1..Len(nodes)
  <2>1. nodes[i].block \in 1..blocks /\ nodes[i] \in Node
    BY <1>4, <1>7
  <2>2. CASE blocks' = blocks + 1
    BY <1>8, <2>1, <2>2 DEF Apart, Node, IInv, Types
  <2>3. CASE blocks' = blocks /\ cur' - size = cur
    <3>1. nodes[i].block = blocks => nodes[i].to <= cur
      BY <1>1 DEF IInv, LeftIsFree
    <3> QED BY <1>8, <2>1, <2>3, <3>1 DEF Apart, Node
  <2> QED BY <1>1, <2>2, <2>3
<1>12. NodesApart'
  <2> SUFFICES ASSUME NEW i \in 1..Len(nodes)', NEW j \in 1..Len(nodes)', i # j
               PROVE  Apart(nodes'[i], nodes'[j])
    BY DEF NodesApart, Apart
  <2>1. CASE i \in 1..Len(nodes) /\ j \in 1..Len(nodes)
    BY <1>4, <2>1 DEF IInv, NodesApart
  <2>2. CASE i \in 1..Len(nodes) /\ j = Len(nodes) + 1
    BY <1>4, <1>11, <2>2
  <2>3. CASE i = Len(nodes) + 1 /\ j \in 1..Len(nodes)
    BY <1>4, <1>11, <2>3
  <2> QED BY <1>4, <2>1, <2>2, <2>3
<1> QED BY <1>5, <1>6, <1>9, <1>10, <1>12 DEF IInv

\* Clear keeps the invariant.
LEMMA ClearKeeps == ASSUME IInv, Clear PROVE IInv'
<1>1. /\ blocks' = blocks /\ nodes' = nodes /\ cur' = 0 /\ cur_left' = 0
      /\ freed = {} /\ freed' = 1..blocks
  BY DEF Clear
<1>2. LeftIsLeft'
  <2>1. CASE blocks = 0
    BY <1>1, <2>1 DEF LeftIsLeft
  <2>2. CASE blocks # 0
    <3>1. 1 \in 1..blocks
      BY <2>2 DEF IInv, Types
    <3> QED BY <1>1, <3>1 DEF LeftIsLeft
  <2> QED BY <2>1, <2>2
<1>3. LeftIsFree'
  <2> SUFFICES ASSUME NEW i \in 1..Len(nodes), 1..blocks = {} PROVE FALSE
    BY <1>1 DEF LeftIsFree
  <2>1. nodes[i].block \in 1..blocks
    BY DEF IInv, NodesInBlocks, NodeInBlock
  <2> QED BY <2>1
<1> QED BY <1>1, <1>2, <1>3 DEF IInv, Types, NodesInBlocks, NodeInBlock, NodesApart, Apart

\* An allocator begins with the invariant.
LEMMA InitInv == Init => IInv
  BY DEF Init, IInv, Types, LeftIsLeft, LeftIsFree, NodesInBlocks, NodesApart

\* The nodes stay in blocks that were allocated, and apart: what the allocator owes
\* to the builders, which write the children of a node without asking.
THEOREM NodesSafe == Spec => []NodesSound
<1>1. IInv /\ [Next]_vars => IInv'
  <2> SUFFICES ASSUME IInv, [Next]_vars PROVE IInv'
    OBVIOUS
  <2>1. CASE \E size \in Sizes : Alloc(size)
    BY <2>1, AllocKeeps
  <2>2. CASE Clear
    BY <2>2, ClearKeeps
  <2>3. CASE UNCHANGED vars
    BY <2>3 DEF vars, IInv, Types, LeftIsLeft, LeftIsFree, NodesInBlocks, NodeInBlock,
                NodesApart, Apart
  <2> QED BY <2>1, <2>2, <2>3 DEF Next
<1>2. IInv => NodesSound
  BY DEF IInv, NodesSound
<1> QED BY InitInv, <1>1, <1>2, PTL DEF Spec
-----------------------------------------------------------------------------
(* Owners.                                                                 *)

Buffer == [buf : Nat \cup Strings, sharable : BOOLEAN]
Result == [text : Nat \cup Strings, blocks : SUBSET (Nat \X Nat),
           lexer_buffer : Buffer, node_allocator : SUBSET (Nat \X Nat)]

Building == {"parsing", "accepted", "released"}

\* the blocks the builder will free
Pool == IF freed = {} THEN Blocks ELSE {}

Shapes == /\ loads \in Nat /\ builders \in Nat
          /\ texts \subseteq 1..loads
          /\ lexer \in [buf : Nat \cup Strings, allocator : Buffer]
          /\ ret \in Result /\ results \subseteq Result

Valid(b) == \/ b = NoBuffer
            \/ b.sharable /\ b.buf \in Strings
            \/ ~b.sharable /\ b.buf \in texts

LexerSound == /\ Valid(lexer.allocator)
              /\ lexer.allocator = NoBuffer \/ lexer.allocator.buf = lexer.buf
              /\ step \in {"loaded", "parsing", "accepted"} => lexer.allocator # NoBuffer
              /\ step \in {"none", "unloaded", "destroyed"} => lexer.allocator = NoBuffer

RetSound ==
  /\ step \notin {"accepted", "released"} => ret = NoResult
  /\ step \in {"accepted", "released"} => ret.blocks \subseteq Blocks /\ ret.node_allocator = {}
  /\ step = "accepted" => ret.text = lexer.buf /\ ret.lexer_buffer = NoBuffer
  /\ step = "released" => /\ Valid(ret.lexer_buffer) /\ ret.lexer_buffer # NoBuffer
                          /\ ret.lexer_buffer.buf = ret.text
                          /\ lexer.allocator = NoBuffer

ResultSound(r) == /\ Valid(r.lexer_buffer) /\ r.lexer_buffer # NoBuffer
                  /\ r.lexer_buffer.buf = r.text
                  /\ r.blocks \subseteq r.node_allocator
                  /\ r.node_allocator \subseteq arenas

PoolSound == /\ Pool \subseteq arenas
             /\ step \in Building => freed = {}
             /\ step \notin Building \cup {"done"} => Pool = {}

\* no result has a block of the builder at work, or of one still to come
Newest == \A r \in results, b \in Nat, k \in Nat :
            <<b, k>> \in r.node_allocator =>
               b <= builders /\ (step \in Building => b # builders)

TextsOwned == \A t \in texts : \/ t \in Owned(lexer.allocator) \/ t \in Owned(ret.lexer_buffer)
                               \/ \E r \in results : t \in Owned(r.lexer_buffer)
ArenasOwned == \A b \in arenas : b \in Pool \/ \E r \in results : b \in r.node_allocator

OwnersApart(g, h) == /\ Owned(g.lexer_buffer) \cap Owned(h.lexer_buffer) = {}
                     /\ g.node_allocator \cap h.node_allocator = {}

Separate == /\ \A g, h \in results : g # h => OwnersApart(g, h)
            /\ \A r \in results : /\ Owned(r.lexer_buffer) \cap Owned(lexer.allocator) = {}
                                  /\ Owned(r.lexer_buffer) \cap Owned(ret.lexer_buffer) = {}
                                  /\ r.node_allocator \cap Pool = {}

OwnInv == /\ Shapes /\ LexerSound /\ RetSound /\ PoolSound /\ Newest
          /\ \A r \in results : ResultSound(r)
          /\ TextsOwned /\ ArenasOwned /\ Separate /\ ~twice

\* what a valid buffer frees is there
LEMMA OwnedThere == ASSUME NEW b \in Buffer, Valid(b) PROVE Owned(b) \subseteq texts
  BY DEF Valid, Owned, NoBuffer, Null, Buffer

\* a buffer stays valid as long as what it owns is not freed
LEMMA StaysValid ==
  ASSUME Shapes, NEW b \in Buffer, Valid(b), \A t \in Owned(b) : t \in texts'
  PROVE  Valid(b)'
  BY DEF Valid, Owned, NoBuffer, Null, Buffer, Shapes

\* a buffer that is neither NULL nor the client's owns its text
LEMMA NullIsEmpty == ASSUME Shapes, NEW b \in Buffer, Valid(b), b.buf = Null PROVE b = NoBuffer
  BY ClientsTexts DEF Valid, Null, Shapes, NoBuffer

LEMMA UnloadFrees ==
  ASSUME OwnInv, Unload
  PROVE  /\ texts' = texts \ Owned(lexer.allocator) /\ ~twice'
         /\ lexer' \in [buf : Nat \cup Strings, allocator : Buffer]
         /\ lexer'.allocator = NoBuffer
<1>1. lexer.allocator \in Buffer /\ Owned(lexer.allocator) \subseteq texts
  BY OwnedThere DEF OwnInv, Shapes, LexerSound
<1>2. NoBuffer \in Buffer /\ Owned(NoBuffer) = {}
  BY DEF NoBuffer, Null, Buffer, Owned
<1>3. CASE lexer.buf = Null
  <2>1. lexer.allocator = NoBuffer
    BY <1>1, <1>3, NullIsEmpty DEF OwnInv, LexerSound
  <2> QED BY <1>2, <1>3, <2>1 DEF Unload, OwnInv, Shapes
<1>4. CASE lexer.buf # Null
  <2>1. lexer' = NoLexer /\ texts' = texts \ Owned(lexer.allocator)
    BY <1>4 DEF Unload, Free
  <2>2. twice' = (twice \/ ~(Owned(lexer.allocator) \subseteq texts))
    BY <1>4 DEF Unload, Free
  <2>3. ~twice'
    BY <1>1, <2>2 DEF OwnInv
  <2> QED BY <1>2, <2>1, <2>3 DEF NoLexer, Null
<1> QED BY <1>3, <1>4

\* The lexer lets go of its buffer while no builder is at work.
LEMMA LexerEmptied ==
  ASSUME OwnInv, step \notin Building \cup {"done"},
         step' \in {"none", "unloaded", "destroyed"},
         texts' = texts \ Owned(lexer.allocator), ~twice',
         lexer' \in [buf : Nat \cup Strings, allocator : Buffer],
         lexer'.allocator = NoBuffer,
         UNCHANGED <<allocator, counters, arenas, ret, results>>
  PROVE  OwnInv'
<1>1. /\ loads' = loads /\ builders' = builders /\ arenas' = arenas /\ ret' = ret
      /\ results' = results /\ blocks' = blocks /\ freed' = freed
  BY DEF allocator, counters
<1>2. Pool' = Pool /\ Blocks' = Blocks /\ Owned(NoBuffer) = {}
  BY <1>1 DEF Pool, Blocks, Owned, NoBuffer
<1>3. Shapes'
  BY <1>1 DEF OwnInv, Shapes
<1>4. LexerSound'
  BY DEF LexerSound, Valid
<1>5. RetSound' /\ PoolSound' /\ Newest'
  BY <1>1, <1>2 DEF OwnInv, RetSound, PoolSound, Newest, Building
<1>6. \A r \in results' : ResultSound(r)'
  <2> TAKE r \in results'
  <2>1. r \in results /\ r.lexer_buffer \in Buffer /\ ResultSound(r)
    BY <1>1 DEF OwnInv, Shapes, Result
  <2>2. Valid(r.lexer_buffer)'
    <3>1. Owned(r.lexer_buffer) \subseteq texts
      BY <2>1, OwnedThere DEF ResultSound
    <3>2. \A t \in Owned(r.lexer_buffer) : t \in texts'
      BY <2>1, <3>1 DEF OwnInv, Separate
    <3> QED BY <2>1, <3>2, StaysValid DEF OwnInv, ResultSound
  <2> QED BY <1>1, <2>1, <2>2 DEF ResultSound
<1>7. TextsOwned' /\ ArenasOwned' /\ Separate'
  BY <1>1, <1>2 DEF OwnInv, TextsOwned, ArenasOwned, Separate, OwnersApart, Owned
<1> QED BY <1>3, <1>4, <1>5, <1>6, <1>7 DEF OwnInv

\* The lexer, which has no buffer, gets one.
LEMMA LexerFilled ==
  ASSUME OwnInv, step = "unloaded", step' = "loaded", loads' = loads + 1, ~twice',
         NEW b \in Buffer, lexer' = [buf |-> b.buf, allocator |-> b], b # NoBuffer,
         \/ b.sharable /\ b.buf \in Strings /\ texts' = texts
         \/ ~b.sharable /\ b.buf = loads + 1 /\ texts' = texts \cup {loads + 1},
         UNCHANGED <<allocator, builders, arenas, ret, results>>
  PROVE  OwnInv'
<1>1. /\ builders' = builders /\ arenas' = arenas /\ ret' = ret
      /\ results' = results /\ blocks' = blocks /\ freed' = freed
  BY DEF allocator
<1>2. /\ Pool' = Pool /\ Blocks' = Blocks /\ Owned(NoBuffer) = {}
      /\ lexer.allocator = NoBuffer /\ lexer'.allocator = b /\ lexer'.buf = b.buf
  BY <1>1 DEF Pool, Blocks, Owned, NoBuffer, OwnInv, LexerSound
<1>3. Shapes'
  <2>1. loads \in Nat /\ loads' \in Nat /\ texts \subseteq 1..loads
    BY DEF OwnInv, Shapes
  <2>2. ASSUME NEW t \in texts' PROVE t \in 1..loads'
    <3>1. t \in texts \/ t = loads + 1
      OBVIOUS
    <3>2. CASE t \in texts
      <4>1. t \in 1..loads
        BY <2>1, <3>2
      <4> QED BY <2>1, <4>1
    <3>3. CASE t = loads + 1
      BY <2>1, <3>3
    <3> QED BY <3>1, <3>2, <3>3
  <2>3. lexer' \in [buf : Nat \cup Strings, allocator : Buffer]
    BY DEF Buffer
  <2> QED BY <1>1, <2>1, <2>2, <2>3 DEF OwnInv, Shapes
<1>4. LexerSound'
  BY <1>2 DEF LexerSound, Valid
<1>5. RetSound' /\ PoolSound' /\ Newest'
  BY <1>1, <1>2 DEF OwnInv, RetSound, PoolSound, Newest, Building
<1>6. \A r \in results : Owned(r.lexer_buffer) \subseteq texts /\ r \in Result /\ ResultSound(r)
  BY OwnedThere DEF OwnInv, Shapes, Result, ResultSound
<1>7. \A r \in results' : ResultSound(r)'
  <2> TAKE r \in results'
  <2>1. r \in results /\ r.lexer_buffer \in Buffer /\ ResultSound(r)
    BY <1>1, <1>6 DEF Result
  <2>2. Valid(r.lexer_buffer)'
    BY <1>6, <2>1, StaysValid DEF OwnInv, ResultSound
  <2> QED BY <1>1, <2>1, <2>2 DEF ResultSound
<1>8. Owned(b) \cap texts = {} /\ Owned(b) \subseteq texts' /\ texts' \subseteq texts \cup Owned(b)
  BY DEF Owned, OwnInv, Shapes, Null
<1>9. TextsOwned' /\ ArenasOwned'
  <2>1. TextsOwned'
    BY <1>1, <1>2, <1>8 DEF OwnInv, TextsOwned, Owned
  <2> QED BY <1>1, <1>2, <2>1 DEF OwnInv, ArenasOwned
<1>10. Separate'
  BY <1>1, <1>2, <1>6, <1>8 DEF OwnInv, Separate, OwnersApart, Owned
<1> QED BY <1>3, <1>4, <1>5, <1>7, <1>9, <1>10 DEF OwnInv

\* Only the call goes on.
LEMMA StepOnly ==
  ASSUME OwnInv,
         \/ step' = step
         \/ step = "idle" /\ step' = "loaded" /\ lexer.allocator.buf # Null
         \/ step = "parsing" /\ step' = "done",
         UNCHANGED <<allocator, counters, heap, lexer, ret, results>>
  PROVE  OwnInv'
<1>1. /\ loads' = loads /\ builders' = builders /\ texts' = texts /\ arenas' = arenas
      /\ twice' = twice /\ lexer' = lexer /\ ret' = ret /\ results' = results
      /\ blocks' = blocks /\ freed' = freed
  BY DEF allocator, counters, heap
<1>2. Pool' = Pool /\ Blocks' = Blocks
  BY <1>1 DEF Pool, Blocks
<1>3. Shapes' /\ LexerSound' /\ ~twice'
  BY <1>1 DEF OwnInv, Shapes, LexerSound, Valid, NoBuffer
<1>4. RetSound' /\ PoolSound' /\ Newest'
  BY <1>1, <1>2 DEF OwnInv, RetSound, PoolSound, Newest, Building, Valid
<1>5. \A r \in results' : ResultSound(r)'
  BY <1>1 DEF OwnInv, ResultSound, Valid
<1>6. TextsOwned' /\ ArenasOwned' /\ Separate'
  BY <1>1, <1>2 DEF OwnInv, TextsOwned, ArenasOwned, Separate, OwnersApart, Owned
<1> QED BY <1>3, <1>4, <1>5, <1>6 DEF OwnInv

\* A new builder has no blocks yet.
LEMMA NewBuilderKeeps == ASSUME OwnInv, NewBuilder PROVE OwnInv'
<1>1. /\ step = "loaded" /\ step' = "parsing" /\ builders' = builders + 1 /\ builders \in Nat
      /\ loads' = loads /\ texts' = texts /\ arenas' = arenas /\ twice' = twice
      /\ lexer' = lexer /\ ret' = ret /\ results' = results
      /\ blocks' = 0 /\ freed' = {}
  BY DEF NewBuilder, Go, heap, NewAllocator, OwnInv, Shapes
<1>2. Blocks' = {} /\ Pool' = {} /\ Pool = {}
  BY <1>1 DEF Pool, Blocks, OwnInv, PoolSound, Building
<1>3. Shapes' /\ LexerSound' /\ ~twice'
  BY <1>1 DEF OwnInv, Shapes, LexerSound, Valid
<1>4. RetSound' /\ PoolSound'
  BY <1>1, <1>2 DEF OwnInv, RetSound, PoolSound, Building
<1>5. Newest'
  BY <1>1 DEF OwnInv, Newest
<1>6. \A r \in results' : ResultSound(r)'
  BY <1>1 DEF OwnInv, ResultSound, Valid
<1>7. TextsOwned' /\ ArenasOwned' /\ Separate'
  BY <1>1, <1>2 DEF OwnInv, TextsOwned, ArenasOwned, Separate, OwnersApart, Owned
<1> QED BY <1>3, <1>4, <1>5, <1>6, <1>7 DEF OwnInv

\* A node of the builder at work; a block it needs is nobody else's.
LEMMA CreateNodeKeeps == ASSUME IInv, OwnInv, CreateNode PROVE OwnInv'
<1>1. PICK size \in Sizes : Alloc(size)
  BY DEF CreateNode
<1>2. /\ step = "parsing" /\ step' = step /\ loads' = loads /\ builders' = builders
      /\ texts' = texts /\ twice' = twice /\ lexer' = lexer /\ ret' = ret /\ results' = results
      /\ freed = {} /\ freed' = {} /\ blocks \in Nat /\ builders \in Nat
      /\ blocks' = blocks \/ blocks' = blocks + 1
  BY <1>1, AllocFits DEF CreateNode, counters, IInv, Types, OwnInv, Shapes
<1>3. /\ Pool = Blocks /\ Pool' = Blocks' /\ arenas' = arenas \cup Blocks'
      /\ Blocks \subseteq Blocks' /\ Blocks \subseteq arenas
  BY <1>2 DEF Pool, Blocks, CreateNode, OwnInv, PoolSound
<1>4. Shapes' /\ LexerSound' /\ ~twice'
  BY <1>2 DEF OwnInv, Shapes, LexerSound, Valid
<1>5. RetSound' /\ PoolSound' /\ Newest'
  BY <1>2, <1>3 DEF OwnInv, RetSound, PoolSound, Building, Newest
<1>6. \A r \in results' : ResultSound(r)'
  BY <1>2, <1>3 DEF OwnInv, ResultSound, Valid
<1>7. TextsOwned' /\ ArenasOwned'
  BY <1>2, <1>3 DEF OwnInv, TextsOwned, ArenasOwned, Owned
<1>8. \A r \in results : r.node_allocator \cap Blocks' = {}
  BY <1>2 DEF OwnInv, Newest, Blocks, Building
<1>9. Separate'
  BY <1>2, <1>3, <1>8 DEF OwnInv, Separate, OwnersApart, Owned
<1> QED BY <1>4, <1>5, <1>6, <1>7, <1>9 DEF OwnInv

\* The text was accepted: the result points to it and to nodes of the builder.
LEMMA AcceptedKeeps == ASSUME IInv, OwnInv, Accepted PROVE OwnInv'
<1>1. /\ step = "parsing" /\ step' = "accepted" /\ loads' = loads /\ builders' = builders
      /\ texts' = texts /\ arenas' = arenas /\ twice' = twice /\ lexer' = lexer
      /\ results' = results /\ blocks' = blocks /\ freed' = freed
      /\ ret' = [NoResult EXCEPT !.text = lexer.buf,
                   !.blocks = {<<builders, nodes[i].block>> : i \in 1..Len(nodes)}]
  BY DEF Accepted, Go, allocator, counters, heap
<1>2. Pool' = Pool /\ Blocks' = Blocks
  BY <1>1 DEF Pool, Blocks
<1>3. /\ ret'.text = lexer.buf /\ ret'.lexer_buffer = NoBuffer /\ ret'.node_allocator = {}
      /\ ret'.blocks = {<<builders, nodes[i].block>> : i \in 1..Len(nodes)}
  BY <1>1 DEF NoResult
<1>4. ret'.blocks \subseteq Blocks
  BY <1>3 DEF IInv, NodesInBlocks, NodeInBlock, Blocks
<1>5. Blocks \subseteq Nat \X Nat
  BY DEF Blocks, OwnInv, Shapes, IInv, Types
<1>6. Shapes' /\ LexerSound' /\ ~twice'
  <2>1. ret' \in Result
    BY <1>1, <1>3, <1>4, <1>5 DEF Result, NoResult, NoBuffer, Null, Buffer, OwnInv, Shapes
  <2> QED BY <1>1, <2>1 DEF OwnInv, Shapes, LexerSound, Valid
<1>7. RetSound'
  BY <1>1, <1>2, <1>3, <1>4 DEF RetSound
<1>8. PoolSound' /\ Newest'
  BY <1>1, <1>2 DEF OwnInv, PoolSound, Building, Newest
<1>9. \A r \in results' : ResultSound(r)'
  BY <1>1 DEF OwnInv, ResultSound, Valid
<1>10. ret = NoResult /\ Owned(NoBuffer) = {} /\ NoResult.lexer_buffer = NoBuffer
  BY <1>1 DEF OwnInv, RetSound, Owned, NoBuffer, NoResult
<1>11. TextsOwned' /\ ArenasOwned' /\ Separate'
  BY <1>1, <1>2, <1>3, <1>10 DEF OwnInv, TextsOwned, ArenasOwned, Separate, OwnersApart, Owned
<1> QED BY <1>6, <1>7, <1>8, <1>9, <1>11 DEF OwnInv

\* The buffer goes from the lexer to the result.
LEMMA ReleaseBufferKeeps == ASSUME OwnInv, ReleaseBuffer PROVE OwnInv'
<1>1. /\ step = "accepted" /\ step' = "released" /\ loads' = loads /\ builders' = builders
      /\ texts' = texts /\ arenas' = arenas /\ twice' = twice
      /\ results' = results /\ blocks' = blocks /\ freed' = freed
      /\ ret' = [ret EXCEPT !.lexer_buffer = lexer.allocator]
      /\ lexer' = [lexer EXCEPT !.allocator = NoBuffer]
  BY DEF ReleaseBuffer, Go, allocator, counters, heap
<1>2. Pool' = Pool /\ Blocks' = Blocks
  BY <1>1 DEF Pool, Blocks
<1>3. /\ ret \in Result /\ lexer \in [buf : Nat \cup Strings, allocator : Buffer]
      /\ NoBuffer \in Buffer /\ Owned(NoBuffer) = {}
  BY DEF OwnInv, Shapes, NoBuffer, Null, Buffer, Owned
<1>4. /\ ret'.text = ret.text /\ ret'.blocks = ret.blocks /\ ret'.lexer_buffer = lexer.allocator
      /\ ret'.node_allocator = ret.node_allocator
      /\ lexer'.allocator = NoBuffer /\ lexer'.buf = lexer.buf
      /\ ret' \in Result /\ lexer' \in [buf : Nat \cup Strings, allocator : Buffer]
  BY <1>1, <1>3 DEF Result
<1>5. Shapes' /\ LexerSound' /\ ~twice'
  BY <1>1, <1>4 DEF OwnInv, Shapes, LexerSound, Valid
<1>6. RetSound'
  BY <1>1, <1>2, <1>4 DEF OwnInv, RetSound, LexerSound, Valid
<1>7. PoolSound' /\ Newest'
  BY <1>1, <1>2 DEF OwnInv, PoolSound, Building, Newest
<1>8. \A r \in results' : ResultSound(r)'
  BY <1>1 DEF OwnInv, ResultSound, Valid
<1>9. ret.lexer_buffer = NoBuffer
  BY <1>1 DEF OwnInv, RetSound
<1>10. TextsOwned' /\ ArenasOwned' /\ Separate'
  BY <1>1, <1>2, <1>3, <1>4, <1>9
     DEF OwnInv, TextsOwned, ArenasOwned, Separate, OwnersApart, Owned
<1> QED BY <1>5, <1>6, <1>7, <1>8, <1>10 DEF OwnInv

\* The blocks go from the builder to the result, and the client gets it.
LEMMA SwapNodesKeeps == ASSUME IInv, OwnInv, SwapNodes PROVE OwnInv'
<1>0. PICK new : new = Swapped(ret)
  OBVIOUS
<1>1. /\ step = "released" /\ step' = "done" /\ loads' = loads /\ builders' = builders
      /\ texts' = texts /\ arenas' = arenas /\ twice' = twice /\ lexer' = lexer
      /\ results' = results \cup {new} /\ ret' = NoResult /\ blocks' = 0 /\ freed' = {}
  BY <1>0 DEF SwapNodes, Go, counters, heap, NewAllocator
<1>2. Pool' = {} /\ Pool = Blocks /\ Blocks \subseteq arenas /\ Blocks \subseteq Nat \X Nat
  BY <1>1 DEF Pool, Blocks, OwnInv, PoolSound, Building, Shapes, IInv, Types
<1>3. /\ new.text = ret.text /\ new.blocks = ret.blocks /\ new.lexer_buffer = ret.lexer_buffer
      /\ new.node_allocator = Blocks /\ new \in Result
  BY <1>0, <1>2 DEF Swapped, OwnInv, Shapes, Result
<1>4. NoResult.lexer_buffer = NoBuffer /\ NoResult \in Result /\ Owned(NoBuffer) = {}
  BY DEF NoResult, NoBuffer, Null, Result, Buffer, Owned
<1>5. /\ Valid(ret.lexer_buffer) /\ ret.lexer_buffer # NoBuffer
      /\ ret.lexer_buffer.buf = ret.text /\ ret.blocks \subseteq Blocks
      /\ lexer.allocator = NoBuffer
  BY <1>1 DEF OwnInv, RetSound
<1>6. Shapes' /\ LexerSound' /\ ~twice'
  BY <1>1, <1>3, <1>4 DEF OwnInv, Shapes, LexerSound, Valid
<1>7. RetSound' /\ PoolSound'
  BY <1>1, <1>2 DEF RetSound, PoolSound, Building
<1>8. Newest'
  <2> SUFFICES ASSUME NEW r \in results', NEW b \in Nat, NEW k \in Nat,
                      <<b, k>> \in r.node_allocator
               PROVE  b <= builders
    BY <1>1 DEF Newest, Building
  <2>1. CASE r \in results
    BY <2>1 DEF OwnInv, Newest
  <2>2. CASE r = new
    BY <1>3, <2>2 DEF Blocks, OwnInv, Shapes
  <2> QED BY <1>1, <2>1, <2>2
<1>9. \A r \in results' : ResultSound(r)'
  <2>1. ResultSound(new)'
    BY <1>1, <1>2, <1>3, <1>5 DEF ResultSound, Valid
  <2> QED BY <1>1, <2>1 DEF OwnInv, ResultSound, Valid
<1>10. TextsOwned' /\ ArenasOwned'
  BY <1>1, <1>2, <1>3, <1>4, <1>5 DEF OwnInv, TextsOwned, ArenasOwned
<1>11. \A r \in results : OwnersApart(r, new) /\ OwnersApart(new, r)
  BY <1>2, <1>3 DEF OwnInv, Separate, OwnersApart
<1>12. Separate'
  BY <1>1, <1>2, <1>4, <1>5, <1>11 DEF OwnInv, Separate, OwnersApart, Owned
<1> QED BY <1>6, <1>7, <1>8, <1>9, <1>10, <1>12 DEF OwnInv

\* The builder dies with what it has not given away.
LEMMA DestroyBuilderKeeps == ASSUME OwnInv, DestroyBuilder PROVE OwnInv'
<1>1. /\ step = "done" /\ step' = "idle" /\ loads' = loads /\ builders' = builders
      /\ texts' = texts /\ lexer' = lexer /\ ret' = ret /\ results' = results
      /\ blocks' = blocks /\ freed = {} /\ freed' = 1..blocks
      /\ arenas' = arenas \ Blocks /\ Pool = Blocks
  BY DEF DestroyBuilder, Go, counters, Clear, Pool
<1>2. Pool' = {} /\ Blocks \subseteq arenas
  BY <1>1 DEF Pool, Blocks, OwnInv, PoolSound
<1>3. ~twice'
  BY <1>2 DEF DestroyBuilder, OwnInv
<1>4. Shapes' /\ LexerSound'
  BY <1>1 DEF OwnInv, Shapes, LexerSound, Valid
<1>5. RetSound' /\ PoolSound' /\ Newest'
  BY <1>1, <1>2 DEF OwnInv, RetSound, PoolSound, Building, Newest
<1>6. \A r \in results' : ResultSound(r)'
  BY <1>1 DEF OwnInv, ResultSound, Valid, Separate
<1>7. TextsOwned' /\ ArenasOwned' /\ Separate'
  BY <1>1, <1>2 DEF OwnInv, TextsOwned, ArenasOwned, Separate, OwnersApart, Owned
<1> QED BY <1>3, <1>4, <1>5, <1>6, <1>7 DEF OwnInv

\* A result dies with its text and its nodes.
LEMMA DropKeeps == ASSUME OwnInv, Drop PROVE OwnInv'
<1>1. PICK r \in results :
        /\ results' = results \ {r}
        /\ texts' = texts \ Owned(r.lexer_buffer)
        /\ arenas' = arenas \ r.node_allocator
        /\ twice' = (twice \/ ~(/\ Owned(r.lexer_buffer) \subseteq texts
                                /\ r.node_allocator \subseteq arenas))
  BY DEF Drop
<1>2. /\ step' = step /\ step \notin Building \cup {"done"} /\ loads' = loads
      /\ builders' = builders /\ lexer' = lexer /\ ret' = ret
      /\ blocks' = blocks /\ freed' = freed
  BY DEF Drop, allocator, counters, Building
<1>3. \A s \in results : s.lexer_buffer \in Buffer /\ Owned(s.lexer_buffer) \subseteq texts
  BY OwnedThere DEF OwnInv, Shapes, Result, ResultSound
<1>4. ~twice'
  BY <1>1, <1>3 DEF OwnInv, ResultSound
<1>5. Pool' = Pool /\ Pool = {} /\ ret = NoResult /\ NoResult.lexer_buffer = NoBuffer
      /\ Owned(NoBuffer) = {} /\ Blocks' = Blocks
  BY <1>2 DEF Pool, Blocks, OwnInv, PoolSound, RetSound, Building, NoResult, NoBuffer, Owned
<1>6. Shapes'
  BY <1>1, <1>2 DEF OwnInv, Shapes
<1>7. LexerSound'
  <2>1. lexer.allocator \in Buffer /\ Owned(lexer.allocator) \subseteq texts
    BY OwnedThere DEF OwnInv, Shapes, LexerSound
  <2>2. \A t \in Owned(lexer.allocator) : t \in texts'
    BY <1>1, <2>1 DEF OwnInv, Separate
  <2>3. Valid(lexer.allocator)'
    BY <1>2, <2>1, <2>2, StaysValid DEF OwnInv, LexerSound, Valid
  <2> QED BY <1>2, <2>3 DEF OwnInv, LexerSound
<1>8. RetSound' /\ PoolSound' /\ Newest'
  BY <1>1, <1>2, <1>5 DEF OwnInv, RetSound, PoolSound, Building, Newest
<1>9. \A s \in results' : ResultSound(s)'
  <2> TAKE s \in results'
  <2>1. s \in results /\ s # r /\ ResultSound(s) /\ OwnersApart(s, r)
    BY <1>1 DEF OwnInv, Separate
  <2>2. \A t \in Owned(s.lexer_buffer) : t \in texts'
    BY <1>1, <1>3, <2>1 DEF OwnersApart
  <2>3. Valid(s.lexer_buffer)'
    BY <1>3, <2>1, <2>2, StaysValid DEF OwnInv, ResultSound
  <2> QED BY <1>1, <2>1, <2>3 DEF ResultSound, OwnersApart
<1>10. TextsOwned' /\ ArenasOwned' /\ Separate'
  BY <1>1, <1>2, <1>5 DEF OwnInv, TextsOwned, ArenasOwned, Separate, OwnersApart, Owned
<1> QED BY <1>4, <1>6, <1>7, <1>8, <1>9, <1>10 DEF OwnInv

-----------------------------------------------------------------------------
LEMMA OwnInitInv == OwnInit => IInv /\ OwnInv
<1> SUFFICES ASSUME OwnInit PROVE IInv /\ OwnInv
  OBVIOUS
<1>1. IInv
  BY InitInv DEF OwnInit
<1>2. /\ step = "none" /\ loads = 0 /\ builders = 0 /\ texts = {} /\ arenas = {}
      /\ ~twice /\ lexer = NoLexer /\ ret = NoResult /\ results = {} /\ blocks = 0
  BY DEF OwnInit, Init
<1>3. Pool = {} /\ Shapes
  BY <1>2 DEF Pool, Blocks, Shapes, NoLexer, NoResult, NoBuffer, Null, Buffer, Result
<1>4. LexerSound /\ RetSound /\ PoolSound
  BY <1>2, <1>3 DEF LexerSound, RetSound, PoolSound, Valid, NoLexer, Building
<1>5. Newest /\ TextsOwned /\ ArenasOwned /\ Separate
  BY <1>2 DEF Newest, TextsOwned, ArenasOwned, Separate
<1> QED BY <1>1, <1>2, <1>3, <1>4, <1>5 DEF OwnInv

\* One step of the client, the parser or the builder.
LEMMA OwnStep == IInv /\ OwnInv /\ [OwnNext]_allVars => IInv' /\ OwnInv'
<1> SUFFICES ASSUME IInv, OwnInv, [OwnNext]_allVars PROVE IInv' /\ OwnInv'
  OBVIOUS
<1> USE DEF Go
<1>1. ASSUME UNCHANGED allocator PROVE IInv'
  BY <1>1 DEF allocator, IInv, Types, LeftIsLeft, LeftIsFree, NodesInBlocks, NodeInBlock,
              NodesApart, Apart
<1>2. ASSUME NewAllocator PROVE IInv'
  BY <1>2 DEF NewAllocator, IInv, Types, LeftIsLeft, LeftIsFree, NodesInBlocks, NodesApart
<1>3. CASE StartLoad
  <2>1. step \notin Building \cup {"done"} /\ step' = "unloaded"
    BY <1>3 DEF StartLoad, Building
  <2> QED BY <1>1, <1>3, <2>1, UnloadFrees, LexerEmptied DEF StartLoad
<1>4. CASE DestroyLexer
  <2>1. step \notin Building \cup {"done"} /\ step' = "destroyed"
    BY <1>4 DEF DestroyLexer, Building
  <2> QED BY <1>1, <1>4, <2>1, UnloadFrees, LexerEmptied DEF DestroyLexer
<1>5. CASE DestroyBuffer
  <2>1. step \notin Building \cup {"done"} /\ step' = "none"
    BY <1>5 DEF DestroyBuffer, Building
  <2>2. lexer.allocator = NoBuffer /\ Owned(NoBuffer) = {}
    BY <1>5 DEF DestroyBuffer, OwnInv, LexerSound, Owned, NoBuffer
  <2>3. texts' = texts \ Owned(lexer.allocator) /\ lexer' = NoLexer
    BY <1>5 DEF DestroyBuffer, Free
  <2>4. twice' = (twice \/ ~(Owned(lexer.allocator) \subseteq texts))
    BY <1>5 DEF DestroyBuffer, Free
  <2>5. ~twice'
    BY <2>2, <2>4 DEF OwnInv
  <2>6. NoLexer.allocator = NoBuffer /\ NoLexer \in [buf : Nat \cup Strings, allocator : Buffer]
    BY DEF NoLexer, NoBuffer, Null, Buffer
  <2> QED BY <1>1, <1>5, <2>1, <2>3, <2>5, <2>6, LexerEmptied DEF DestroyBuffer
<1>6. CASE LoadFile
  <2> DEFINE b == [buf |-> loads + 1, sharable |-> FALSE]
  <2>1. /\ step = "unloaded" /\ step' = "loaded" /\ loads' = loads + 1
        /\ lexer' = [buf |-> b.buf, allocator |-> b]
        /\ UNCHANGED <<allocator, builders, arenas, ret, results>>
    BY <1>6 DEF LoadFile, SetBuffer
  <2>2. Owned(lexer.allocator) = {}
    BY <2>1 DEF OwnInv, LexerSound, Owned, NoBuffer
  <2>3. texts' = texts \cup {loads + 1}
    BY <1>6, <2>2 DEF LoadFile
  <2>4. ~twice'
    BY <1>6, <2>2 DEF LoadFile, OwnInv
  <2>5. b \in Buffer /\ b # NoBuffer /\ ~b.sharable /\ b.buf = loads + 1
    BY DEF Buffer, NoBuffer, OwnInv, Shapes, Null
  <2> HIDE DEF b
  <2> QED BY <1>1, <2>1, <2>3, <2>4, <2>5, LexerFilled
<1>7. CASE LoadString
  <2>1. PICK s \in Strings : SetBuffer([buf |-> s, sharable |-> TRUE])
    BY <1>7 DEF LoadString
  <2> DEFINE b == [buf |-> s, sharable |-> TRUE]
  <2>2. /\ step = "unloaded" /\ step' = "loaded" /\ loads' = loads + 1
        /\ lexer' = [buf |-> b.buf, allocator |-> b]
        /\ UNCHANGED <<allocator, builders, arenas, ret, results>>
    BY <1>7, <2>1 DEF LoadString, SetBuffer
  <2>3. Owned(lexer.allocator) = {}
    BY <2>2 DEF OwnInv, LexerSound, Owned, NoBuffer
  <2>4. texts' = texts
    BY <1>7, <2>3 DEF LoadString, Free
  <2>5. ~twice'
    BY <1>7, <2>3 DEF LoadString, Free, OwnInv
  <2>6. b \in Buffer /\ b # NoBuffer /\ b.sharable /\ b.buf \in Strings
    BY DEF Buffer, NoBuffer
  <2> HIDE DEF b
  <2> QED BY <1>1, <2>2, <2>4, <2>5, <2>6, LexerFilled
<1>8. CASE ParseAgain \/ Refused \/ UNCHANGED allVars
  <2>1. /\ UNCHANGED <<allocator, counters, heap, lexer, ret, results>>
        /\ \/ step' = step
           \/ step = "idle" /\ step' = "loaded" /\ lexer.allocator.buf # Null
           \/ step = "parsing" /\ step' = "done"
    BY <1>8 DEF ParseAgain, Refused, allVars
  <2> QED BY <1>1, <2>1, StepOnly
<1>9. CASE NewBuilder
  BY <1>2, <1>9, NewBuilderKeeps DEF NewBuilder
<1>10. CASE CreateNode
  <2>1. IInv'
    BY <1>10, AllocKeeps DEF CreateNode
  <2> QED BY <1>10, <2>1, CreateNodeKeeps
<1>11. CASE Accepted
  BY <1>1, <1>11, AcceptedKeeps DEF Accepted
<1>12. CASE ReleaseBuffer
  BY <1>1, <1>12, ReleaseBufferKeeps DEF ReleaseBuffer
<1>13. CASE SwapNodes
  BY <1>2, <1>13, SwapNodesKeeps DEF SwapNodes
<1>14. CASE DestroyBuilder
  <2>1. IInv'
    BY <1>14, ClearKeeps DEF DestroyBuilder
  <2> QED BY <1>14, <2>1, DestroyBuilderKeeps
<1>15. CASE Drop
  BY <1>1, <1>15, DropKeeps DEF Drop
<1> QED BY <1>3, <1>4, <1>5, <1>6, <1>7, <1>8, <1>9, <1>10, <1>11, <1>12, <1>13, <1>14, <1>15
        DEF OwnNext

\* The trees a client holds point to text and nodes that are there, and so do those
\* that are being built: what ParseFileToTree and its sisters hand out does not
\* depend on the parser and the builder they were made with.
THEOREM TreesStayReadable == OwnSpec => []TreesReadable
<1>1. IInv /\ OwnInv => TreesReadable
  <2> SUFFICES ASSUME IInv, OwnInv PROVE TreesReadable
    OBVIOUS
  <2>1. ASSUME NEW r \in results
        PROVE  r.text \in texts \cup Strings /\ r.blocks \subseteq arenas
    <3>1. ResultSound(r)
      BY DEF OwnInv
    <3> QED BY <3>1 DEF ResultSound, Valid
  <2>2. ASSUME step = "parsing"
        PROVE  lexer.buf \in texts \cup Strings /\ Blocks \subseteq arenas
    <3>1. /\ Valid(lexer.allocator) /\ lexer.allocator # NoBuffer
          /\ lexer.allocator.buf = lexer.buf /\ freed = {} /\ Pool \subseteq arenas
      BY <2>2 DEF OwnInv, LexerSound, PoolSound, Building
    <3> QED BY <3>1 DEF Valid, Pool
  <2> QED BY <2>1, <2>2 DEF TreesReadable
<1> QED BY OwnInitInv, OwnStep, <1>1, PTL DEF OwnSpec

\* Clear, Unload and the destructors free each text and each block of nodes once.
THEOREM EverythingFreedOnce == OwnSpec => []FreedOnce
<1>1. IInv /\ OwnInv => FreedOnce
  BY DEF OwnInv, FreedOnce
<1> QED BY OwnInitInv, OwnStep, <1>1, PTL DEF OwnSpec

\* Each text and each block of nodes that is malloc'ed always has one owner, who
\* will free it.
THEOREM NothingIsLost == OwnSpec => []NothingLeaks
<1>1. IInv /\ OwnInv => NothingLeaks
  <2> SUFFICES ASSUME IInv, OwnInv PROVE NothingLeaks
    OBVIOUS
  <2> DEFINE mine == [NoResult EXCEPT !.lexer_buffer = lexer.allocator,
                                      !.node_allocator = IF freed = {} THEN Blocks ELSE {}]
             holders == results \cup {ret, mine}
  <2>1. mine.lexer_buffer = lexer.allocator /\ mine.node_allocator = Pool
    BY DEF NoResult, Pool
  <2>2. ret.node_allocator = {}
    BY DEF OwnInv, RetSound, NoResult
  <2>3. Owned(ret.lexer_buffer) = {} \/ Owned(lexer.allocator) = {}
    BY DEF OwnInv, RetSound, NoResult, NoBuffer, Owned
  <2> HIDE DEF mine
  <2>4. \A t \in texts : \E h \in holders : t \in Owned(h.lexer_buffer)
    BY <2>1 DEF OwnInv, TextsOwned
  <2>5. \A b \in arenas : \E h \in holders : b \in h.node_allocator
    BY <2>1 DEF OwnInv, ArenasOwned
  <2>6. \A g, h \in holders : g # h => OwnersApart(g, h)
    BY <2>1, <2>2, <2>3 DEF OwnInv, Separate, OwnersApart
  <2> QED BY <2>4, <2>5, <2>6 DEF NothingLeaks, OwnersApart, mine
<1> QED BY OwnInitInv, OwnStep, <1>1, PTL DEF OwnSpec

\* The nodes of the builder at work are inside blocks it allocated, and apart, however
\* many texts are parsed with however many builders.
THEOREM BuildersNodesSafe == OwnSpec => []NodesSound
<1>1. IInv /\ OwnInv => NodesSound
  BY DEF IInv, NodesSound
<1> QED BY OwnInitInv, OwnStep, <1>1, PTL DEF OwnSpec
=============================================================================
