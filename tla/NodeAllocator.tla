--------------------------- MODULE NodeAllocator ---------------------------
(***************************************************************************)
(* TreeNodeAllocator of src/tree.cpp, which both tree builders get their   *)
(* nodes from: it cuts them one after the other out of blocks of a fixed   *)
(* size and frees the blocks when it dies.  An address is a block, counted *)
(* in the order of the mallocs, and an offset in it.                       *)
(***************************************************************************)
EXTENDS Integers, Sequences

CONSTANTS BlockSize,  \* block_size_, 4096 in the code
          Sizes,      \* what is asked for: the sizes of the objects created
          SizeMod,    \* 2^w for the w bits of size_t
          MaxNodes    \* bound on the number of nodes

\* CalculateObjectSize grows with the number of children without a limit, and
\* nothing compares it with block_size_: that it fits is assumed here.
ASSUME SizesFit == /\ BlockSize \in Nat \ {0} /\ SizeMod \in Nat /\ BlockSize < SizeMod
                   /\ Sizes \subseteq 1..BlockSize
                   /\ MaxNodes \in Nat

VARIABLES
  blocks,    \* how many blocks are in blocks_
  cur,       \* cur_, the offset in the newest block
  cur_left,  \* cur_left_
  freed,     \* the blocks that were freed
  nodes      \* the nodes handed out, each [block, from, to]

vars == <<blocks, cur, cur_left, freed, nodes>>

Init == blocks = 0 /\ cur = 0 /\ cur_left = 0 /\ freed = {} /\ nodes = <<>>

\* mutant: cur_ stays where the node begins
StaysAt(offset, size) == offset

\* cur_ behind a node
Behind(offset, size) == offset + size

\* what is left of the last block is given up when a node does not fit
Alloc(size) ==
  /\ Len(nodes) < MaxNodes /\ freed = {}
  /\ LET fresh  == size > cur_left
         block  == IF fresh THEN blocks + 1 ELSE blocks
         offset == IF fresh THEN 0 ELSE cur
         left   == IF fresh THEN BlockSize ELSE cur_left
     IN /\ blocks' = block
        /\ cur' = Behind(offset, size)
        /\ cur_left' = (left - size) % SizeMod
        /\ nodes' = Append(nodes, [block |-> block, from |-> offset, to |-> offset + size])
  /\ UNCHANGED freed

\* Clear, called by the destructor; blocks_ keeps the pointers it has freed
Clear == /\ freed = {}
         /\ freed' = 1..blocks
         /\ cur' = 0 /\ cur_left' = 0
         /\ UNCHANGED <<blocks, nodes>>

Next == (\E size \in Sizes : Alloc(size)) \/ Clear

Spec == Init /\ [][Next]_vars
-----------------------------------------------------------------------------
(* Properties.                                                             *)

NodeInBlock(n) == n.block \in 1..blocks /\ 0 <= n.from /\ n.from < n.to /\ n.to <= BlockSize

Apart(m, n) == m.block # n.block \/ m.to <= n.from \/ n.to <= m.from

NodesInBlocks == \A i \in 1..Len(nodes) : NodeInBlock(nodes[i])
NodesApart    == \A i, j \in 1..Len(nodes) : i # j => Apart(nodes[i], nodes[j])

\* Every node is inside a block that malloc returned, and no two share a byte: to write
\* the children of one leaves the others as they are.
NodesSound == NodesInBlocks /\ NodesApart
=============================================================================
