----------------------------- MODULE TreeBuilder -----------------------------
(***************************************************************************)
(* TreeBuilder of src/tree.cpp, the handler that builds the parse tree: it *)
(* is called after every ParseStep of ParseAll(handler) and hangs nodes on *)
(* the data pointers of the parser's stack items.  Nodes are allocated one *)
(* after the other and never freed while the builder lives, so a pointer   *)
(* is an index of nodes; 0 is NULL.                                        *)
(***************************************************************************)
EXTENDS Parser, SequencesExt

VARIABLES
  nodes,     \* the nodes in allocator, in the order of their creation
  node_of,   \* the data pointers of the items on stack_
  result     \* result

builder == <<nodes, node_of, result>>
treeVars == <<vars, builder>>

Null == 0

Leaf(tok)       == [production |-> NoProd, token |-> tok, childs |-> <<>>]
Inner(p, chs)   == [production |-> p, token |-> NoToken, childs |-> chs]

\* the symbol a node stands for
RootSymbol(n) == SymbolOf(nodes[n])
-----------------------------------------------------------------------------
(* operator(), after the step that returned ret'.                          *)

OnShift == /\ ret' = "Shift"
           /\ nodes' = Append(nodes, Leaf(token'))
           /\ node_of' = Append(node_of, Len(nodes'))
           /\ UNCHANGED result

\* mutant: the node of the first handle is lost
ChildsButOne == SubSeq(node_of, Len(node_of) - Len(reduction'.handles) + 2, Len(node_of))

\* the data of the handles, copied from the stack before they were popped
Childs == SubSeq(node_of, Len(node_of) - Len(reduction'.handles) + 1, Len(node_of))

\* mutant: the data of the new item is not set
ReduceForgetsHead == /\ ret' = "Reduce"
                     /\ nodes' = Append(nodes, Inner(reduction'.production, Childs))
                     /\ node_of' = Append(SubSeq(node_of, 1, Len(stack') - 1), Null)
                     /\ UNCHANGED result

OnReduce == /\ ret' = "Reduce"
            /\ nodes' = Append(nodes, Inner(reduction'.production, Childs))
            /\ node_of' = Append(SubSeq(node_of, 1, Len(stack') - 1), Len(nodes'))
            /\ UNCHANGED result

\* mutant: a result that is there is kept
AcceptKeepsResult == /\ ret' = "Accept"
                     /\ result' = IF result = Null THEN node_of[Len(node_of)] ELSE result
                     /\ UNCHANGED <<nodes, node_of>>

OnAccept == /\ ret' = "Accept"
            /\ result' = node_of[Len(node_of)]
            /\ UNCHANGED <<nodes, node_of>>

\* an error is not looked at: the nodes stay, and so does an earlier result
OnError == /\ ret' = "Error"
           /\ node_of' = SubSeq(node_of, 1, Len(stack'))
           /\ UNCHANGED <<nodes, result>>

Handle == OnShift \/ OnReduce \/ OnAccept \/ OnError

\* ResetState clears the stack and with it the data pointers
ResetBuilder == node_of' = <<Null>> /\ UNCHANGED <<nodes, result>>

TreeInit == Init /\ nodes = <<>> /\ node_of = <<Null>> /\ result = Null

TreeNext == \/ ParseStep /\ Handle
            \/ Call("ParseAll") /\ UNCHANGED builder
            \/ (Load \/ ResetCursor) /\ ResetBuilder

TreeSpec == TreeInit /\ [][TreeNext]_treeVars
-----------------------------------------------------------------------------
(* Properties.                                                             *)

\* The data pointers stay in step with the stack although the parser pops and
\* pushes the items and the handler only fills them in: each item has the node of
\* its own symbol.
NodesFollowStack ==
  /\ Len(node_of) = Len(stack)
  /\ node_of[1] = Null
  /\ \A i \in 2..Len(stack) : node_of[i] # Null /\ RootSymbol(node_of[i]) = SymbolOf(stack[i])

\* A node's children are the right-hand side of its production, all older than it:
\* what a client that casts by production->index relies on (README.rst, Evaluate
\* with a syntax tree).
ChildsFitProduction ==
  \A n \in 1..Len(nodes) : nodes[n].production # NoProd =>
    LET chs == nodes[n].childs
        hs  == Productions[nodes[n].production].handles
    IN /\ Len(chs) = Len(hs)
       /\ \A i \in 1..Len(hs) : chs[i] \in 1..n - 1 /\ RootSymbol(chs[i]) = hs[i]

\* the tokens under each node, from left to right
Leaves(tree) ==
  LET leaves[n \in DOMAIN tree] ==
        IF tree[n].production = NoProd THEN <<tree[n].token>>
        ELSE FlattenSeq([i \in DOMAIN tree[n].childs |-> leaves[tree[n].childs[i]]])
  IN leaves

\* what the nodes on the stack have, from left to right; the first item has none
Along(of) == FlattenSeq([i \in 1..Len(node_of) - 1 |-> of[node_of[i + 1]]])

\* the tokens of the text that were shifted, with their places
ShiftedTokens ==
  TokensOf(text, [k \in DOMAIN text |-> [symbol |-> text[k], pos |-> k]])
    [IF token_used THEN cursor ELSE cursor - 1]

\* The trees on the stack spell the text: every token shifted is the leaf of one
\* of them, in order, and nothing else is; an accepted text has its own tree as
\* result, whatever was parsed before.
TreesSpellText ==
  /\ Along(Leaves(nodes)) = ShiftedTokens
  /\ ret = "Accept" => Leaves(nodes)[result] = ShiftedTokens
=============================================================================
