----------------------------- MODULE MCHandlers -----------------------------
(***************************************************************************)
(* The handlers on sample grammars.  What ProductionHandler and            *)
(* SimplifiedTreeBuilder make of a text is compared with the parse tree    *)
(* that TreeBuilder makes of it.                                           *)
(***************************************************************************)
EXTENDS Handlers, SampleGrammars

(* A right recursion, which none of the sample grammars has: the nodes come
   before the list they join. *)
RightSymbolType ==
  [x \in {"EOF", "Error", ",", "(", ")", "Value", "R", "V"} |->
     CASE x = "EOF" -> "EndOfFile" [] x = "Error" -> "Error"
       [] x \in {"R", "V"} -> "NonTerminal" [] OTHER -> "Terminal"]

RightProductions == Vector(<<
  Rule("R", <<"V", ",", "R">>),
  Rule("R", <<"V">>),
  Rule("V", <<"Value">>),
  Rule("V", <<"(", "R", ")">>) >>)

Opening(target) == <<<<"R", "Goto", target>>, <<"V", "Goto", 2>>, <<"Value", "Shift", 3>>,
                     <<"(", "Shift", 4>>>>
Closing(p)      == <<<<"EOF", "Reduce", p>>, <<")", "Reduce", p>>>>

RightLalrStates == Vector(<<
  Row(Opening(1)),
  Row(<<<<"EOF", "Accept", 0>>>>),
  Row(Append(Closing(1), <<",", "Shift", 5>>)),
  Row(Append(Closing(2), <<",", "Reduce", 2>>)),
  Row(Opening(6)),
  Row(Opening(7)),
  Row(<<<<")", "Shift", 8>>>>),
  Row(Closing(0)),
  Row(Append(Closing(3), <<",", "Reduce", 3>>)) >>)

\* In the grammars of lists a recursion finds its own list on top, in the operator
\* grammar it may not.
ASSUME ListsAreApart == OneListEach <=> Productions # OpProductions

-----------------------------------------------------------------------------
(* SimplifiedTreeBuilder. *)

\* A node of a simplified tree, as a value.  The flags of the grammar, and nothing
\* of how the builder works, decide which node a node of the parse tree becomes.
Value(p, tok, chs) == [production |-> p, token |-> tok, childs |-> chs]

\* the i-th value replaced by its children
Spliced(vals, i) == SubSeq(vals, 1, i - 1) \o vals[i].childs \o SubSeq(vals, i + 1, Len(vals))

RECURSIVE Simple(_)
Simple(n) ==
  LET p     == nodes[n].production
      kids  == SelectSeq(nodes[n].childs,
                 LAMBDA c : ~(/\ RemoveSingleLexeme(p)
                              /\ nodes[c].production = NoProd
                              /\ nodes[c].token.symbol \in SingleLexeme))
      vals  == [i \in DOMAIN kids |-> Simple(kids[i])]
      again == SelectInSeq(kids, LAMBDA c : /\ nodes[c].production # NoProd
                                            /\ RootSymbol(c) = RootSymbol(n))
      flat  == [i \in DOMAIN kids |->
                  IF /\ nodes[kids[i]].production # NoProd
                     /\ nodes[kids[i]].production = vals[i].production
                  THEN vals[i].childs ELSE <<vals[i]>>]
      chs   == IF ~ListifyRecursion(p) THEN IF MergeChild(p) THEN FlattenSeq(flat) ELSE vals
               ELSE IF again = 0 THEN vals
               ELSE IF nodes[kids[again]].production = p THEN Spliced(vals, again)
               ELSE IF nodes[kids[again]].childs = <<>> THEN RemoveAt(vals, again)
               ELSE vals
  IN IF p = NoProd THEN Value(NoProd, nodes[n].token, <<>>)
     ELSE IF ForwardChild(p) /\ Len(kids) = 1 THEN vals[1]
     ELSE Value(p, NoToken, chs)

\* the value of a node of the heap, cut off below a depth no tree reaches
RECURSIVE ValueOf(_, _)
ValueOf(n, depth) ==
  LET node == mem.heap[n]
  IN IF depth = 0 THEN Value(NoProd, NoToken, <<>>)
     ELSE Value(node.production, node.token,
                [i \in DOMAIN node.childs |-> ValueOf(node.childs[i], depth - 1)])

\* At every point of the parse each simplified subtree is the simplification of
\* the parse tree beside it: lists are flat, nothing is lost, doubled or moved,
\* however the buffers grew and whatever was parsed before.
SimplifiesTree ==
  /\ \A i \in DOMAIN data : ret # "Accept" /\ data[i] # Null =>
       ValueOf(data[i], Len(stack) + Len(nodes)) = Simple(node_of[i])
  /\ ret = "Accept" => ValueOf(simplified, Len(stack) + Len(nodes)) = Simple(result)

\* the leaves under a node of the heap, cut off as ValueOf is
RECURSIVE LeavesOf(_, _)
LeavesOf(n, depth) ==
  LET node == mem.heap[n]
  IN IF depth = 0 THEN <<>>
     ELSE IF node.production = NoProd THEN <<node.token.symbol>>
     ELSE FlattenSeq([i \in DOMAIN node.childs |-> LeavesOf(node.childs[i], depth - 1)])

\* The simplified tree of an accepted text has its numbers for leaves, each of them
\* once and in order: what the evaluator of README.rst (Simplified Tree) computes
\* with.
NumbersKept ==
  ret = "Accept" => LeavesOf(simplified, Len(nodes)) = SelectSeq(shifted, LAMBDA x : x = "Num")
=============================================================================
