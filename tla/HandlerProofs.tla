-------------------------- MODULE HandlerProofs ------------------------------
(***************************************************************************)
(* Proofs about the handlers of ParseAll, for every table whose items are  *)
(* consistent, texts of any length and any choice of handlers.  First      *)
(* TreeBuilder: the data pointers it sets stay in step with the stack that *)
(* the parser alone moves.  Then what is computed along the tree, Leaves,  *)
(* Eval and Postorder: a new node changes none of it, and what the nodes   *)
(* on the stack have grows by what the new node adds itself.  From that    *)
(* follow that the trees spell the text and that ProductionHandler, which  *)
(* sees no tree, evaluates the one that TreeBuilder builds.  Last the      *)
(* lists that SimplifiedTreeBuilder keeps beside the stack.                *)
(***************************************************************************)
EXTENDS Handlers, ParserProofs

TreeNodes == [production : ProdIdx \cup {NoProd}, token : Tokens, childs : Seq(Nat)]

NodesTyped == nodes \in Seq(TreeNodes) /\ node_of \in Seq(Nat)

\* a node made for a stack item
Mirrors(node, item) == node.production = item.production /\ node.token = item.token

\* NodesFollowStack, and no pointer leads beyond the nodes that were created
InStep == /\ Len(node_of) = Len(stack)
          /\ node_of[1] = Null
          /\ \A i \in 2..Len(stack) : /\ node_of[i] \in 1..Len(nodes)
                                      /\ Mirrors(nodes[node_of[i]], stack[i])

TreeInv == IInv /\ NodesTyped /\ InStep /\ ChildsFitProduction
-----------------------------------------------------------------------------
(* What a new node changes.                                                *)

LEMMA MirrorsSymbol ==
  ASSUME NEW node, NEW item, Mirrors(node, item)
  PROVE  SymbolOf(node) = SymbolOf(item)
BY DEF Mirrors, SymbolOf

\* The nodes that are there stay as they are.
LEMMA NodesStay ==
  ASSUME NodesTyped, NEW node \in TreeNodes, nodes' = Append(nodes, node)
  PROVE  /\ nodes' \in Seq(TreeNodes) /\ Len(nodes') = Len(nodes) + 1
         /\ nodes'[Len(nodes')] = node
         /\ \A n \in 1..Len(nodes) : nodes'[n] = nodes[n] /\ SymbolOf(nodes'[n]) = SymbolOf(nodes[n])
         /\ SymbolOf(nodes'[Len(nodes')]) = SymbolOf(node)
<1>1. nodes \in Seq(TreeNodes) /\ Len(nodes) \in Nat
  BY LenProperties DEF NodesTyped
<1>2. /\ nodes' \in Seq(TreeNodes) /\ Len(nodes') = Len(nodes) + 1
      /\ nodes'[Len(nodes')] = node
      /\ \A n \in 1..Len(nodes) : nodes'[n] = nodes[n]
  BY <1>1, AppendProperties
<1>3. \A n \in 1..Len(nodes) : SymbolOf(nodes'[n]) = SymbolOf(nodes[n])
  BY <1>2 DEF SymbolOf
<1>4. SymbolOf(nodes'[Len(nodes')]) = SymbolOf(node)
  BY <1>2 DEF SymbolOf
<1> QED
  BY <1>2, <1>3, <1>4

\* A new node whose children fit keeps ChildsFitProduction.
LEMMA ChildsStay ==
  ASSUME NodesTyped, ChildsFitProduction, NEW node \in TreeNodes,
         nodes' = Append(nodes, node),
         node.production # NoProd =>
           LET hs == Productions[node.production].handles
           IN /\ Len(node.childs) = Len(hs)
              /\ \A i \in 1..Len(hs) : /\ node.childs[i] \in 1..Len(nodes)
                                       /\ SymbolOf(nodes[node.childs[i]]) = hs[i]
  PROVE  ChildsFitProduction'
<1>1. /\ Len(nodes) \in Nat /\ Len(nodes') = Len(nodes) + 1
      /\ nodes'[Len(nodes')] = node
      /\ \A n \in 1..Len(nodes) : nodes'[n] = nodes[n] /\ SymbolOf(nodes'[n]) = SymbolOf(nodes[n])
  BY NodesStay, LenProperties DEF NodesTyped
<1> SUFFICES ASSUME NEW n \in 1..Len(nodes'), nodes'[n].production # NoProd
             PROVE  LET chs == nodes'[n].childs
                        hs  == Productions[nodes'[n].production].handles
                    IN /\ Len(chs) = Len(hs)
                       /\ \A i \in 1..Len(hs) : chs[i] \in 1..n - 1
                                                /\ SymbolOf(nodes'[chs[i]]) = hs[i]
  BY DEF ChildsFitProduction, RootSymbol
<1>2. CASE n \in 1..Len(nodes)
  <2>1. nodes'[n] = nodes[n]
    BY <1>1, <1>2
  <2>2. /\ Len(nodes[n].childs) = Len(Productions[nodes[n].production].handles)
        /\ \A i \in 1..Len(Productions[nodes[n].production].handles) :
             /\ nodes[n].childs[i] \in 1..n - 1
             /\ SymbolOf(nodes[nodes[n].childs[i]]) = Productions[nodes[n].production].handles[i]
    BY <1>2, <2>1 DEF ChildsFitProduction, RootSymbol
  <2>3. \A k \in 1..n - 1 : SymbolOf(nodes'[k]) = SymbolOf(nodes[k])
    BY <1>1, <1>2
  <2> QED
    BY <2>1, <2>2, <2>3
<1>3. CASE n = Len(nodes')
  <2>1. n - 1 = Len(nodes) /\ nodes'[n] = node
    BY <1>1, <1>3
  <2>2. \A k \in 1..n - 1 : SymbolOf(nodes'[k]) = SymbolOf(nodes[k])
    BY <1>1, <2>1
  <2> QED
    BY <2>1, <2>2
<1>4. n \in 1..Len(nodes) \/ n = Len(nodes')
  BY <1>1
<1> QED
  BY <1>2, <1>3, <1>4

\* A node for the item that is pushed keeps the pointers in step.
LEMMA PushInStep ==
  ASSUME NodesTyped, NEW node \in TreeNodes, nodes' = Append(nodes, node),
         NEW below, below \in Seq(StackItems),
         NEW under, under \in Seq(Nat),
         Len(under) = Len(below), Len(below) \in Nat \ {0},
         under[1] = Null,
         \A i \in 2..Len(below) : /\ under[i] \in 1..Len(nodes)
                                  /\ Mirrors(nodes[under[i]], below[i]),
         NEW it \in StackItems, Mirrors(node, it),
         stack' = Append(below, it), node_of' = Append(under, Len(nodes'))
  PROVE  NodesTyped' /\ InStep'
<1>1. /\ nodes' \in Seq(TreeNodes) /\ Len(nodes) \in Nat /\ Len(nodes') = Len(nodes) + 1
      /\ \A n \in 1..Len(nodes) : nodes'[n] = nodes[n]
      /\ nodes'[Len(nodes')] = node
  BY NodesStay, LenProperties DEF NodesTyped
<1>2. /\ node_of' \in Seq(Nat) /\ Len(node_of') = Len(under) + 1
      /\ \A i \in 1..Len(under) : node_of'[i] = under[i]
      /\ node_of'[Len(under) + 1] = Len(nodes')
  BY <1>1, AppendProperties
<1>3. /\ Len(stack') = Len(below) + 1
      /\ \A i \in 1..Len(below) : stack'[i] = below[i]
      /\ stack'[Len(below) + 1] = it
  BY AppendProperties
<1>4. \A i \in 2..Len(stack') : /\ node_of'[i] \in 1..Len(nodes')
                                /\ Mirrors(nodes'[node_of'[i]], stack'[i])
  <2> TAKE i \in 2..Len(stack')
  <2>1. CASE i \in 2..Len(below)
    BY <1>1, <1>2, <1>3, <2>1
  <2>2. CASE i = Len(below) + 1
    BY <1>1, <1>2, <1>3, <2>2
  <2> QED
    BY <1>3, <2>1, <2>2
<1> QED
  BY <1>1, <1>2, <1>3, <1>4 DEF NodesTyped, InStep
-----------------------------------------------------------------------------
(* The invariant, branch by branch of operator().                          *)

LEMMA TreeInitInv == TreeInit => TreeInv
<1> SUFFICES ASSUME TreeInit PROVE TreeInv
  OBVIOUS
<1>1. IInv
  BY InitIInv DEF TreeInit
<1>2. NodesTyped /\ Len(nodes) = 0
  BY DEF TreeInit, NodesTyped, Null
<1>3. InStep
  BY DEF TreeInit, Init, InitialStack, InStep, Mirrors
<1> QED
  BY <1>1, <1>2, <1>3 DEF TreeInv, ChildsFitProduction

\* What each branch of operator() may take for granted of the engine's step.
LEMMA StepResults ==
  ASSUME IInv, ParseStep
  PROVE  /\ ret' = "Shift" => Shift
         /\ ret' = "Reduce" => Reduce
         /\ ret' = "Accept" => Accept
         /\ ret' \in {"Accept", "Error"} => stack' = stack
         /\ IInv'
<1>1. Act /\ ~GotoError /\ ~ActionError /\ ~Underflow
  BY NoGotoError DEF ParseStep
<1>2. IInv'
  BY NextIInv DEF Next
<1>3. /\ (LexicalError \/ SyntaxError => ret' = "Error" /\ stack' = stack)
      /\ Accept => ret' = "Accept" /\ stack' = stack
      /\ Shift => ret' = "Shift"
      /\ Reduce => ret' = "Reduce"
  BY DEF LexicalError, SyntaxError, Accept, Shift, Reduce, Fail, Return, engine
<1> QED
  BY <1>1, <1>2, <1>3 DEF Act

\* What a shift leaves: a node for the token.
Shifted == /\ token' \in Tokens /\ Leaf(token') \in TreeNodes
           /\ nodes' = Append(nodes, Leaf(token'))
           /\ node_of' = Append(node_of, Len(nodes'))

LEMMA ShiftTree ==
  ASSUME TreeInv, Begin, Shift, OnShift
  PROVE  NodesTyped' /\ InStep' /\ ChildsFitProduction' /\ Shifted
<1> DEFINE it == [state |-> Action(state, Lookahead).target, production |-> NoProd,
                  token |-> token']
           leaf == Leaf(token')
<1>1. /\ HasAction(state, Lookahead) /\ Action(state, Lookahead).type = "Shift"
      /\ stack' = Append(stack, it)
  BY DEF Shift, Decides, Push
<1>2. /\ IInv /\ stack \in Seq(StackItems) /\ Len(stack) \in Nat \ {0} /\ state \in States
  BY EmptySeq DEF TreeInv, IInv, TypeOK
<1>3. token' \in Tokens /\ Lookahead \in Symbols
  BY <1>2, BeginFacts DEF IInv
<1>4. it \in StackItems
  BY <1>1, <1>2, <1>3, TablesTyped DEF StackItems
<1>5. leaf \in TreeNodes /\ leaf.production = NoProd
  BY <1>3 DEF Leaf, TreeNodes
<1>6. Mirrors(leaf, it)
  BY DEF Mirrors, Leaf
<1>7. nodes' = Append(nodes, leaf) /\ node_of' = Append(node_of, Len(nodes'))
  BY DEF OnShift
<1>10. Shifted
  BY <1>3, <1>5, <1>7 DEF Shifted
<1> HIDE DEF it, leaf
<1>8. ChildsFitProduction'
  BY <1>5, <1>7, ChildsStay DEF TreeInv
<1>9. NodesTyped' /\ InStep'
  BY <1>1, <1>2, <1>4, <1>5, <1>6, <1>7, PushInStep DEF TreeInv, NodesTyped, InStep
<1> QED
  BY <1>8, <1>9, <1>10

\* What a reduction by p, which has m handles, does to the stack: item it replaces
\* the last m, which are the handles.
Replaced(p, m, it) ==
  /\ p \in ProdIdx /\ m \in Nat /\ m = Len(Productions[p].handles)
  /\ Len(stack) - m \in 1..Len(stack)
  /\ Rest(p) \in Seq(StackItems) /\ Len(Rest(p)) = Len(stack) - m
  /\ \A i \in 1..Len(stack) - m : Rest(p)[i] = stack[i]
  /\ \A i \in 1..m : SymbolOf(stack[(Len(stack) - m) + i]) = Productions[p].handles[i]
  /\ stack' = Append(Rest(p), it) /\ Len(stack') = Len(stack) - m + 1
  /\ it.production = p /\ it.token = NoToken
  /\ reduction'.production = p /\ reduction'.handles = Handles(p)
  /\ Handles(p) \in Seq(StackItems) /\ Len(Handles(p)) = m
  /\ \A i \in 1..m : Handles(p)[i] = stack[(Len(stack) - m) + i]

LEMMA ReduceStack ==
  ASSUME IInv, Begin, Reduce,
         NEW p, p = Action(state, Lookahead).target,
         NEW m, m = Len(Productions[p].handles)
  PROVE  \E it \in StackItems : Replaced(p, m, it)
<1> DEFINE head == Productions[p].head
           t    == Action(Exposed(p), head).target
           it   == [state |-> t, production |-> p, token |-> NoToken]
<1>1. /\ HasAction(state, Lookahead) /\ Action(state, Lookahead).type = "Reduce"
      /\ HasGoto(Exposed(p), head) /\ stack' = Append(Rest(p), it)
      /\ reduction' = [production |-> p, handles |-> Handles(p), head |-> Len(stack')]
  BY DEF Reduce, Decides, Push
<1>2. Lookahead \in Lexemes
  BY BeginFacts DEF IInv
<1>3. /\ p \in ProdIdx /\ m \in Nat
      /\ Len(Rest(p)) = Len(stack) - m /\ Len(Rest(p)) \in 1..Len(stack)
      /\ Rest(p) \in Seq(StackItems)
      /\ \A i \in 1..Len(Rest(p)) : Rest(p)[i] = stack[i]
      /\ Handles(p) \in Seq(StackItems) /\ Len(Handles(p)) = m
      /\ \A i \in 1..Len(Handles(p)) :
           /\ Handles(p)[i] = stack[Len(Rest(p)) + i]
           /\ SymbolOf(Handles(p)[i]) = Productions[p].handles[i]
  <2>1. Fits(p)
    BY <1>1, <1>2, ReduceFits
  <2> QED
    BY <2>1 DEF Fits, SoundStack
<1>4. it \in StackItems /\ it.production = p /\ it.token = NoToken
  <2>1. Len(Rest(p)) \in 1..Len(Rest(p))
    BY <1>3
  <2>2. Rest(p)[Len(Rest(p))] \in StackItems
    BY <1>3, <2>1, ElementOfSeq
  <2>3. Exposed(p) \in States /\ head \in Symbols
    BY <1>3, <2>2, TablesTyped DEF Exposed, StackItems, OfType
  <2>4. t \in States
    BY <1>1, <2>3, TablesTyped DEF HasGoto
  <2>5. NoToken \in Tokens
    BY DEF NoToken, Tokens
  <2> QED
    BY <1>3, <2>4, <2>5 DEF StackItems
<1> HIDE DEF it, t, head
<1>5. Len(stack') = Len(stack) - m + 1
  <2>1. Len(stack') = Len(Rest(p)) + 1
    BY <1>1, <1>3, <1>4, AppendProperties
  <2> QED
    BY <1>3, <2>1
<1>7. \A i \in 1..m : /\ Handles(p)[i] = stack[(Len(stack) - m) + i]
                     /\ SymbolOf(Handles(p)[i]) = Productions[p].handles[i]
  <2> HIDE DEF Handles, Rest, SymbolOf
  <2> TAKE i \in 1..m
  <2>1. i \in 1..Len(Handles(p)) /\ Len(Rest(p)) + i = (Len(stack) - m) + i
    BY <1>3
  <2> QED
    BY <1>3, <2>1
<1>6. \A i \in 1..m : SymbolOf(stack[(Len(stack) - m) + i]) = Productions[p].handles[i]
  BY <1>7
<1>8. Replaced(p, m, it)
  BY <1>1, <1>3, <1>4, <1>5, <1>6, <1>7 DEF Replaced
<1> QED
  BY <1>4, <1>8

\* A stretch of the pointers.
LEMMA Stretch ==
  ASSUME node_of \in Seq(Nat), NEW k \in Nat \ {0}, NEW l \in Nat,
         l <= Len(node_of), k <= l + 1
  PROVE  /\ SubSeq(node_of, k, l) \in Seq(Nat) /\ Len(SubSeq(node_of, k, l)) = l - k + 1
         /\ \A i \in 1..l - k + 1 : SubSeq(node_of, k, l)[i] = node_of[k + i - 1]
<1>1. \A i \in k..l : node_of[i] \in Nat
  BY ElementOfSeq, LenProperties
<1> QED
  BY <1>1, SubSeqProperties

\* What a reduction by p leaves: a node for what lay above item b of the stack.
Reduced(p, b) ==
  /\ p \in ProdIdx /\ b \in 1..Len(stack)
  /\ Len(stack) - b = Len(Productions[p].handles) /\ Len(stack') - 1 = b
  /\ reduction'.production = p /\ reduction'.handles = Handles(p)
  /\ Handles(p) \in Seq(StackItems) /\ Len(Handles(p)) = Len(stack) - b
  /\ \A i \in 1..Len(stack) - b : Handles(p)[i] = stack[b + i]
  /\ Childs \in Seq(Nat) /\ Len(Childs) = Len(stack) - b
  /\ \A i \in 1..Len(stack) - b : Childs[i] = node_of[b + i]
  /\ Inner(p, Childs) \in TreeNodes
  /\ nodes' = Append(nodes, Inner(p, Childs))
  /\ node_of' = Append(SubSeq(node_of, 1, b), Len(nodes'))

LEMMA ReduceNode ==
  ASSUME NodesTyped, Len(node_of) = Len(stack), OnReduce, stack \in Seq(StackItems),
         NEW p, NEW m, NEW it, Replaced(p, m, it)
  PROVE  Reduced(p, Len(stack) - m)
<1> DEFINE n == Len(stack)
           b == n - m
<1>1. /\ p \in ProdIdx /\ m \in Nat /\ n \in Nat /\ b \in 1..n /\ b \in Nat
      /\ m = Len(Productions[p].handles) /\ n - b = m /\ n - (b + 1) + 1 = m
      /\ reduction'.production = p /\ reduction'.handles = Handles(p)
      /\ Handles(p) \in Seq(StackItems) /\ Len(Handles(p)) = m
      /\ \A i \in 1..m : Handles(p)[i] = stack[b + i]
  <2>1. /\ p \in ProdIdx /\ m \in Nat /\ n - m \in 1..n /\ m = Len(Productions[p].handles)
        /\ reduction'.production = p /\ reduction'.handles = Handles(p)
        /\ Handles(p) \in Seq(StackItems) /\ Len(Handles(p)) = m
        /\ \A i \in 1..m : Handles(p)[i] = stack[(n - m) + i]
    BY DEF Replaced
  <2>2. n \in Nat
    BY LenProperties
  <2>3. b \in 1..n /\ b \in Nat /\ n - b = m /\ n - (b + 1) + 1 = m
    <3> HIDE DEF n
    <3> QED
      BY <2>1, <2>2
  <2> QED
    BY <2>1, <2>2, <2>3
<1>2. Len(stack') - 1 = b
  <2>1. Len(stack') = b + 1
    BY DEF Replaced
  <2> QED
    BY <1>1, <2>1
<1>3. /\ nodes' = Append(nodes, Inner(p, Childs))
      /\ node_of' = Append(SubSeq(node_of, 1, b), Len(nodes'))
      /\ Childs = SubSeq(node_of, b + 1, n)
  <2>1. Len(node_of) - Len(reduction'.handles) + 1 = b + 1 /\ Len(node_of) = n
    <3>1. Len(reduction'.handles) = m /\ Len(node_of) = n
      BY <1>1
    <3> HIDE DEF n
    <3> QED
      BY <1>1, <3>1
  <2> QED
    BY <1>1, <1>2, <2>1 DEF OnReduce, Childs
<1>4. n = Len(node_of) /\ node_of \in Seq(Nat)
  BY DEF NodesTyped
<1> HIDE DEF n, b
<1>5. /\ Childs \in Seq(Nat) /\ Len(Childs) = m
      /\ \A i \in 1..m : Childs[i] = node_of[b + i]
  <2>1. /\ Childs \in Seq(Nat) /\ Len(Childs) = n - (b + 1) + 1
        /\ \A i \in 1..n - (b + 1) + 1 : Childs[i] = node_of[(b + 1) + i - 1]
    <3>1. b + 1 \in Nat \ {0} /\ b + 1 <= n + 1 /\ n <= Len(node_of)
      BY <1>1, <1>4
    <3> QED
      BY <1>1, <1>3, <1>4, <3>1, Stretch
  <2>2. \A i \in 1..m : (b + 1) + i - 1 = b + i
    BY <1>1
  <2> QED
    BY <1>1, <2>1, <2>2
<1>6. Inner(p, Childs) \in TreeNodes
  <2>1. NoToken \in Tokens
    BY DEF NoToken, Tokens
  <2> QED
    BY <1>1, <1>5, <2>1 DEF Inner, TreeNodes
<1> QED
  BY <1>1, <1>2, <1>3, <1>5, <1>6 DEF Reduced, n, b

LEMMA ReduceTree ==
  ASSUME TreeInv, Begin, Reduce, OnReduce
  PROVE  /\ NodesTyped' /\ InStep' /\ ChildsFitProduction'
         /\ \E p, b : Reduced(p, b)
<1> DEFINE p == Action(state, Lookahead).target
           m == Len(Productions[p].handles)
           n == Len(stack)
           b == n - m
<1>0. PICK it \in StackItems : Replaced(p, m, it)
  BY ReduceStack DEF TreeInv
<1>1. /\ m = Len(Productions[p].handles) /\ m \in Nat
      /\ Rest(p) \in Seq(StackItems) /\ Len(Rest(p)) = b
      /\ \A i \in 1..b : Rest(p)[i] = stack[i]
      /\ \A i \in 1..m : SymbolOf(stack[b + i]) = Productions[p].handles[i]
      /\ stack' = Append(Rest(p), it) /\ it.production = p /\ it.token = NoToken
  BY <1>0 DEF Replaced
<1>2. /\ NodesTyped /\ node_of \in Seq(Nat) /\ Len(node_of) = n /\ n \in Nat
      /\ stack \in Seq(StackItems) /\ node_of[1] = Null
      /\ \A i \in 2..n : /\ node_of[i] \in 1..Len(nodes)
                         /\ Mirrors(nodes[node_of[i]], stack[i])
                         /\ SymbolOf(nodes[node_of[i]]) = SymbolOf(stack[i])
  BY LenProperties, MirrorsSymbol DEF TreeInv, IInv, TypeOK, NodesTyped, InStep
<1>3. Reduced(p, b)
  BY <1>0, <1>2, ReduceNode
<1>4. b \in 1..n /\ b \in Nat /\ n - b = m
  <2>1. n - m \in 1..n
    BY <1>0 DEF Replaced
  <2> HIDE DEF n, m
  <2> QED
    BY <1>1, <1>2, <2>1
<1> DEFINE node  == Inner(p, Childs)
           under == SubSeq(node_of, 1, b)
<1>5. /\ node.production = p /\ node.token = NoToken /\ node.childs = Childs
      /\ node \in TreeNodes
  BY <1>3 DEF Inner, Reduced
<1>6. Mirrors(node, it)
  BY <1>1, <1>5 DEF Mirrors
<1>7. /\ p \in ProdIdx /\ Len(Childs) = m /\ \A i \in 1..m : Childs[i] = node_of[b + i]
      /\ nodes' = Append(nodes, node) /\ node_of' = Append(under, Len(nodes'))
  BY <1>3, <1>4 DEF Reduced
<1> HIDE DEF node, under, b, n, m, p
<1>8. /\ under \in Seq(Nat) /\ Len(under) = b
      /\ \A i \in 1..b : under[i] = node_of[i]
  <2>1. /\ under \in Seq(Nat) /\ Len(under) = b - 1 + 1
        /\ \A i \in 1..b - 1 + 1 : under[i] = node_of[1 + i - 1]
    BY <1>2, <1>4, Stretch DEF under
  <2> QED
    BY <1>4, <2>1
<1>9. \A i \in 1..m : /\ Childs[i] \in 1..Len(nodes)
                      /\ SymbolOf(nodes[Childs[i]]) = Productions[p].handles[i]
  <2> TAKE i \in 1..m
  <2>1. b + i \in 2..n
    BY <1>1, <1>2, <1>4
  <2> QED
    BY <1>1, <1>2, <1>7, <2>1
<1>10. ChildsFitProduction'
  BY <1>1, <1>2, <1>5, <1>7, <1>9, ChildsStay DEF TreeInv
<1>11. /\ under[1] = Null
       /\ \A i \in 2..b : /\ under[i] \in 1..Len(nodes)
                          /\ Mirrors(nodes[under[i]], Rest(p)[i])
  <2>1. under[1] = Null
    BY <1>2, <1>4, <1>8
  <2>2. ASSUME NEW i \in 2..b
        PROVE  /\ under[i] \in 1..Len(nodes)
               /\ Mirrors(nodes[under[i]], Rest(p)[i])
    <3>1. under[i] = node_of[i] /\ Rest(p)[i] = stack[i] /\ i \in 2..n
      BY <1>1, <1>2, <1>4, <1>8
    <3> QED
      BY <1>2, <3>1
  <2> QED
    BY <2>1, <2>2
<1>12. NodesTyped' /\ InStep'
  <2>1. /\ Len(under) = Len(Rest(p)) /\ Len(Rest(p)) \in Nat \ {0}
        /\ \A i \in 2..Len(Rest(p)) : /\ under[i] \in 1..Len(nodes)
                                      /\ Mirrors(nodes[under[i]], Rest(p)[i])
    BY <1>1, <1>4, <1>8, <1>11
  <2> QED
    BY <1>1, <1>2, <1>5, <1>6, <1>7, <1>8, <1>11, <2>1, PushInStep
<1> QED
  BY <1>3, <1>10, <1>12

\* Accept and error leave the nodes and the pointers alone.
LEMMA OtherTree ==
  ASSUME TreeInv, stack' = stack, nodes' = nodes, node_of' = node_of
  PROVE  NodesTyped' /\ InStep' /\ ChildsFitProduction'
BY DEF TreeInv, NodesTyped, InStep, Mirrors, ChildsFitProduction, RootSymbol, SymbolOf

LEMMA StepTree ==
  ASSUME TreeInv, ParseStep, Handle
  PROVE  /\ TreeInv'
         /\ \/ OnShift /\ Shifted
            \/ OnReduce /\ \E p, b : Reduced(p, b)
            \/ OnAccept /\ Accept
            \/ ret' = "Error" /\ UNCHANGED <<stack, builder>>
<1>1. /\ ret' = "Shift" => Shift
      /\ ret' = "Reduce" => Reduce
      /\ ret' = "Accept" => Accept
      /\ ret' \in {"Accept", "Error"} => stack' = stack
      /\ IInv'
  BY StepResults DEF TreeInv
<1>2. CASE OnShift
  BY <1>1, <1>2, ShiftTree DEF OnShift, TreeInv, ParseStep
<1>3. CASE OnReduce
  BY <1>1, <1>3, ReduceTree DEF OnReduce, TreeInv, ParseStep
<1>4. CASE OnAccept
  BY <1>1, <1>4, OtherTree DEF OnAccept, TreeInv
<1>5. CASE OnError
  <2>1. node_of' = SubSeq(node_of, 1, Len(node_of)) /\ nodes' = nodes /\ stack' = stack
        /\ result' = result /\ ret' = "Error"
    BY <1>1, <1>5 DEF OnError, TreeInv, InStep
  <2>2. node_of' = node_of
    BY <2>1, SubSeqFull DEF TreeInv, NodesTyped
  <2> QED
    BY <1>1, <2>1, <2>2, OtherTree DEF TreeInv, builder
<1> QED
  BY <1>2, <1>3, <1>4, <1>5 DEF Handle

LEMMA ResetTree ==
  ASSUME TreeInv, Load \/ ResetCursor, ResetBuilder
  PROVE  TreeInv'
<1>1. IInv'
  BY ResetIInv DEF TreeInv
<1>2. stack' = InitialStack /\ node_of' = <<Null>> /\ nodes' = nodes
  BY DEF Load, ResetCursor, ResetState, ResetBuilder
<1>3. NodesTyped'
  BY <1>2 DEF TreeInv, NodesTyped, Null
<1>4. InStep'
  BY <1>2 DEF InStep, InitialStack, Mirrors
<1>5. ChildsFitProduction'
  BY <1>2 DEF TreeInv, ChildsFitProduction, RootSymbol, SymbolOf
<1> QED
  BY <1>1, <1>3, <1>4, <1>5 DEF TreeInv

LEMMA TreeNextInv == TreeInv /\ [TreeNext]_treeVars => TreeInv'
<1> SUFFICES ASSUME TreeInv, [TreeNext]_treeVars PROVE TreeInv'
  OBVIOUS
<1>1. CASE ParseStep /\ Handle
  BY <1>1, StepTree
<1>2. CASE Call("ParseAll") /\ UNCHANGED builder
  <2>1. "ParseAll" \in Calls
    BY DEF Calls, Returns
  <2>2. IInv'
    BY <1>2, <2>1, IdleIInv DEF TreeInv
  <2>3. stack' = stack /\ nodes' = nodes /\ node_of' = node_of
    BY <1>2 DEF Call, engine, builder
  <2> QED
    BY <2>2, <2>3, OtherTree DEF TreeInv
<1>3. CASE (Load \/ ResetCursor) /\ ResetBuilder
  BY <1>3, ResetTree
<1>4. CASE UNCHANGED treeVars
  <2>1. UNCHANGED vars /\ stack' = stack /\ nodes' = nodes /\ node_of' = node_of
    BY <1>4 DEF treeVars, vars, builder
  <2>2. IInv'
    BY <2>1, IdleIInv DEF TreeInv
  <2> QED
    BY <2>1, <2>2, OtherTree DEF TreeInv
<1> QED
  BY <1>1, <1>2, <1>3, <1>4 DEF TreeNext

\* The invariant holds in every reachable state of parser and builder.
THEOREM TreeInvariance == TreeSpec => []TreeInv
BY TreeInitInv, TreeNextInv, PTL DEF TreeSpec

\* TreeBuilder's data pointers are in step with the parser's stack: each item has
\* the node of its own symbol, after every step and every reset.
THEOREM NodesAlwaysFollow == TreeSpec => []NodesFollowStack
<1>1. TreeInv => NodesFollowStack
  BY MirrorsSymbol DEF TreeInv, InStep, NodesFollowStack, RootSymbol, Null
<1> QED
  BY <1>1, TreeInvariance, PTL

\* A node's children are the right-hand side of its production, in number and in
\* kind, and older than it: the tree has no cycle.
THEOREM ChildsAlwaysFit == TreeSpec => []ChildsFitProduction
<1>1. TreeInv => ChildsFitProduction
  BY DEF TreeInv
<1> QED
  BY <1>1, TreeInvariance, PTL
-----------------------------------------------------------------------------
(* Flattening.                                                             *)

\* what is gathered from the first sequences of q
Gathers(c, q, S) == /\ c \in [Nat -> Seq(S)]
                    /\ c[0] = <<>>
                    /\ \A n \in 1..Len(q) : c[n] = c[n - 1] \o q[n]

LEMMA GathersExists ==
  ASSUME NEW S, NEW q \in Seq(Seq(S))
  PROVE  \E c : Gathers(c, q, S)
<1> DEFINE V    == Seq(S)
           step == [m \in (Nat \ {0}) \X V |-> IF m[1] \in 1..Len(q) THEN m[2] \o q[m[1]] ELSE m[2]]
<1>1. <<>> \in V
  OBVIOUS
<1>2. step \in [(Nat \ {0}) \X V -> V]
  <2> SUFFICES ASSUME NEW m \in (Nat \ {0}) \X V
               PROVE  (IF m[1] \in 1..Len(q) THEN m[2] \o q[m[1]] ELSE m[2]) \in V
    OBVIOUS
  <2>1. CASE m[1] \in 1..Len(q)
    <3>1. q[m[1]] \in Seq(S) /\ m[2] \in Seq(S)
      BY <2>1, ElementOfSeq
    <3> QED
      BY <2>1, <3>1, ConcatProperties
  <2>2. CASE m[1] \notin 1..Len(q)
    BY <2>2
  <2> QED
    BY <2>1, <2>2
<1>3. PICK c : Recurs(c, V, <<>>, step)
  <2> HIDE DEF V, step
  <2> QED
    BY <1>1, <1>2, RecursiveFunction
<1>4. c \in [Nat -> V] /\ \A n \in Nat : c[n] = IF n = 0 THEN <<>> ELSE step[<<n, c[n - 1]>>]
  <2> HIDE DEF step, V
  <2> QED
    BY <1>3 DEF Recurs
<1>5. c[0] = <<>>
  BY <1>4
<1>6. ASSUME NEW n \in 1..Len(q) PROVE c[n] = c[n - 1] \o q[n]
  <2>1. n \in Nat \ {0} /\ n - 1 \in Nat
    OBVIOUS
  <2>2. c[n - 1] \in V
    BY <1>4, <2>1
  <2>3. <<n, c[n - 1]>> \in (Nat \ {0}) \X V
    BY <2>1, <2>2
  <2>4. step[<<n, c[n - 1]>>] = c[n - 1] \o q[n]
    <3> HIDE DEF V
    <3> QED
      BY <2>3
  <2> HIDE DEF step, V
  <2> QED
    BY <1>4, <2>1, <2>4
<1> QED
  BY <1>4, <1>5, <1>6 DEF Gathers

LEMMA NothingIn ==
  ASSUME NEW V, NEW q \in Seq(V), Len(q) = 0
  PROVE  q = <<>>
BY EmptySeq

LEMMA MembersOf ==
  ASSUME NEW S, NEW q \in Seq(Seq(S))
  PROVE  \A n \in 1..Len(q) : q[n] \in Seq(S)
<1> DEFINE V == Seq(S)
<1>1. q \in Seq(V)
  OBVIOUS
<1> HIDE DEF V
<1>2. \A n \in 1..Len(q) : q[n] \in V
  BY <1>1, ElementOfSeq
<1> QED
  BY <1>2 DEF V

LEMMA FlattenGathers ==
  ASSUME NEW S, NEW q \in Seq(Seq(S)), NEW c, Gathers(c, q, S)
  PROVE  FlattenSeq(q) = c[Len(q)]
<1> DEFINE N == Len(q)
           IsFlat(f) == f = [i \in 1..Len(q) |-> IF i = 1 THEN q[i] ELSE f[i - 1] \o q[i]]
           F == CHOOSE f : IsFlat(f)
<1>1. N \in Nat /\ c[0] = <<>> /\ c \in [Nat -> Seq(S)]
      /\ \A n \in 1..N : c[n] = c[n - 1] \o q[n] /\ q[n] \in Seq(S)
  BY MembersOf, LenProperties DEF Gathers
<1>2. CASE N = 0
  <2>1. q = <<>>
    BY <1>2, NothingIn
  <2>2. FlattenSeq(q) = q
    BY <1>2 DEF FlattenSeq
  <2> QED
    BY <1>1, <1>2, <2>1, <2>2
<1>3. CASE N # 0
  <2>1. \A n \in 1..N : c[n] = IF n = 1 THEN q[n] ELSE c[n - 1] \o q[n]
    <3> TAKE n \in 1..N
    <3>1. CASE n = 1
      <4>0. n - 1 = 0
        BY <3>1
      <4>1. c[n] = <<>> \o q[n] /\ q[n] \in Seq(S)
        <5> HIDE DEF N
        <5> QED
          BY <1>1, <4>0
      <4>2. <<>> \o q[n] = q[n]
        BY <4>1, ConcatEmptySeq
      <4> QED
        BY <3>1, <4>1, <4>2
    <3>2. CASE n # 1
      BY <1>1, <3>2
    <3> QED
      BY <3>1, <3>2
  <2>2. IsFlat([i \in 1..Len(q) |-> c[i]])
    <3> DEFINE d == [i \in 1..Len(q) |-> c[i]]
    <3>1. ASSUME NEW i \in 1..Len(q)
          PROVE  d[i] = IF i = 1 THEN q[i] ELSE d[i - 1] \o q[i]
      <4>1. CASE i = 1
        BY <2>1, <4>1
      <4>2. CASE i # 1
        <5>1. i - 1 \in 1..Len(q)
          BY <1>1, <4>2
        <5> QED
          BY <2>1, <4>2, <5>1
      <4> QED
        BY <4>1, <4>2
    <3>2. d = [i \in 1..Len(q) |-> d[i]]
      OBVIOUS
    <3> HIDE DEF d
    <3>3. IsFlat(d)
      BY <3>1, <3>2
    <3> QED
      BY <3>3 DEF d
  <2> HIDE DEF IsFlat
  <2>3. IsFlat(F)
    BY <2>2
  <2> HIDE DEF F
  <2>4. \A i \in 1..N : F[i] = IF i = 1 THEN q[i] ELSE F[i - 1] \o q[i]
    BY <2>3 DEF IsFlat
  <2> DEFINE T == {n \in Nat : n + 1 <= N => F[n + 1] = c[n + 1]}
  <2>5. 0 \in T
    <3>1. 0 + 1 = 1 /\ 1 \in 1..N
      BY <1>1, <1>3
    <3>2. F[1] = c[1]
      BY <2>1, <2>4, <3>1
    <3> QED
      BY <3>1, <3>2
  <2>6. ASSUME NEW n \in Nat, n \in T PROVE n + 1 \in T
    <3> SUFFICES ASSUME (n + 1) + 1 <= N PROVE F[(n + 1) + 1] = c[(n + 1) + 1]
      OBVIOUS
    <3> DEFINE k == (n + 1) + 1
    <3> HIDE DEF N
    <3>1. k \in 1..N /\ k # 1 /\ k - 1 = n + 1 /\ n + 1 <= N
      BY <1>1
    <3>2. F[n + 1] = c[n + 1]
      BY <2>6, <3>1
    <3> HIDE DEF k
    <3>3. F[k] = F[k - 1] \o q[k] /\ c[k] = c[k - 1] \o q[k]
      BY <2>1, <2>4, <3>1
    <3>4. F[k] = c[k]
      BY <3>1, <3>2, <3>3
    <3> QED
      BY <3>4 DEF k
  <2>7. \A n \in Nat : n \in T
    <3> HIDE DEF T
    <3> QED
      BY <2>5, <2>6, Induction
  <2>8. F[N] = c[N]
    <3>1. N - 1 \in Nat /\ (N - 1) + 1 = N
      BY <1>1, <1>3
    <3>2. N - 1 \in T
      BY <2>7, <3>1
    <3> QED
      BY <3>1, <3>2
  <2>9. FlattenSeq(q) = F[N]
    BY <1>3 DEF FlattenSeq, F, IsFlat
  <2> QED
    BY <2>8, <2>9
<1> QED
  BY <1>2, <1>3

LEMMA FlattenEmpty == FlattenSeq(<<>>) = <<>>
BY DEF FlattenSeq

LEMMA FlattenTyped ==
  ASSUME NEW S, NEW q \in Seq(Seq(S))
  PROVE  FlattenSeq(q) \in Seq(S)
<1>1. PICK c : Gathers(c, q, S)
  BY GathersExists
<1>2. FlattenSeq(q) = c[Len(q)] /\ Len(q) \in Nat
  BY <1>1, FlattenGathers, LenProperties
<1> QED
  BY <1>1, <1>2 DEF Gathers

LEMMA FlattenAppend ==
  ASSUME NEW S, NEW q \in Seq(Seq(S)), NEW s \in Seq(S)
  PROVE  FlattenSeq(Append(q, s)) = FlattenSeq(q) \o s
<1> DEFINE r == Append(q, s)
<1>1. r \in Seq(Seq(S)) /\ Len(q) \in Nat /\ Len(r) = Len(q) + 1 /\ r[Len(q) + 1] = s
      /\ \A n \in 1..Len(q) : r[n] = q[n]
  BY AppendProperties, LenProperties
<1> HIDE DEF r
<1>2. PICK c : Gathers(c, r, S)
  BY <1>1, GathersExists
<1>3. Gathers(c, q, S)
  <2>1. ASSUME NEW n \in 1..Len(q) PROVE c[n] = c[n - 1] \o q[n]
    <3>1. n \in 1..Len(r) /\ r[n] = q[n]
      BY <1>1
    <3> QED
      BY <1>2, <3>1 DEF Gathers
  <2> QED
    BY <1>2, <2>1 DEF Gathers
<1>4. FlattenSeq(r) = c[Len(r)] /\ FlattenSeq(q) = c[Len(q)]
  BY <1>1, <1>2, <1>3, FlattenGathers
<1>5. c[Len(q) + 1] = c[Len(q)] \o s
  <2>1. Len(q) + 1 \in 1..Len(r) /\ (Len(q) + 1) - 1 = Len(q)
    BY <1>1
  <2> QED
    BY <1>1, <1>2, <2>1 DEF Gathers
<1> QED
  BY <1>1, <1>4, <1>5 DEF r

LEMMA FlattenConcat ==
  ASSUME NEW S, NEW q \in Seq(Seq(S)), NEW r \in Seq(Seq(S))
  PROVE  FlattenSeq(q \o r) = FlattenSeq(q) \o FlattenSeq(r)
<1> DEFINE b == Len(q)
           m == Len(r)
           t == q \o r
<1>1. /\ t \in Seq(Seq(S)) /\ b \in Nat /\ m \in Nat /\ Len(t) = b + m
      /\ \A n \in 1..b : t[n] = q[n]
      /\ \A n \in b + 1..b + m : t[n] = r[n - b]
  BY ConcatProperties, LenProperties
<1> HIDE DEF t, b, m
<1>2. PICK c : Gathers(c, t, S)
  BY <1>1, GathersExists
<1>3. PICK d : Gathers(d, r, S)
  BY GathersExists
<1>4. Gathers(c, q, S)
  <2>1. ASSUME NEW n \in 1..b PROVE c[n] = c[n - 1] \o q[n]
    <3>1. n \in 1..Len(t) /\ t[n] = q[n]
      BY <1>1
    <3> QED
      BY <1>2, <3>1 DEF Gathers
  <2> QED
    BY <1>2, <2>1 DEF Gathers, b
<1>5. FlattenSeq(t) = c[b + m] /\ FlattenSeq(q) = c[b] /\ FlattenSeq(r) = d[m]
  BY <1>1, <1>2, <1>3, <1>4, FlattenGathers DEF b, m
<1> DEFINE T == {n \in Nat : n <= m => c[b + n] = c[b] \o d[n]}
<1>6. c \in [Nat -> Seq(S)] /\ d \in [Nat -> Seq(S)] /\ d[0] = <<>>
  BY <1>2, <1>3 DEF Gathers
<1>7. 0 \in T
  <2>1. c[b] \in Seq(S)
    BY <1>1, <1>6
  <2>2. c[b] \o <<>> = c[b] /\ b + 0 = b
    BY <1>1, <2>1
  <2> QED
    BY <1>6, <2>2
<1>8. ASSUME NEW n \in Nat, n \in T PROVE n + 1 \in T
  <2> SUFFICES (n + 1 <= m) => (c[b + (n + 1)] = c[b] \o d[n + 1])
    <3>1. n + 1 \in Nat
      OBVIOUS
    <3> QED
      BY <3>1
  <2> SUFFICES ASSUME n + 1 <= m PROVE c[b + (n + 1)] = c[b] \o d[n + 1]
    OBVIOUS
  <2> DEFINE k == b + (n + 1)
             j == n + 1
  <2>1. k \in 1..b + m /\ k \in b + 1..b + m /\ k - 1 = b + n /\ k - b = j
        /\ j \in 1..m /\ j - 1 = n /\ n <= m
    BY <1>1
  <2>2. c[b + n] = c[b] \o d[n]
    BY <1>8, <2>1
  <2> HIDE DEF k, j
  <2>3. c[k] = c[b + n] \o t[k] /\ t[k] = r[j]
    BY <1>1, <1>2, <2>1 DEF Gathers
  <2>4. d[j] = d[n] \o r[j]
    BY <1>3, <2>1 DEF Gathers, m
  <2>5. c[b] \in Seq(S) /\ d[n] \in Seq(S) /\ r[j] \in Seq(S)
    BY <1>1, <1>6, <2>1, ElementOfSeq DEF m
  <2>6. (c[b] \o d[n]) \o r[j] = c[b] \o (d[n] \o r[j])
    <3>1. \A s, u, v \in Seq(S) : (s \o u) \o v = s \o (u \o v)
      BY ConcatAssociative
    <3> QED
      BY <2>5, <3>1
  <2>7. c[k] = c[b] \o d[j]
    BY <2>2, <2>3, <2>4, <2>6
  <2> QED
    BY <2>7 DEF k, j
<1>9. \A n \in Nat : n \in T
  <2> HIDE DEF T
  <2> QED
    BY <1>7, <1>8, Induction
<1>10. c[b + m] = c[b] \o d[m]
  <2>1. m \in T
    BY <1>1, <1>9
  <2>2. m <= m
    BY <1>1
  <2> QED
    BY <2>1, <2>2
<1> QED
  BY <1>5, <1>10 DEF t
-----------------------------------------------------------------------------
(* What is computed from the leaves of a tree to its roots: Leaves, Eval   *)
(* and Postorder give each node a value made of those of its children,     *)
(* which are older nodes, so that a new node changes none of them.         *)

\* children are older than their parent, and a node whose value is that of its
\* first child has one
Older(tree) ==
  \A n \in 1..Len(tree) :
    /\ \A i \in DOMAIN tree[n].childs : tree[n].childs[i] \in 1..n - 1
    /\ tree[n].production \in {NoProd} \cup Handled \/ 1 \in DOMAIN tree[n].childs

\* node n is the same in both trees, and so are its children
SameUnder(tree, grown, n) ==
  /\ grown[n] = tree[n]
  /\ \A i \in DOMAIN tree[n].childs :
       tree[n].childs[i] \in 1..n - 1 /\ grown[tree[n].childs[i]] = tree[tree[n].childs[i]]
  /\ tree[n].production \in {NoProd} \cup Handled \/ 1 \in DOMAIN tree[n].childs

LEMMA AppendSame ==
  ASSUME NEW T, NEW tree \in Seq(T), NEW node \in T, Older(Append(tree, node))
  PROVE  /\ Len(tree) \in Nat /\ DOMAIN tree = 1..Len(tree)
         /\ DOMAIN Append(tree, node) = 1..Len(tree) + 1
         /\ \A n \in 1..Len(tree) : SameUnder(tree, Append(tree, node), n)
         /\ \A n \in 1..Len(tree) + 1 : SameUnder(Append(tree, node), Append(tree, node), n)
<1> DEFINE grown == Append(tree, node)
           N     == Len(tree)
<1>1. /\ N \in Nat /\ DOMAIN tree = 1..N
      /\ grown \in Seq(T) /\ Len(grown) = N + 1 /\ \A n \in 1..N : grown[n] = tree[n]
  BY AppendProperties, LenProperties
<1>2. DOMAIN grown = 1..N + 1
  BY <1>1, LenProperties
<1>3. \A n \in 1..N + 1 :
        /\ \A i \in DOMAIN grown[n].childs : grown[n].childs[i] \in 1..n - 1
        /\ grown[n].production \in {NoProd} \cup Handled \/ 1 \in DOMAIN grown[n].childs
  BY <1>1 DEF Older
<1> HIDE DEF grown, N
<1>4. ASSUME NEW n \in 1..N PROVE SameUnder(tree, grown, n)
  <2>1. n \in 1..N + 1 /\ grown[n] = tree[n] /\ \A k \in 1..n - 1 : k \in 1..N
    BY <1>1
  <2> QED
    BY <1>1, <1>3, <2>1 DEF SameUnder
<1>5. ASSUME NEW n \in 1..N + 1 PROVE SameUnder(grown, grown, n)
  BY <1>3 DEF SameUnder
<1> QED
  BY <1>1, <1>2, <1>4, <1>5 DEF grown, N

\* f and g agree on the nodes that are older than n
AgreeBelow(n, f, g) == \A k \in 1..n - 1 : g[k] = f[k]

\* Functions that agree at a node when they agree at all older ones agree.
LEMMA FoldsAgree ==
  ASSUME NEW N \in Nat, NEW f, NEW g,
         \A n \in 1..N : AgreeBelow(n, f, g) => g[n] = f[n]
  PROVE  \A n \in 1..N : g[n] = f[n]
<1> DEFINE S == {n \in Nat : n \in 1..N => g[n] = f[n]}
<1>1. ASSUME NEW n \in Nat, \A k \in Nat : k < n => k \in S PROVE n \in S
  <2>1. CASE n \in 1..N
    <3>1. \A k \in 1..n - 1 : k \in Nat /\ k < n /\ k \in 1..N
      BY <2>1
    <3>2. AgreeBelow(n, f, g)
      BY <1>1, <3>1 DEF AgreeBelow
    <3> QED
      BY <2>1, <3>2
  <2>2. CASE n \notin 1..N
    BY <2>2
  <2> QED
    BY <2>1, <2>2
<1>2. \A n \in Nat : n \in S
  <2> HIDE DEF S
  <2> QED
    BY <1>1, StrongInduction
<1> QED
  BY <1>2

\* the three computations, and what each makes of node n when f has the results for
\* its children
Computations == {"leaves", "value", "calls"}

Of(what, tree) == CASE what = "leaves" -> Leaves(tree)
                    [] what = "value"  -> Eval(tree)
                    [] what = "calls"  -> Postorder(tree)

OfAll(of, ptrs) == [i \in DOMAIN ptrs |-> of[ptrs[i]]]

LeavesAt(tree, n, f) == IF tree[n].production = NoProd THEN <<tree[n].token>>
                        ELSE FlattenSeq(OfAll(f, tree[n].childs))

ValueAt(tree, n, f) ==
  LET p   == tree[n].production
      chs == tree[n].childs
  IN IF p = NoProd THEN NullValue
     ELSE IF p \in Handled
     THEN Term(p, [i \in DOMAIN chs |-> IF tree[chs[i]].production = NoProd
                                        THEN Seen(tree[chs[i]].token) ELSE f[chs[i]]])
     ELSE f[chs[1]]

CallsAt(tree, n, f) ==
  FlattenSeq(OfAll(f, tree[n].childs))
  \o (IF tree[n].production \in Handled THEN <<tree[n].production>> ELSE <<>>)

At(what, tree, n, f) == CASE what = "leaves" -> LeavesAt(tree, n, f)
                          [] what = "value"  -> ValueAt(tree, n, f)
                          [] what = "calls"  -> CallsAt(tree, n, f)

Computes(what, tree, f) == f = [n \in DOMAIN tree |-> At(what, tree, n, f)]

LEMMA Unfold ==
  ASSUME NEW what \in Computations, NEW tree, NEW f, Computes(what, tree, f)
  PROVE  Computes(what, tree, Of(what, tree))
<1>1. CASE what = "leaves"
  <2>1. \A g : Computes(what, tree, g) <=> g = [n \in DOMAIN tree |->
          IF tree[n].production = NoProd THEN <<tree[n].token>>
          ELSE FlattenSeq([i \in DOMAIN tree[n].childs |-> g[tree[n].childs[i]]])]
    BY <1>1 DEF Computes, At, LeavesAt, OfAll
  <2>2. Of(what, tree) = Leaves(tree)
    BY <1>1 DEF Of
  <2> QED
    BY <2>1, <2>2 DEF Leaves
<1>2. CASE what = "value"
  <2>1. \A g : Computes(what, tree, g) <=> g = [n \in DOMAIN tree |->
          LET p   == tree[n].production
              chs == tree[n].childs
          IN IF p = NoProd THEN NullValue
             ELSE IF p \in Handled
             THEN Term(p, [i \in DOMAIN chs |-> IF tree[chs[i]].production = NoProd
                                                THEN Seen(tree[chs[i]].token) ELSE g[chs[i]]])
             ELSE g[chs[1]]]
    BY <1>2 DEF Computes, At, ValueAt
  <2>2. Of(what, tree) = Eval(tree)
    BY <1>2 DEF Of
  <2> QED
    BY <2>1, <2>2 DEF Eval
<1>3. CASE what = "calls"
  <2>1. \A g : Computes(what, tree, g) <=> g = [n \in DOMAIN tree |->
          FlattenSeq([i \in DOMAIN tree[n].childs |-> g[tree[n].childs[i]]])
          \o (IF tree[n].production \in Handled THEN <<tree[n].production>> ELSE <<>>)]
    BY <1>3 DEF Computes, At, CallsAt, OfAll
  <2>2. Of(what, tree) = Postorder(tree)
    BY <1>3 DEF Of
  <2> QED
    BY <2>1, <2>2 DEF Postorder
<1> QED
  BY <1>1, <1>2, <1>3 DEF Computations

LEMMA SameResult ==
  ASSUME NEW what \in Computations, NEW tree, NEW grown, NEW n, SameUnder(tree, grown, n),
         NEW f, NEW g, AgreeBelow(n, f, g)
  PROVE  At(what, grown, n, g) = At(what, tree, n, f)
<1>1. /\ grown[n] = tree[n]
      /\ \A i \in DOMAIN tree[n].childs : /\ g[tree[n].childs[i]] = f[tree[n].childs[i]]
                                         /\ grown[tree[n].childs[i]] = tree[tree[n].childs[i]]
      /\ tree[n].production \in {NoProd} \cup Handled \/ 1 \in DOMAIN tree[n].childs
  BY DEF SameUnder, AgreeBelow
<1>2. OfAll(g, grown[n].childs) = OfAll(f, tree[n].childs)
  BY <1>1 DEF OfAll
<1>3. LeavesAt(grown, n, g) = LeavesAt(tree, n, f) /\ CallsAt(grown, n, g) = CallsAt(tree, n, f)
  BY <1>1, <1>2 DEF LeavesAt, CallsAt
<1>4. ValueAt(grown, n, g) = ValueAt(tree, n, f)
  <2> DEFINE chs == tree[n].childs
             args == [i \in DOMAIN chs |-> IF tree[chs[i]].production = NoProd
                                           THEN Seen(tree[chs[i]].token) ELSE f[chs[i]]]
             args2 == [i \in DOMAIN chs |-> IF grown[chs[i]].production = NoProd
                                            THEN Seen(grown[chs[i]].token) ELSE g[chs[i]]]
  <2>1. args2 = args
    BY <1>1
  <2>2. ValueAt(tree, n, f) =
          IF tree[n].production = NoProd THEN NullValue
          ELSE IF tree[n].production \in Handled THEN Term(tree[n].production, args)
          ELSE f[chs[1]]
    BY DEF ValueAt
  <2>3. ValueAt(grown, n, g) =
          IF tree[n].production = NoProd THEN NullValue
          ELSE IF tree[n].production \in Handled THEN Term(tree[n].production, args2)
          ELSE g[chs[1]]
    BY <1>1 DEF ValueAt
  <2> HIDE DEF args, args2
  <2> QED
    BY <1>1, <2>1, <2>2, <2>3
<1> QED
  BY <1>3, <1>4 DEF At, Computations

\* The new node changes none of the results there are.
LEMMA ResultsStay ==
  ASSUME NEW what \in Computations, NEW T, NEW tree \in Seq(T), NEW node \in T, Older(Append(tree, node)),
         Computes(what, tree, Of(what, tree))
  PROVE  /\ Computes(what, Append(tree, node), Of(what, Append(tree, node)))
         /\ \A n \in 1..Len(tree) : Of(what, Append(tree, node))[n] = Of(what, tree)[n]
<1> DEFINE grown == Append(tree, node)
           N     == Len(tree)
           old   == Of(what, tree)
           h     == [n \in 1..N + 1 |-> IF n <= N THEN old[n] ELSE At(what, grown, n, old)]
<1>1. /\ N \in Nat /\ DOMAIN tree = 1..N /\ DOMAIN grown = 1..N + 1
      /\ \A n \in 1..N : SameUnder(tree, grown, n)
      /\ \A n \in 1..N + 1 : SameUnder(grown, grown, n)
  BY AppendSame
<1>2. \A n \in 1..N : old[n] = At(what, tree, n, old)
  BY <1>1 DEF Computes
<1> HIDE DEF grown, N, old
<1>3. \A n \in 1..N : h[n] = old[n]
  BY <1>1
<1>4. ASSUME NEW n \in 1..N + 1 PROVE h[n] = At(what, grown, n, h)
  <2>1. AgreeBelow(n, old, h)
    BY <1>1, <1>3 DEF AgreeBelow
  <2>2. CASE n \in 1..N
    <3>1. At(what, grown, n, h) = At(what, tree, n, old)
      BY <1>1, <2>1, <2>2, SameResult
    <3> QED
      BY <1>2, <1>3, <2>2, <3>1
  <2>3. CASE n = N + 1
    <3>1. SameUnder(grown, grown, n)
      BY <1>1, <1>4
    <3>3. At(what, grown, n, h) = At(what, grown, n, old)
      BY <2>1, <3>1, SameResult
    <3>2. h[n] = At(what, grown, n, old)
      BY <1>1, <2>3
    <3> QED
      BY <3>2, <3>3
  <2> QED
    BY <1>1, <2>2, <2>3
<1>5. Computes(what, grown, h)
  <2>1. h = [n \in 1..N + 1 |-> h[n]]
    OBVIOUS
  <2> HIDE DEF h
  <2> QED
    BY <1>1, <1>4, <2>1 DEF Computes
<1> HIDE DEF h
<1>6. Computes(what, grown, Of(what, grown))
  BY <1>5, Unfold
<1> DEFINE new == Of(what, grown)
<1>7. \A n \in 1..N : new[n] = At(what, grown, n, new)
  BY <1>1, <1>6 DEF Computes
<1> HIDE DEF new
<1>8. ASSUME NEW n \in 1..N PROVE AgreeBelow(n, old, new) => new[n] = old[n]
  <2> SUFFICES ASSUME AgreeBelow(n, old, new) PROVE new[n] = old[n]
    OBVIOUS
  <2>0. SameUnder(tree, grown, n)
    BY <1>1
  <2>1. At(what, grown, n, new) = At(what, tree, n, old)
    BY <2>0, SameResult
  <2> QED
    BY <1>2, <1>7, <2>1
<1>9. \A n \in 1..N : new[n] = old[n]
  <2>1. N \in Nat
    BY <1>1
  <2> QED
    BY <1>8, <2>1, FoldsAgree
<1> QED
  BY <1>6, <1>9 DEF new, old, grown, N

LEMMA NoResults ==
  ASSUME NEW what \in Computations
  PROVE  Computes(what, <<>>, Of(what, <<>>))
<1> DEFINE f == [n \in DOMAIN <<>> |-> At(what, <<>>, n, <<>>)]
<1>1. Computes(what, <<>>, f)
  BY DEF Computes
<1> QED
  BY <1>1, Unfold
-----------------------------------------------------------------------------
(* What the nodes on the stack have, from left to right.                   *)

AlongOf(of, ptrs) == FlattenSeq([i \in 1..Len(ptrs) - 1 |-> of[ptrs[i + 1]]])

\* what of has for the pointers above the first is a sequence over S
HaveIn(of, ptrs, S) == \A i \in 2..Len(ptrs) : of[ptrs[i]] \in Seq(S)

LEMMA AlongSame ==
  ASSUME NEW of, NEW of2, NEW ptrs \in Seq(Nat),
         \A i \in 2..Len(ptrs) : of2[ptrs[i]] = of[ptrs[i]]
  PROVE  AlongOf(of2, ptrs) = AlongOf(of, ptrs)
<1>1. Len(ptrs) \in Nat
  BY LenProperties
<1>2. \A i \in 1..Len(ptrs) - 1 : i + 1 \in 2..Len(ptrs)
  BY <1>1
<1>3. [i \in 1..Len(ptrs) - 1 |-> of2[ptrs[i + 1]]] = [i \in 1..Len(ptrs) - 1 |-> of[ptrs[i + 1]]]
  BY <1>2
<1> QED
  BY <1>3 DEF AlongOf

\* chs are the pointers above the first b
Above(ptrs, b, chs) == /\ chs \in Seq(Nat) /\ Len(chs) = Len(ptrs) - b
                       /\ \A i \in 1..Len(ptrs) - b : chs[i] = ptrs[b + i]

LEMMA FunctionIsSeq ==
  ASSUME NEW V, NEW k \in Nat, NEW q \in [1..k -> V]
  PROVE  q \in Seq(V) /\ Len(q) = k
BY SeqDef

LEMMA AlongTyped ==
  ASSUME NEW S, NEW of, NEW ptrs \in Seq(Nat), HaveIn(of, ptrs, S)
  PROVE  AlongOf(of, ptrs) \in Seq(S)
<1> DEFINE n == Len(ptrs)
           V == Seq(S)
           t == [i \in 1..n - 1 |-> of[ptrs[i + 1]]]
<1>1. n \in Nat /\ \A i \in 1..n - 1 : i + 1 \in 2..n
  BY LenProperties
<1>2. \A i \in 1..n - 1 : t[i] \in V
  BY <1>1 DEF HaveIn
<1>3. t \in Seq(V)
  <2>1. CASE n = 0
    BY <2>1
  <2>2. CASE n # 0
    <3>1. n - 1 \in Nat
      BY <1>1, <2>2
    <3>2. t \in [1..n - 1 -> V]
      BY <1>2
    <3> HIDE DEF t, V, n
    <3> QED
      BY <3>1, <3>2, FunctionIsSeq
  <2> QED
    BY <2>1, <2>2
<1>4. t \in Seq(Seq(S))
  BY <1>3
<1> HIDE DEF t
<1>5. FlattenSeq(t) \in Seq(S)
  BY <1>4, FlattenTyped
<1> QED
  BY <1>5 DEF AlongOf, t

LEMMA AlongSplit ==
  ASSUME NEW S, NEW of, NEW ptrs \in Seq(Nat), HaveIn(of, ptrs, S), NEW b \in 1..Len(ptrs),
         NEW chs, Above(ptrs, b, chs)
  PROVE  /\ AlongOf(of, ptrs) = AlongOf(of, SubSeq(ptrs, 1, b))
                                \o FlattenSeq(OfAll(of, chs))
         /\ AlongOf(of, SubSeq(ptrs, 1, b)) \in Seq(S)
         /\ FlattenSeq(OfAll(of, chs)) \in Seq(S)
<1> DEFINE n     == Len(ptrs)
           under == SubSeq(ptrs, 1, b)
           q     == [i \in 1..Len(under) - 1 |-> of[under[i + 1]]]
           r     == OfAll(of, chs)
           t     == [i \in 1..n - 1 |-> of[ptrs[i + 1]]]
<1>1. /\ n \in Nat /\ b \in Nat /\ n - b \in Nat /\ b - 1 \in Nat /\ DOMAIN chs = 1..n - b
      /\ chs \in Seq(Nat) /\ \A i \in 1..n - b : chs[i] = ptrs[b + i]
  BY LenProperties DEF Above
<1>2. /\ Len(under) = b /\ \A i \in 1..b : under[i] = ptrs[i]
  BY <1>1, SubSeqProperties
<1>3. /\ q \in Seq(Seq(S)) /\ Len(q) = b - 1
      /\ \A i \in 1..b - 1 : q[i] = of[ptrs[i + 1]]
  <2>1. ASSUME NEW i \in 1..b - 1
        PROVE  i + 1 \in 1..b /\ i + 1 \in 2..n /\ of[under[i + 1]] = of[ptrs[i + 1]]
    <3>1. i + 1 \in 1..b /\ i + 1 \in 2..n
      BY <1>1
    <3>2. under[i + 1] = ptrs[i + 1]
      BY <1>2, <3>1
    <3> QED
      BY <3>1, <3>2
  <2>2. \A i \in 1..b - 1 : of[under[i + 1]] \in Seq(S)
    BY <2>1 DEF HaveIn
  <2> DEFINE V == Seq(S)
  <2>3. q = [i \in 1..b - 1 |-> of[under[i + 1]]]
    BY <1>2
  <2>4. q \in [1..b - 1 -> V]
    BY <2>2, <2>3
  <2> HIDE DEF q, under, V, n
  <2>5. q \in Seq(V) /\ Len(q) = b - 1
    BY <1>1, <2>4, FunctionIsSeq
  <2> QED
    BY <2>1, <2>3, <2>5 DEF V
<1>4. /\ r \in Seq(Seq(S)) /\ Len(r) = n - b
      /\ \A i \in 1..n - b : r[i] = of[ptrs[b + i]]
  <2>1. ASSUME NEW i \in 1..n - b PROVE b + i \in 2..n /\ of[chs[i]] = of[ptrs[b + i]]
    <3> HIDE DEF n
    <3>1. b + i \in 2..n
      BY <1>1
    <3>2. chs[i] = ptrs[b + i]
      BY <1>1
    <3> QED
      BY <3>1, <3>2
  <2>2. \A i \in 1..n - b : of[chs[i]] \in Seq(S)
    BY <2>1 DEF HaveIn
  <2> DEFINE V == Seq(S)
             l == n - b
  <2>3. r \in [1..l -> V]
    BY <1>1, <2>2 DEF OfAll
  <2> HIDE DEF r, V, l
  <2>4. r \in Seq(V) /\ Len(r) = l
    BY <1>1, <2>3, FunctionIsSeq DEF l
  <2> QED
    BY <1>1, <2>1, <2>4 DEF V, l, r, OfAll
<1>5. q \o r = t
  <2>1. /\ q \o r \in Seq(Seq(S)) /\ Len(q \o r) = (b - 1) + (n - b)
        /\ \A i \in 1..(b - 1) + (n - b) :
             (q \o r)[i] = IF i <= b - 1 THEN q[i] ELSE r[i - (b - 1)]
    <3> HIDE DEF q, r, n
    <3> DEFINE V == Seq(S)
    <3>1. q \in Seq(V) /\ r \in Seq(V)
      BY <1>3, <1>4
    <3> HIDE DEF V
    <3>2. /\ q \o r \in Seq(V) /\ Len(q \o r) = Len(q) + Len(r)
          /\ \A i \in 1..Len(q) + Len(r) :
               (q \o r)[i] = IF i <= Len(q) THEN q[i] ELSE r[i - Len(q)]
      BY <3>1, ConcatProperties
    <3> QED
      BY <1>3, <1>4, <3>2 DEF V
  <2> HIDE DEF q, r
  <2>2. (b - 1) + (n - b) = n - 1
    BY <1>1
  <2>3. ASSUME NEW i \in 1..n - 1 PROVE (q \o r)[i] = of[ptrs[i + 1]]
    <3> HIDE DEF n
    <3>0. i \in 1..(b - 1) + (n - b)
      BY <2>2
    <3>1. CASE i <= b - 1
      <4>1. i \in 1..b - 1
        BY <1>1, <3>1
      <4>2. (q \o r)[i] = q[i]
        BY <2>1, <3>0, <3>1
      <4> QED
        BY <1>3, <4>1, <4>2
    <3>2. CASE ~(i <= b - 1)
      <4> DEFINE j == i - (b - 1)
      <4>1. j \in 1..n - b /\ b + j = i + 1
        BY <1>1, <3>2
      <4>2. (q \o r)[i] = r[j]
        BY <2>1, <3>0, <3>2
      <4> HIDE DEF j
      <4>3. r[j] = of[ptrs[b + j]]
        BY <1>4, <4>1
      <4> QED
        BY <4>1, <4>2, <4>3
    <3> QED
      BY <3>1, <3>2
  <2>4. q \o r = [i \in 1..n - 1 |-> (q \o r)[i]]
    <3> DEFINE w == q \o r
    <3>1. w \in Seq(Seq(S)) /\ Len(w) = n - 1
      BY <2>1, <2>2
    <3> HIDE DEF w
    <3>2. DOMAIN w = 1..n - 1 /\ w = [i \in DOMAIN w |-> w[i]]
      BY <3>1
    <3> QED
      BY <3>2 DEF w
  <2> QED
    BY <2>3, <2>4
<1>6. /\ FlattenSeq(q \o r) = FlattenSeq(q) \o FlattenSeq(r)
      /\ FlattenSeq(q) \in Seq(S) /\ FlattenSeq(r) \in Seq(S)
  <2> HIDE DEF q, r
  <2> QED
    BY <1>3, <1>4, FlattenConcat, FlattenTyped
<1>7. AlongOf(of, ptrs) = FlattenSeq(t) /\ AlongOf(of, under) = FlattenSeq(q)
  BY DEF AlongOf
<1> HIDE DEF q, t, under
<1> QED
  BY <1>5, <1>6, <1>7 DEF under

LEMMA AlongPush ==
  ASSUME NEW S, NEW of, NEW ptrs \in Seq(Nat), Len(ptrs) \in Nat \ {0}, HaveIn(of, ptrs, S),
         NEW k \in Nat, of[k] \in Seq(S)
  PROVE  AlongOf(of, Append(ptrs, k)) = AlongOf(of, ptrs) \o of[k]
<1> DEFINE more == Append(ptrs, k)
           b    == Len(ptrs)
           r    == OfAll(of, <<k>>)
<1>1. /\ more \in Seq(Nat) /\ Len(more) = b + 1 /\ more[b + 1] = k
      /\ \A i \in 1..b : more[i] = ptrs[i]
      /\ SubSeq(more, 1, b) = ptrs
  <2>1. /\ more \in Seq(Nat) /\ Len(more) = b + 1 /\ more[b + 1] = k
        /\ \A i \in 1..b : more[i] = ptrs[i]
    BY AppendProperties
  <2>2. /\ SubSeq(more, 1, b) \in Seq(Nat) /\ Len(SubSeq(more, 1, b)) = b
        /\ \A i \in 1..b : SubSeq(more, 1, b)[i] = more[i]
    <3> HIDE DEF more, b
    <3>1. b \in Nat /\ b = Len(ptrs)
      BY DEF b
    <3>2. \A i \in 1..b : more[i] \in Nat
      BY <2>1, <3>1, ElementOfSeq
    <3> QED
      BY <2>1, <3>1, <3>2, SubSeqProperties
  <2> HIDE DEF more
  <2> QED
    BY <2>1, <2>2, SeqEqual
<1> HIDE DEF more, b
<1>2. b \in Nat \ {0} /\ b = Len(ptrs)
  BY DEF b
<1>3. HaveIn(of, more, S)
  <2>1. ASSUME NEW i \in 2..Len(more) PROVE of[more[i]] \in Seq(S)
    <3>1. CASE i = b + 1
      BY <1>1, <3>1
    <3>2. CASE i # b + 1
      <4>1. i \in 2..Len(ptrs) /\ i \in 1..b
        BY <1>1, <1>2, <3>2
      <4> QED
        BY <1>1, <4>1 DEF HaveIn
    <3> QED
      BY <3>1, <3>2
  <2> QED
    BY <2>1 DEF HaveIn
<1>4. Above(more, b, <<k>>)
  <2>1. /\ <<k>> \in Seq(Nat) /\ Len(<<k>>) = Len(more) - b
        /\ \A i \in 1..Len(more) - b : <<k>>[i] = more[b + i]
    BY <1>1, <1>2
  <2> QED
    BY <2>1 DEF Above
<1>5. AlongOf(of, more) = AlongOf(of, SubSeq(more, 1, b)) \o FlattenSeq(r)
  <2> DEFINE chs == <<k>>
  <2>1. Above(more, b, chs)
    BY <1>4
  <2>2. b \in 1..Len(more)
    BY <1>1, <1>2
  <2> HIDE DEF chs
  <2>3. AlongOf(of, more) = AlongOf(of, SubSeq(more, 1, b))
                            \o FlattenSeq(OfAll(of, chs))
    <3>1. more \in Seq(Nat)
      BY <1>1
    <3> QED
      BY <1>3, <2>1, <2>2, <3>1, AlongSplit
  <2> QED
    BY <2>3 DEF chs
<1>6. FlattenSeq(r) = of[k]
  <2>1. r = Append(<<>>, of[k])
    BY DEF OfAll
  <2>2. FlattenSeq(Append(<<>>, of[k])) = FlattenSeq(<<>>) \o of[k]
    <3>1. <<>> \in Seq(Seq(S))
      OBVIOUS
    <3> QED
      BY <3>1, FlattenAppend
  <2>3. <<>> \o of[k] = of[k]
    BY ConcatEmptySeq
  <2> QED
    BY <2>1, <2>2, <2>3, FlattenEmpty
<1> QED
  BY <1>1, <1>5, <1>6 DEF more

LEMMA AlongOne ==
  ASSUME NEW S, NEW of, NEW ptrs \in Seq(Nat), Len(ptrs) = 2, of[ptrs[2]] \in Seq(S)
  PROVE  AlongOf(of, ptrs) = of[ptrs[2]]
<1> DEFINE x == of[ptrs[2]]
           t == [i \in 1..Len(ptrs) - 1 |-> of[ptrs[i + 1]]]
<1>1. t = Append(<<>>, x)
  <2>1. Len(ptrs) - 1 = 1 /\ 1 + 1 = 2
    OBVIOUS
  <2>2. t = [i \in 1..1 |-> x]
    BY <2>1
  <2> QED
    BY <2>2
<1>2. <<>> \in Seq(Seq(S)) /\ x \in Seq(S)
  OBVIOUS
<1> HIDE DEF x, t
<1>3. FlattenSeq(t) = FlattenSeq(<<>>) \o x /\ <<>> \o x = x
  BY <1>1, <1>2, FlattenAppend, ConcatEmptySeq
<1> QED
  BY <1>3, FlattenEmpty DEF AlongOf, t, x
-----------------------------------------------------------------------------
(* A node that is hung on the stack.                                       *)

\* leaves have no children
Bare(tree) == \A n \in 1..Len(tree) : tree[n].production = NoProd => tree[n].childs = <<>>

\* A shift and a reduction create a node for what is above the first b items, which
\* for a shift is nothing, and leave a pointer to it in its place.
Hung(node, b) ==
  /\ node \in TreeNodes /\ (node.production = NoProd => node.childs = <<>>)
  /\ nodes' = Append(nodes, node)
  /\ b \in 1..Len(node_of) /\ Above(node_of, b, node.childs)
  /\ node_of' = Append(SubSeq(node_of, 1, b), Len(nodes'))

LEMMA ShiftHangs ==
  ASSUME TreeInv, Shifted
  PROVE  Hung(Leaf(token'), Len(node_of))
<1>1. /\ node_of \in Seq(Nat) /\ Len(node_of) \in Nat /\ Len(node_of) = Len(stack)
      /\ stack \in Seq(StackItems) /\ stack # <<>>
  BY LenProperties DEF TreeInv, IInv, TypeOK, NodesTyped, InStep
<1>2. Len(node_of) \in 1..Len(node_of)
  BY <1>1, EmptySeq
<1>3. SubSeq(node_of, 1, Len(node_of)) = node_of
  BY <1>1, SubSeqFull
<1>4. Above(node_of, Len(node_of), <<>>)
  BY <1>1 DEF Above
<1>5. Leaf(token').production = NoProd /\ Leaf(token').childs = <<>>
  BY DEF Leaf
<1> QED
  BY <1>2, <1>3, <1>4, <1>5 DEF Hung, Shifted

LEMMA ReduceHangs ==
  ASSUME TreeInv, NEW p, NEW b, Reduced(p, b)
  PROVE  Hung(Inner(p, Childs), b)
<1>1. Len(node_of) = Len(stack)
  BY DEF TreeInv, InStep
<1>2. Inner(p, Childs).production = p /\ Inner(p, Childs).childs = Childs
  BY DEF Inner
<1>3. p # NoProd
  BY TablesTyped DEF Reduced, NoProd
<1>4. Above(node_of, b, Childs)
  BY <1>1 DEF Reduced, Above
<1> QED
  BY <1>1, <1>2, <1>3, <1>4 DEF Hung, Reduced

\* the computations that gather a sequence, what of, and what a node adds itself
Gathered == {"leaves", "calls"}

Kind(what) == IF what = "leaves" THEN Tokens ELSE ProdIdx

Own(what, node) ==
  IF what = "leaves" THEN IF node.production = NoProd THEN <<node.token>> ELSE <<>>
  ELSE IF node.production \in Handled THEN <<node.production>> ELSE <<>>

LEMMA OwnTyped ==
  ASSUME NEW what \in Gathered, NEW node \in TreeNodes
  PROVE  Own(what, node) \in Seq(Kind(what))
<1>1. CASE what = "leaves"
  <2>1. node.token \in Tokens /\ Kind(what) = Tokens
    BY <1>1 DEF TreeNodes, Kind
  <2> QED
    BY <1>1, <2>1 DEF Own
<1>2. CASE what = "calls"
  <2>1. Kind(what) = ProdIdx /\ Handled \subseteq ProdIdx
    BY <1>2, HandlersSet DEF Kind
  <2> QED
    BY <1>2, <2>1 DEF Own
<1> QED
  BY <1>1, <1>2 DEF Gathered

\* The nodes are a tree, and Leaves, Eval and Postorder are computed for it.
ComputedInv ==
  /\ TreeInv
  /\ Bare(nodes)
  /\ \A what \in Computations : Computes(what, nodes, Of(what, nodes))
  /\ \A what \in Gathered : \A n \in 1..Len(nodes) : Of(what, nodes)[n] \in Seq(Kind(what))

\* What is gathered at a node is that of its children, and then its own.
LEMMA AtNode ==
  ASSUME NEW what \in Gathered, NEW tree, NEW n, NEW f,
         tree[n] \in TreeNodes, tree[n].production = NoProd => tree[n].childs = <<>>,
         \A i \in DOMAIN tree[n].childs : f[tree[n].childs[i]] \in Seq(Kind(what))
  PROVE  /\ At(what, tree, n, f) = FlattenSeq(OfAll(f, tree[n].childs)) \o Own(what, tree[n])
         /\ At(what, tree, n, f) \in Seq(Kind(what))
<1> DEFINE node == tree[n]
           K    == Kind(what)
           m    == Len(node.childs)
           all  == OfAll(f, node.childs)
           V    == Seq(K)
<1>1. node \in TreeNodes /\ node.childs \in Seq(Nat)
  BY DEF TreeNodes
<1>2. DOMAIN node.childs = 1..m /\ m \in Nat
  BY <1>1, LenProperties
<1>3. all \in [1..m -> V]
  BY <1>2 DEF OfAll
<1>4. all \in Seq(V)
  <2> HIDE DEF all, V, m
  <2> QED
    BY <1>2, <1>3, FunctionIsSeq
<1>5. FlattenSeq(all) \in Seq(K)
  <2>1. all \in Seq(Seq(K))
    BY <1>4
  <2> HIDE DEF all, K
  <2> QED
    BY <2>1, FlattenTyped
<1>6. Own(what, node) \in Seq(K)
  BY <1>1, OwnTyped
<1>7. At(what, tree, n, f) = FlattenSeq(all) \o Own(what, node)
  <2>1. CASE what = "calls"
    BY <2>1 DEF At, CallsAt, Own
  <2>2. CASE what = "leaves" /\ node.production # NoProd
    <3>1. At(what, tree, n, f) = FlattenSeq(all) /\ Own(what, node) = <<>>
      BY <2>2 DEF At, LeavesAt, Own
    <3> HIDE DEF all, K
    <3> QED
      BY <1>5, <3>1, ConcatEmptySeq
  <2>3. CASE what = "leaves" /\ node.production = NoProd
    <3>1. At(what, tree, n, f) = <<node.token>> /\ Own(what, node) = <<node.token>>
      BY <2>3 DEF At, LeavesAt, Own
    <3>2. all = <<>>
      BY <2>3 DEF OfAll
    <3>3. <<>> \o Own(what, node) = Own(what, node)
      <4> HIDE DEF K, node
      <4> QED
        BY <1>6, ConcatEmptySeq
    <3> QED
      BY <3>1, <3>2, <3>3, FlattenEmpty
  <2> QED
    BY <2>1, <2>2, <2>3 DEF Gathered
<1>8. FlattenSeq(all) \o Own(what, node) \in Seq(K)
  <2> HIDE DEF all, K, node
  <2> QED
    BY <1>5, <1>6, ConcatProperties
<1> QED
  BY <1>7, <1>8

LEMMA FitsAreOlder ==
  ASSUME NodesTyped', ChildsFitProduction', Bare(nodes')
  PROVE  Older(nodes')
<1> SUFFICES ASSUME NEW n \in 1..Len(nodes')
             PROVE  /\ \A i \in DOMAIN nodes'[n].childs : nodes'[n].childs[i] \in 1..n - 1
                    /\ nodes'[n].production \in {NoProd} \cup Handled \/ 1 \in DOMAIN nodes'[n].childs
  BY DEF Older
<1> DEFINE node == nodes'[n]
           p    == node.production
<1>1. node \in TreeNodes
  BY ElementOfSeq DEF NodesTyped
<1>2. node.childs \in Seq(Nat) /\ p \in ProdIdx \cup {NoProd}
  BY <1>1 DEF TreeNodes
<1>3. CASE p = NoProd
  BY <1>3 DEF Bare
<1>4. CASE p # NoProd
  <2>1. /\ Len(node.childs) = Len(Productions[p].handles)
        /\ \A i \in 1..Len(Productions[p].handles) : node.childs[i] \in 1..n - 1
    BY <1>4 DEF ChildsFitProduction
  <2>2. p \in ProdIdx /\ Productions[p].handles \in Seq(Symbols)
    BY <1>2, <1>4, TablesTyped
  <2>3. DOMAIN node.childs = 1..Len(Productions[p].handles)
    BY <1>2, <2>1, LenProperties
  <2>4. p \notin Handled => Len(Productions[p].handles) \in Nat \ {0}
    BY <2>2, HandlersSet, EmptySeq
  <2> HIDE DEF node, p
  <2>5. p \in Handled \/ 1 \in DOMAIN node.childs
    BY <2>3, <2>4
  <2> QED
    BY <2>1, <2>3, <2>5 DEF node, p
<1> QED
  BY <1>3, <1>4
\* The new node leaves what was computed as it is and gets its own result.
LEMMA HungStays ==
  ASSUME ComputedInv, TreeInv', NEW node, NEW b, Hung(node, b)
  PROVE  /\ Bare(nodes')
         /\ \A what \in Computations : Computes(what, nodes', Of(what, nodes'))
         /\ \A what \in Computations : \A n \in 1..Len(nodes) :
              Of(what, nodes')[n] = Of(what, nodes)[n]
         /\ \A what \in Computations :
              Of(what, nodes')[Len(nodes')] = At(what, nodes', Len(nodes'), Of(what, nodes))
<1>1. /\ NodesTyped /\ nodes \in Seq(TreeNodes) /\ node \in TreeNodes
      /\ nodes' = Append(nodes, node) /\ (node.production = NoProd => node.childs = <<>>)
      /\ NodesTyped' /\ ChildsFitProduction'
  BY DEF ComputedInv, TreeInv, NodesTyped, Hung
<1>2. /\ Len(nodes) \in Nat /\ Len(nodes') = Len(nodes) + 1
      /\ nodes'[Len(nodes')] = node /\ \A n \in 1..Len(nodes) : nodes'[n] = nodes[n]
  BY <1>1, NodesStay, LenProperties
<1>3. Bare(nodes')
  <2> SUFFICES ASSUME NEW n \in 1..Len(nodes'), nodes'[n].production = NoProd
               PROVE  nodes'[n].childs = <<>>
    BY DEF Bare
  <2>1. CASE n = Len(nodes')
    BY <1>1, <1>2, <2>1
  <2>2. CASE n # Len(nodes')
    <3>1. n \in 1..Len(nodes)
      BY <1>2, <2>2
    <3> QED
      BY <1>2, <3>1 DEF ComputedInv, Bare
  <2> QED
    BY <2>1, <2>2
<1>4. Older(nodes')
  BY <1>1, <1>3, FitsAreOlder
<1>5. ASSUME NEW what \in Computations
      PROVE  /\ Computes(what, nodes', Of(what, nodes'))
             /\ \A n \in 1..Len(nodes) : Of(what, nodes')[n] = Of(what, nodes)[n]
  <2>1. Computes(what, nodes, Of(what, nodes))
    BY DEF ComputedInv
  <2>2. Older(Append(nodes, node))
    BY <1>1, <1>4
  <2>3. /\ Computes(what, Append(nodes, node), Of(what, Append(nodes, node)))
        /\ \A n \in 1..Len(nodes) : Of(what, Append(nodes, node))[n] = Of(what, nodes)[n]
    BY <1>1, <2>1, <2>2, ResultsStay
  <2> QED
    BY <1>1, <2>3
<1>6. ASSUME NEW what \in Computations
      PROVE  Of(what, nodes')[Len(nodes')] = At(what, nodes', Len(nodes'), Of(what, nodes))
  <2> DEFINE new == Of(what, nodes')
             old == Of(what, nodes)
             n   == Len(nodes')
  <2>1. n \in DOMAIN nodes'
    BY <1>1, <1>2
  <2>2. new[n] = At(what, nodes', n, new)
    <3>1. new = [k \in DOMAIN nodes' |-> At(what, nodes', k, new)]
      BY <1>5 DEF Computes
    <3> HIDE DEF new, n
    <3> QED
      BY <2>1, <3>1
  <2>3. AgreeBelow(n, old, new)
    <3>1. \A k \in 1..n - 1 : k \in 1..Len(nodes)
      BY <1>2
    <3> QED
      BY <1>5, <3>1 DEF AgreeBelow
  <2>4. SameUnder(nodes', nodes', n)
    <3>1. n \in 1..Len(nodes')
      BY <1>2
    <3> QED
      BY <1>4, <3>1 DEF SameUnder, Older
  <2> HIDE DEF new, old, n
  <2>5. At(what, nodes', n, new) = At(what, nodes', n, old)
    BY <2>3, <2>4, SameResult
  <2> QED
    BY <2>2, <2>5 DEF new, old, n
<1> QED
  BY <1>3, <1>5, <1>6

LEMMA PointersKind ==
  ASSUME ComputedInv, NEW what \in Gathered
  PROVE  HaveIn(Of(what, nodes), node_of, Kind(what))
BY DEF ComputedInv, TreeInv, InStep, HaveIn

\* What the stack has grows by what the new node adds.
LEMMA HungGathers ==
  ASSUME ComputedInv, TreeInv', NEW node, NEW b, Hung(node, b), NEW what \in Gathered
  PROVE  /\ \A n \in 1..Len(nodes') : Of(what, nodes')[n] \in Seq(Kind(what))
         /\ AlongOf(Of(what, nodes'), node_of') =
              AlongOf(Of(what, nodes), node_of) \o Own(what, node)
<1> DEFINE old   == Of(what, nodes)
           new   == Of(what, nodes')
           K     == Kind(what)
           N     == Len(nodes)
           under == SubSeq(node_of, 1, b)
           sub   == FlattenSeq(OfAll(old, node.childs))
<1>0. what \in Computations
  BY DEF Gathered, Computations
<1>1. /\ node \in TreeNodes /\ (node.production = NoProd => node.childs = <<>>)
      /\ b \in 1..Len(node_of) /\ Above(node_of, b, node.childs)
      /\ node_of' = Append(under, Len(nodes'))
      /\ nodes' = Append(nodes, node) /\ NodesTyped /\ node_of \in Seq(Nat)
  BY DEF Hung, ComputedInv, TreeInv, NodesTyped
<1>2. N \in Nat /\ Len(nodes') = N + 1 /\ nodes'[N + 1] = node
  BY <1>1, NodesStay, LenProperties DEF NodesTyped
<1>3. /\ \A n \in 1..N : new[n] = old[n] /\ old[n] \in Seq(K)
      /\ new[N + 1] = At(what, nodes', N + 1, old)
  BY <1>0, <1>2, HungStays DEF ComputedInv
<1>4. HaveIn(old, node_of, K) /\ \A i \in 2..Len(node_of) : node_of[i] \in 1..N
  BY PointersKind DEF ComputedInv, TreeInv, InStep
<1>5. \A i \in DOMAIN node.childs : old[node.childs[i]] \in Seq(K)
  <2>1. /\ node.childs \in Seq(Nat) /\ Len(node.childs) = Len(node_of) - b
        /\ \A i \in 1..Len(node_of) - b : node.childs[i] = node_of[b + i]
        /\ Len(node_of) \in Nat
    BY <1>1, LenProperties DEF Above
  <2>2. ASSUME NEW i \in DOMAIN node.childs PROVE b + i \in 2..Len(node_of) /\ node.childs[i] = node_of[b + i]
    <3>1. i \in 1..Len(node_of) - b
      BY <2>1, <2>2, LenProperties
    <3>2. b + i \in 2..Len(node_of)
      <4> DEFINE l == Len(node_of)
      <4>1. l \in Nat /\ b \in 1..l /\ i \in 1..l - b
        BY <1>1, <2>1, <3>1
      <4> HIDE DEF l
      <4>2. b + i \in 2..l
        BY <4>1
      <4> QED
        BY <4>2 DEF l
    <3> QED
      BY <2>1, <3>1, <3>2
  <2> QED
    BY <1>4, <2>2 DEF HaveIn
<1>6. new[N + 1] = sub \o Own(what, node) /\ new[N + 1] \in Seq(K)
  <2> DEFINE n == N + 1
             t == nodes'
  <2>1. /\ t[n] \in TreeNodes /\ (t[n].production = NoProd => t[n].childs = <<>>)
        /\ \A i \in DOMAIN t[n].childs : old[t[n].childs[i]] \in Seq(Kind(what))
    BY <1>1, <1>2, <1>5
  <2>2. new[n] = At(what, t, n, old) /\ t[n] = node
    BY <1>2, <1>3
  <2> HIDE DEF t, n, new, old, sub, K
  <2>3. At(what, t, n, old) = FlattenSeq(OfAll(old, t[n].childs)) \o Own(what, t[n])
        /\ At(what, t, n, old) \in Seq(Kind(what))
    BY <2>1, AtNode
  <2> QED
    BY <2>2, <2>3 DEF K, n, sub
<1> HIDE DEF old, new, K, N, under, sub
<1>7. /\ AlongOf(old, node_of) = AlongOf(old, under) \o sub
      /\ AlongOf(old, under) \in Seq(K) /\ sub \in Seq(K)
  BY <1>1, <1>4, AlongSplit DEF under, sub
<1>8. /\ under \in Seq(Nat) /\ Len(under) = b /\ b \in Nat \ {0}
      /\ \A i \in 1..b : under[i] = node_of[i]
  <2>1. b \in Nat \ {0} /\ Len(node_of) \in Nat /\ b <= Len(node_of)
    BY <1>1, LenProperties
  <2>2. /\ under \in Seq(Nat) /\ Len(under) = b - 1 + 1
        /\ \A i \in 1..b - 1 + 1 : under[i] = node_of[1 + i - 1]
    BY <1>1, <2>1, Stretch DEF under
  <2> QED
    BY <2>1, <2>2
<1>9. \A i \in 2..Len(under) : under[i] \in 1..N /\ new[under[i]] = old[under[i]]
                               /\ new[under[i]] \in Seq(K)
  <2> TAKE i \in 2..Len(under)
  <2>1. i \in 1..b /\ i \in 2..Len(node_of)
    BY <1>1, <1>8, LenProperties
  <2> QED
    BY <1>3, <1>4, <1>8, <2>1
<1>10. AlongOf(new, under) = AlongOf(old, under)
  BY <1>8, <1>9, AlongSame
<1>11. AlongOf(new, node_of') = AlongOf(new, under) \o new[N + 1]
  <2>1. HaveIn(new, under, K) /\ N + 1 \in Nat /\ new[N + 1] \in Seq(K)
    BY <1>2, <1>6, <1>9 DEF HaveIn
  <2>2. Len(under) \in Nat \ {0}
    BY <1>8
  <2>3. AlongOf(new, Append(under, N + 1)) = AlongOf(new, under) \o new[N + 1]
    <3>1. under \in Seq(Nat)
      BY <1>8
    <3> HIDE DEF under, new
    <3> QED
      BY <2>1, <2>2, <3>1, AlongPush
  <2> QED
    BY <1>1, <1>2, <2>3
<1>12. Own(what, node) \in Seq(K)
  BY <1>1, OwnTyped DEF K
<1>13. (AlongOf(old, under) \o sub) \o Own(what, node)
       = AlongOf(old, under) \o (sub \o Own(what, node))
  <2>1. \A s, t, u \in Seq(K) : (s \o t) \o u = s \o (t \o u)
    BY ConcatAssociative
  <2> QED
    BY <1>7, <1>12, <2>1
<1>14. \A n \in 1..Len(nodes') : new[n] \in Seq(K)
  <2> TAKE n \in 1..Len(nodes')
  <2>1. CASE n = N + 1
    BY <1>6, <2>1
  <2>2. CASE n # N + 1
    <3>1. n \in 1..N
      BY <1>2, <2>2
    <3> QED
      BY <1>3, <3>1
  <2> QED
    BY <2>1, <2>2
<1> QED
  BY <1>6, <1>7, <1>10, <1>11, <1>13, <1>14 DEF old, new, K
LEMMA StillComputed ==
  ASSUME ComputedInv, TreeInv', nodes' = nodes
  PROVE  ComputedInv'
BY DEF ComputedInv

LEMMA HungComputed ==
  ASSUME ComputedInv, TreeInv', NEW node, NEW b, Hung(node, b)
  PROVE  ComputedInv'
<1>1. /\ Bare(nodes')
      /\ \A what \in Computations : Computes(what, nodes', Of(what, nodes'))
  BY HungStays
<1>2. \A what \in Gathered : \A n \in 1..Len(nodes') : Of(what, nodes')[n] \in Seq(Kind(what))
  BY HungGathers
<1> QED
  BY <1>1, <1>2 DEF ComputedInv

LEMMA TreeInitComputed == TreeInit => ComputedInv
<1> SUFFICES ASSUME TreeInit PROVE ComputedInv
  OBVIOUS
<1>1. nodes = <<>> /\ Len(nodes) = 0
  BY DEF TreeInit
<1>2. \A what \in Computations : Computes(what, nodes, Of(what, nodes))
  BY <1>1, NoResults
<1> QED
  BY <1>1, <1>2, TreeInitInv DEF ComputedInv, Bare

\* What each return of ParseStep does to the tree.
HandledStep ==
  \/ OnShift /\ Shift /\ Hung(Leaf(token'), Len(node_of))
  \/ OnReduce /\ \E p, b : Reduced(p, b) /\ Hung(Inner(p, Childs), b)
  \/ OnAccept /\ Accept
  \/ ret' = "Error" /\ UNCHANGED <<stack, builder>>

LEMMA StepComputed ==
  ASSUME ComputedInv, ParseStep, Handle
  PROVE  ComputedInv' /\ HandledStep
<1>1. /\ TreeInv'
      /\ \/ OnShift /\ Shifted
         \/ OnReduce /\ \E p, b : Reduced(p, b)
         \/ OnAccept /\ Accept
         \/ ret' = "Error" /\ UNCHANGED <<stack, builder>>
  BY StepTree DEF ComputedInv
<1>2. CASE OnShift /\ Shifted
  <2>1. Hung(Leaf(token'), Len(node_of))
    BY <1>2, ShiftHangs DEF ComputedInv
  <2>2. Shift
    BY <1>2, StepResults DEF ComputedInv, TreeInv, OnShift
  <2> QED
    BY <1>1, <1>2, <2>1, <2>2, HungComputed DEF HandledStep
<1>3. CASE OnReduce /\ \E p, b : Reduced(p, b)
  <2>1. PICK p, b : Reduced(p, b)
    BY <1>3
  <2>2. Hung(Inner(p, Childs), b)
    BY <2>1, ReduceHangs DEF ComputedInv
  <2> QED
    BY <1>1, <1>3, <2>1, <2>2, HungComputed DEF HandledStep
<1>4. CASE OnAccept /\ Accept
  BY <1>1, <1>4, StillComputed DEF HandledStep, OnAccept
<1>5. CASE ret' = "Error" /\ UNCHANGED <<stack, builder>>
  BY <1>1, <1>5, StillComputed DEF HandledStep, builder
<1> QED
  BY <1>1, <1>2, <1>3, <1>4, <1>5

LEMMA NextComputed == ComputedInv /\ [TreeNext]_treeVars => ComputedInv'
<1> SUFFICES ASSUME ComputedInv, [TreeNext]_treeVars PROVE ComputedInv'
  OBVIOUS
<1>1. CASE ParseStep /\ Handle
  BY <1>1, StepComputed
<1>2. CASE ~(ParseStep /\ Handle)
  <2>1. TreeInv'
    BY TreeNextInv DEF ComputedInv
  <2>2. nodes' = nodes
    BY <1>2 DEF TreeNext, treeVars, builder, ResetBuilder
  <2> QED
    BY <2>1, <2>2, StillComputed
<1> QED
  BY <1>1, <1>2
-----------------------------------------------------------------------------
(* The trees spell the text.                                               *)

Marked(t) == [k \in DOMAIN t |-> [symbol |-> t[k], pos |-> k]]

SpelledInv ==
  /\ ComputedInv
  /\ TextInv
  /\ AlongOf(Of("leaves", nodes), node_of) = TokensOf(text, Marked(text))[Used]
  /\ ret = "Accept" => Of("leaves", nodes)[result] = TokensOf(text, Marked(text))[Used]

LEMMA SpelledSays == SpelledInv => TreesSpellText
<1> SUFFICES ASSUME SpelledInv PROVE TreesSpellText
  OBVIOUS
<1>1. Of("leaves", nodes) = Leaves(nodes)
  BY DEF Of
<1>2. ShiftedTokens = TokensOf(text, Marked(text))[Used]
  BY DEF ShiftedTokens, Marked, Used
<1>3. Along(Leaves(nodes)) = AlongOf(Leaves(nodes), node_of)
  BY DEF Along, AlongOf
<1> QED
  BY <1>1, <1>2, <1>3 DEF SpelledInv, TreesSpellText

LEMMA AlongBottom == ASSUME NEW of PROVE AlongOf(of, <<Null>>) = <<>>
<1>1. Len(<<Null>>) - 1 = 0
  OBVIOUS
<1>2. [i \in 1..Len(<<Null>>) - 1 |-> of[<<Null>>[i + 1]]] = <<>>
  BY <1>1
<1> QED
  BY <1>2, FlattenEmpty DEF AlongOf

\* ReadToken leaves what was used up as it is and finds the next token.
LEMMA MarkedNext ==
  ASSUME TextInv, ReadToken
  PROVE  /\ TokensOf(text', Marked(text'))[cursor' - 1] = TokensOf(text, Marked(text))[Used]
         /\ TokensOf(text', Marked(text'))[cursor'] =
              Append(TokensOf(text, Marked(text))[Used], token')
<1> DEFINE f == Marked(text)
           g == Marked(text')
<1>1. ReadInv
  BY DEF TextInv
<1>2. /\ text' \in Seq(Lexemes) /\ cursor' \in 1..Len(text')
      /\ token' = [symbol |-> text'[cursor'], pos |-> cursor']
      /\ Len(text) <= Len(text') /\ \A k \in 1..Len(text) : text'[k] = text[k]
  BY <1>1, ReadTokenInv
<1>3. /\ DOMAIN text = 1..Len(text) /\ DOMAIN text' = 1..Len(text')
      /\ Len(text) \in Nat /\ Len(text') \in Nat
  BY <1>1, <1>2, LenProperties DEF ReadInv
<1>4. \A k \in 1..Len(text) : f[k] = g[k]
  BY <1>2, <1>3 DEF Marked
<1>5. g[cursor'] = token'
  BY <1>2, <1>3 DEF Marked
<1> HIDE DEF f, g
<1>6. /\ TokensOf(text', g)[cursor' - 1] = TokensOf(text, f)[Used]
      /\ TokensOf(text', g)[cursor'] = Append(TokensOf(text, f)[Used], g[cursor'])
  BY <1>1, <1>4, ReadTokenNext
<1> QED
  BY <1>5, <1>6 DEF f, g

LEMMA StepSpelled ==
  ASSUME SpelledInv, ParseStep, Handle, TextInv'
  PROVE  SpelledInv'
<1> DEFINE old   == AlongOf(Of("leaves", nodes), node_of)
           new   == AlongOf(Of("leaves", nodes'), node_of')
           toks  == TokensOf(text, Marked(text))[Used]
           toks2 == TokensOf(text', Marked(text'))[Used']
<1>1. ComputedInv /\ ComputedInv' /\ HandledStep
  BY StepComputed DEF SpelledInv
<1>2. /\ ReadToken
      /\ \/ token_used' = FALSE
         \/ token_used' = TRUE /\ ret' = "Shift"
  BY ParseStepShape
<1>3. /\ TokensOf(text', Marked(text'))[cursor' - 1] = toks
      /\ TokensOf(text', Marked(text'))[cursor'] = Append(toks, token')
  BY <1>2, MarkedNext DEF SpelledInv
<1>4. old \in Seq(Tokens) /\ HaveIn(Of("leaves", nodes), node_of, Tokens)
  <2>1. HaveIn(Of("leaves", nodes), node_of, Tokens)
    BY <1>1, PointersKind DEF Gathered, Kind
  <2>2. node_of \in Seq(Nat)
    BY <1>1 DEF ComputedInv, TreeInv, NodesTyped
  <2> QED
    BY <2>1, <2>2, AlongTyped
<1>5. toks = old
  BY DEF SpelledInv
<1>6. CASE OnShift /\ Shift /\ Hung(Leaf(token'), Len(node_of))
  <2>1. new = old \o Own("leaves", Leaf(token'))
    BY <1>1, <1>6, HungGathers DEF Gathered, ComputedInv
  <2>2. Own("leaves", Leaf(token')) = <<token'>>
    BY DEF Own, Leaf
  <2>3. old \o <<token'>> = Append(old, token')
    <3> HIDE DEF old
    <3> QED
      BY <1>4
  <2>4. toks2 = Append(toks, token') /\ ret' = "Shift"
    BY <1>3, <1>6 DEF Shift, Used, OnShift
  <2> HIDE DEF old, new, toks, toks2
  <2>5. new = toks2
    BY <1>5, <2>1, <2>2, <2>3, <2>4
  <2> QED
    BY <1>1, <2>4, <2>5 DEF SpelledInv, new, toks2
<1>7. CASE OnReduce /\ \E p, b : Reduced(p, b) /\ Hung(Inner(p, Childs), b)
  <2>1. PICK p, b : Reduced(p, b) /\ Hung(Inner(p, Childs), b)
    BY <1>7
  <2>2. new = old \o Own("leaves", Inner(p, Childs))
    BY <1>1, <2>1, HungGathers DEF Gathered, ComputedInv
  <2>3. Own("leaves", Inner(p, Childs)) = <<>>
    <3>1. p # NoProd
      BY <2>1, TablesTyped DEF Reduced, NoProd
    <3> QED
      BY <3>1 DEF Own, Inner
  <2>4. old \o <<>> = old
    <3> HIDE DEF old
    <3> QED
      BY <1>4, ConcatEmptySeq
  <2>5. toks2 = toks /\ ret' = "Reduce"
    BY <1>2, <1>3, <1>7 DEF Used, OnReduce
  <2> HIDE DEF old, new, toks, toks2
  <2>6. new = toks2
    BY <1>5, <2>2, <2>3, <2>4, <2>5
  <2> QED
    BY <1>1, <2>5, <2>6 DEF SpelledInv, new, toks2
<1>8. CASE OnAccept /\ Accept
  <2>1. /\ nodes' = nodes /\ node_of' = node_of /\ ret' = "Accept"
        /\ result' = node_of[Len(node_of)]
    BY <1>8 DEF OnAccept
  <2>2. Len(node_of) = 2
    BY <1>1, <1>8, AcceptsWhole DEF ParseStep, ComputedInv, TreeInv, InStep
  <2>3. toks2 = toks
    BY <1>2, <1>3, <2>1 DEF Used
  <2>4. Of("leaves", nodes)[node_of[2]] = old
    <3>1. node_of \in Seq(Nat) /\ Of("leaves", nodes)[node_of[2]] \in Seq(Tokens)
      BY <1>1, <1>4, <2>2 DEF ComputedInv, TreeInv, NodesTyped, HaveIn
    <3> QED
      BY <2>2, <3>1, AlongOne
  <2>5. new = old
    BY <2>1
  <2>6. Of("leaves", nodes')[result'] = old
    BY <2>1, <2>2, <2>4
  <2> HIDE DEF old, new, toks, toks2
  <2>7. new = toks2 /\ Of("leaves", nodes')[result'] = toks2
    BY <1>5, <2>3, <2>5, <2>6
  <2> QED
    BY <1>1, <2>7 DEF SpelledInv, new, toks2
<1>9. CASE ret' = "Error" /\ UNCHANGED <<stack, builder>>
  <2>1. toks2 = toks
    BY <1>2, <1>3, <1>9 DEF Used
  <2>2. new = old
    BY <1>9 DEF builder
  <2> HIDE DEF old, new, toks, toks2
  <2>3. new = toks2
    BY <1>5, <2>1, <2>2
  <2> QED
    BY <1>1, <1>9, <2>3 DEF SpelledInv, new, toks2
<1> QED
  BY <1>1, <1>6, <1>7, <1>8, <1>9 DEF HandledStep

LEMMA TreeNextIsNext == [TreeNext]_treeVars => [Next]_vars
<1>1. "ParseAll" \in Calls
  BY DEF Calls, Returns
<1> QED
  BY <1>1 DEF TreeNext, Next, treeVars

LEMMA NextSpelled == SpelledInv /\ [TreeNext]_treeVars => SpelledInv'
<1> SUFFICES ASSUME SpelledInv, [TreeNext]_treeVars PROVE SpelledInv'
  OBVIOUS
<1>1. TextInv' /\ ComputedInv'
  BY TreeNextIsNext, NextTextInv, NextComputed DEF SpelledInv
<1>2. CASE ParseStep /\ Handle
  BY <1>1, <1>2, StepSpelled
<1>3. CASE (Call("ParseAll") /\ UNCHANGED builder) \/ UNCHANGED treeVars
  <2>1. UNCHANGED <<text, cursor, token_used, ret, nodes, node_of, result>>
    BY <1>3 DEF Call, lexer, builder, treeVars, vars
  <2> QED
    BY <1>1, <2>1 DEF SpelledInv, Used
<1>4. CASE (Load \/ ResetCursor) /\ ResetBuilder
  <2>1. Used' = 0 /\ ret' = "none"
    BY <1>4, ResetReads DEF SpelledInv, TextInv
  <2>2. node_of' = <<Null>>
    BY <1>4 DEF ResetBuilder
  <2>3. TokensOf(text', Marked(text'))[0] = <<>>
    BY TokensUnfold
  <2>4. AlongOf(Of("leaves", nodes'), <<Null>>) = <<>>
    BY AlongBottom
  <2> QED
    BY <1>1, <2>1, <2>2, <2>3, <2>4 DEF SpelledInv
<1> QED
  BY <1>2, <1>3, <1>4 DEF TreeNext

LEMMA InitSpelled == TreeInit => SpelledInv
<1> SUFFICES ASSUME TreeInit PROVE SpelledInv
  OBVIOUS
<1>1. ComputedInv /\ TextInv
  BY TreeInitComputed, InitTextInv DEF TreeInit
<1>2. Used = 0 /\ ret = "none" /\ node_of = <<Null>>
  BY DEF TreeInit, Init, Used
<1>3. TokensOf(text, Marked(text))[0] = <<>>
  BY TokensUnfold
<1>4. AlongOf(Of("leaves", nodes), <<Null>>) = <<>>
  BY AlongBottom
<1> QED
  BY <1>1, <1>2, <1>3, <1>4 DEF SpelledInv

\* The trees on the stack spell what was shifted, and the tree of an accepted text
\* the whole of it, noise aside: TreeBuilder loses, repeats and reorders no token,
\* whatever was parsed before.
THEOREM TreesAlwaysSpell == TreeSpec => []TreesSpellText
<1>1. TreeSpec => []SpelledInv
  BY InitSpelled, NextSpelled, PTL DEF TreeSpec
<1> QED
  BY <1>1, SpelledSays, PTL
-----------------------------------------------------------------------------
(* ProductionHandler beside the tree.                                      *)

\* the values on the stack are those of the subtrees
Valued == /\ \E S : values \in Seq(S)
          /\ Len(values) = Len(node_of)
          /\ \A i \in 2..Len(node_of) : values[i] = Of("value", nodes)[node_of[i]]

ValuesInv ==
  /\ ComputedInv
  /\ Valued
  /\ ret = "Accept" => result_ = Of("value", nodes)[result]
  /\ called = AlongOf(Of("calls", nodes), node_of)

LEMMA ValuesSay == ValuesInv => ValuesFollowTree /\ CallsInPostorder
<1> SUFFICES ASSUME ValuesInv PROVE ValuesFollowTree /\ CallsInPostorder
  OBVIOUS
<1>1. Of("value", nodes) = Eval(nodes) /\ Of("calls", nodes) = Postorder(nodes)
  BY DEF Of
<1>2. Along(Postorder(nodes)) = AlongOf(Postorder(nodes), node_of)
  BY DEF Along, AlongOf
<1>3. Len(stack) = Len(node_of)
  BY DEF ValuesInv, ComputedInv, TreeInv, InStep
<1> QED
  BY <1>1, <1>2, <1>3 DEF ValuesInv, Valued, ValuesFollowTree, CallsInPostorder

\* What ProductionHandler does in each step of TreeNext.
LEMMA Beside ==
  ASSUME ComputedInv, ValuesNext
  PROVE  /\ ParseStep => Evaluate
         /\ Call("ParseAll") => UNCHANGED evaluator
         /\ Load \/ ResetCursor => ResetValues
<1>1. resets \in Nat
  BY DEF ComputedInv, TreeInv, IInv, TypeOK
<1>2. ParseStep => call # "idle" /\ resets' = resets
  BY DEF ParseStep, Begin
<1>3. Call("ParseAll") => call = "idle" /\ resets' = resets
  BY DEF Call
<1>4. Load \/ ResetCursor => call = "idle" /\ resets' # resets
  BY <1>1 DEF Load, ResetCursor
<1> QED
  BY <1>2, <1>3, <1>4 DEF ValuesNext

\* The value of the node that is hung takes the place of those above item b.
LEMMA HungValued ==
  ASSUME ComputedInv, TreeInv', Valued, NEW node, NEW b, Hung(node, b), NEW v,
         v = At("value", nodes', Len(nodes'), Of("value", nodes)),
         values' = Append(SubSeq(values, 1, b), v)
  PROVE  Valued'
<1> DEFINE old   == Of("value", nodes)
           new   == Of("value", nodes')
           under == SubSeq(node_of, 1, b)
           kept  == SubSeq(values, 1, b)
           N     == Len(nodes)
<1>1. /\ b \in 1..Len(node_of) /\ node_of' = Append(under, Len(nodes'))
      /\ nodes \in Seq(TreeNodes) /\ node \in TreeNodes /\ nodes' = Append(nodes, node)
      /\ node_of \in Seq(Nat)
      /\ \A i \in 2..Len(node_of) : node_of[i] \in 1..N
  BY DEF Hung, ComputedInv, TreeInv, NodesTyped, InStep
<1>2. PICK S : values \in Seq(S)
  BY DEF Valued
<1>3. Len(values) = Len(node_of) /\ \A i \in 2..Len(node_of) : values[i] = old[node_of[i]]
  BY DEF Valued
<1>4. \A n \in 1..N : new[n] = old[n]
  BY HungStays DEF Computations
<1>5. new[Len(nodes')] = v
  BY HungStays DEF Computations
<1>6. N \in Nat /\ Len(nodes') = N + 1
  BY <1>1, AppendProperties, LenProperties
<1> HIDE DEF old, new, N
<1>7. b \in Nat \ {0} /\ b <= Len(node_of) /\ b <= Len(values) /\ Len(node_of) \in Nat
  BY <1>1, <1>3, LenProperties
<1>8. /\ under \in Seq(Nat) /\ Len(under) = b /\ \A i \in 1..b : under[i] = node_of[i]
  <2>1. /\ under \in Seq(Nat) /\ Len(under) = b - 1 + 1
        /\ \A i \in 1..b - 1 + 1 : under[i] = node_of[1 + i - 1]
    BY <1>1, <1>7, Stretch
  <2> HIDE DEF under
  <2> QED
    BY <1>7, <2>1
<1>9. /\ kept \in Seq(S) /\ Len(kept) = b /\ \A i \in 1..b : kept[i] = values[i]
  <2>1. \A i \in 1..b : values[i] \in S
    BY <1>2, <1>7, ElementOfSeq
  <2> QED
    BY <1>2, <1>7, <2>1, SubSeqProperties
<1> HIDE DEF under, kept
<1> DEFINE T == S \cup {v}
<1>10. kept \in Seq(T) /\ v \in T
  <2>1. S \subseteq T
    OBVIOUS
  <2> HIDE DEF T
  <2>2. kept \in Seq(T)
    BY <1>9, <2>1, SeqMonotonic
  <2> QED
    BY <2>2 DEF T
<1> HIDE DEF T
<1>11. values' = Append(kept, v)
  BY DEF kept
<1>12. /\ values' \in Seq(T) /\ Len(values') = b + 1 /\ values'[b + 1] = v
       /\ \A i \in 1..b : values'[i] = values[i]
  BY <1>9, <1>10, <1>11, AppendProperties
<1>13. /\ Len(node_of') = b + 1 /\ node_of'[b + 1] = N + 1
       /\ \A i \in 1..b : node_of'[i] = node_of[i]
  <2>1. N + 1 \in Nat /\ node_of' = Append(under, N + 1)
    BY <1>1, <1>6
  <2>2. /\ Len(node_of') = Len(under) + 1 /\ node_of'[Len(under) + 1] = N + 1
        /\ \A i \in 1..Len(under) : node_of'[i] = under[i]
    BY <1>8, <2>1, AppendProperties
  <2> QED
    BY <1>8, <2>2
<1>14. ASSUME NEW i \in 2..Len(node_of') PROVE values'[i] = new[node_of'[i]]
  <2>1. CASE i = b + 1
    BY <1>5, <1>6, <1>12, <1>13, <2>1
  <2>2. CASE i # b + 1
    <3>1. i \in 1..b /\ i \in 2..Len(node_of)
      BY <1>7, <1>13, <2>2
    <3>2. values'[i] = old[node_of[i]] /\ node_of[i] \in 1..N /\ node_of'[i] = node_of[i]
      BY <1>1, <1>3, <1>12, <1>13, <3>1
    <3> QED
      BY <1>4, <3>2
  <2> QED
    BY <2>1, <2>2
<1>15. Len(values') = Len(node_of')
  BY <1>12, <1>13
<1> QED
  BY <1>12, <1>14, <1>15 DEF Valued, new

\* A shift's node has no value.
LEMMA ShiftValue ==
  ASSUME NEW node, NEW b, Hung(node, b), NodesTyped, node.production = NoProd
  PROVE  At("value", nodes', Len(nodes'), Of("value", nodes)) = NullValue
<1>1. nodes'[Len(nodes')] = node
  BY NodesStay DEF Hung
<1> QED
  BY <1>1 DEF At, ValueAt

\* A reduction's value is made of those of the node's children.
LEMMA ReduceValue ==
  ASSUME ComputedInv, TreeInv', Valued, NEW p, NEW b, Reduced(p, b), Hung(Inner(p, Childs), b)
  PROVE  At("value", nodes', Len(nodes'), Of("value", nodes)) = ResultOf(p, Handles(p))
<1> DEFINE ev   == Of("value", nodes)
           hs   == Handles(p)
           N    == Len(nodes)
           n    == Len(stack)
           m    == n - b
           args == [i \in DOMAIN Childs |-> IF nodes'[Childs[i]].production = NoProd
                                            THEN Seen(nodes'[Childs[i]].token) ELSE ev[Childs[i]]]
<1>1. /\ nodes'[Len(nodes')] = Inner(p, Childs) /\ \A k \in 1..N : nodes'[k] = nodes[k]
      /\ p \in ProdIdx /\ p # NoProd
      /\ Inner(p, Childs).production = p /\ Inner(p, Childs).childs = Childs
  <2>1. /\ nodes'[Len(nodes')] = Inner(p, Childs) /\ \A k \in 1..N : nodes'[k] = nodes[k]
    BY NodesStay DEF Hung, ComputedInv, TreeInv
  <2>2. p \in ProdIdx /\ p # NoProd
    BY TablesTyped DEF Reduced, NoProd
  <2> QED
    BY <2>1, <2>2 DEF Inner
<1>2. /\ n \in Nat /\ b \in 1..n /\ Len(values) = n
      /\ m = Len(Productions[p].handles)
      /\ hs \in Seq(StackItems) /\ Len(hs) = m /\ \A i \in 1..m : hs[i] = stack[b + i]
      /\ Childs \in Seq(Nat) /\ Len(Childs) = m /\ \A i \in 1..m : Childs[i] = node_of[b + i]
      /\ \A i \in 2..n : /\ values[i] = ev[node_of[i]]
                         /\ node_of[i] \in 1..N
                         /\ Mirrors(nodes[node_of[i]], stack[i])
  <2>1. stack \in Seq(StackItems) /\ Len(node_of) = n
    BY DEF ComputedInv, TreeInv, IInv, TypeOK, InStep
  <2> QED
    BY <2>1, LenProperties DEF Reduced, Valued, ComputedInv, TreeInv, InStep
<1>3. ASSUME NEW i \in 1..m
      PROVE  /\ values[n - m + i] = ev[Childs[i]]
             /\ nodes'[Childs[i]].production = hs[i].production
             /\ nodes'[Childs[i]].token = hs[i].token
  <2>1. b + i \in 2..n /\ n - m + i = b + i
    <3> HIDE DEF n
    <3> QED
      BY <1>2
  <2>2. Childs[i] = node_of[b + i] /\ hs[i] = stack[b + i]
    BY <1>2
  <2>3. /\ values[b + i] = ev[Childs[i]] /\ Childs[i] \in 1..N
        /\ Mirrors(nodes[Childs[i]], hs[i])
    BY <1>2, <2>1, <2>2
  <2>4. nodes'[Childs[i]] = nodes[Childs[i]]
    BY <1>1, <2>3
  <2> QED
    BY <2>1, <2>3, <2>4 DEF Mirrors
<1>4. DOMAIN hs = 1..m /\ DOMAIN Childs = 1..m /\ m \in Nat
  BY <1>2, LenProperties
<1>5. args = Arguments(hs)
  <2> HIDE DEF m, n, hs, ev
  <2> QED
    BY <1>2, <1>3, <1>4 DEF Arguments
<1>6. At("value", nodes', Len(nodes'), ev) = IF p \in Handled THEN Term(p, args) ELSE ev[Childs[1]]
  BY <1>1 DEF At, ValueAt
<1>7. CASE p \in Handled
  BY <1>5, <1>6, <1>7 DEF ResultOf
<1>8. CASE p \notin Handled
  <2>1. 1 \in 1..m
    <3>1. Productions[p].handles \in Seq(Symbols) /\ Productions[p].handles # <<>>
      BY <1>1, <1>8, TablesTyped, HandlersSet
    <3>2. Len(Productions[p].handles) \in Nat \ {0}
      BY <3>1, EmptySeq
    <3> HIDE DEF m
    <3> QED
      BY <1>2, <3>2
  <2>2. values[n - m + 1] = ev[Childs[1]]
    BY <1>3, <2>1
  <2>3. values[Len(values) - Len(hs) + 1] = ev[Childs[1]]
    BY <1>2, <2>2
  <2> QED
    BY <1>6, <1>8, <2>3 DEF ResultOf
<1> QED
  BY <1>7, <1>8

LEMMA StepValues ==
  ASSUME ValuesInv, ParseStep, Handle, Evaluate
  PROVE  ValuesInv'
<1>1. ComputedInv /\ ComputedInv' /\ HandledStep /\ TreeInv' /\ Valued
  BY StepComputed DEF ValuesInv, ComputedInv
<1> DEFINE old == AlongOf(Of("calls", nodes), node_of)
           new == AlongOf(Of("calls", nodes'), node_of')
<1>2. /\ old \in Seq(ProdIdx) /\ called = old
      /\ node_of \in Seq(Nat) /\ Len(node_of) = Len(stack)
  <2>1. HaveIn(Of("calls", nodes), node_of, ProdIdx)
    BY <1>1, PointersKind DEF Gathered, Kind
  <2>2. node_of \in Seq(Nat) /\ Len(node_of) = Len(stack)
    BY <1>1 DEF ComputedInv, TreeInv, NodesTyped, InStep
  <2> QED
    BY <2>1, <2>2, AlongTyped DEF ValuesInv
<1>3. SubSeq(values, 1, Len(values)) = values
  <2>1. PICK S : values \in Seq(S)
    BY <1>1 DEF Valued
  <2> QED
    BY <2>1, SubSeqFull
<1>4. CASE OnShift /\ Shift /\ Hung(Leaf(token'), Len(node_of))
  <2> DEFINE leaf == Leaf(token')
  <2>1. values' = Append(values, NullValue) /\ called' = called /\ ret' = "Shift"
    BY <1>4 DEF OnShift, Evaluate, ValueShift, ValueReduce, ValueAccept, ValueError
  <2>2. leaf.production = NoProd
    BY DEF Leaf
  <2>3. At("value", nodes', Len(nodes'), Of("value", nodes)) = NullValue
    BY <1>1, <1>4, <2>2, ShiftValue DEF ComputedInv, TreeInv
  <2>4. values' = Append(SubSeq(values, 1, Len(node_of)), NullValue)
    BY <1>1, <1>3, <2>1 DEF Valued
  <2>5. Valued'
    BY <1>1, <1>4, <2>3, <2>4, HungValued
  <2>6. new = old \o Own("calls", leaf)
    BY <1>1, <1>4, HungGathers DEF Gathered
  <2>7. Own("calls", leaf) = <<>>
    BY <2>2, TablesTyped, HandlersSet DEF Own, NoProd
  <2>8. new = old
    <3> HIDE DEF old, new, leaf
    <3> QED
      BY <1>2, <2>6, <2>7, ConcatEmptySeq
  <2> QED
    BY <1>1, <1>2, <2>1, <2>5, <2>8 DEF ValuesInv
<1>5. CASE OnReduce /\ \E p, b : Reduced(p, b) /\ Hung(Inner(p, Childs), b)
  <2>1. PICK p, b : Reduced(p, b) /\ Hung(Inner(p, Childs), b)
    BY <1>5
  <2> DEFINE node == Inner(p, Childs)
  <2>2. /\ reduction'.production = p /\ reduction'.handles = Handles(p)
        /\ Len(stack') - 1 = b /\ p \in ProdIdx
    BY <2>1 DEF Reduced
  <2>3. /\ values' = Append(SubSeq(values, 1, b), ResultOf(p, Handles(p)))
        /\ called' = IF p \in Handled THEN Append(called, p) ELSE called
        /\ ret' = "Reduce"
    BY <1>5, <2>2 DEF OnReduce, Evaluate, ValueShift, ValueReduce, ValueAccept, ValueError
  <2>4. Valued'
    BY <1>1, <2>1, <2>3, ReduceValue, HungValued
  <2>5. new = old \o Own("calls", node)
    BY <1>1, <2>1, HungGathers DEF Gathered
  <2>6. Own("calls", node) = IF p \in Handled THEN <<p>> ELSE <<>>
    BY DEF Own, Inner
  <2>7. called' = new
    <3> HIDE DEF old, new, node
    <3>1. CASE p \in Handled
      <4>1. Append(old, p) = old \o <<p>>
        BY <1>2, <2>2
      <4> QED
        BY <1>2, <2>3, <2>5, <2>6, <3>1, <4>1
    <3>2. CASE p \notin Handled
      BY <1>2, <2>3, <2>5, <2>6, <3>2, ConcatEmptySeq
    <3> QED
      BY <3>1, <3>2
  <2> QED
    BY <1>1, <2>3, <2>4, <2>7 DEF ValuesInv
<1>6. CASE OnAccept /\ Accept
  <2>1. /\ nodes' = nodes /\ node_of' = node_of /\ ret' = "Accept"
        /\ result' = node_of[Len(node_of)]
        /\ result_' = values[Len(values)] /\ values' = values /\ called' = called
    BY <1>6 DEF OnAccept, Evaluate, ValueShift, ValueReduce, ValueAccept, ValueError
  <2>2. Len(node_of) = 2
    BY <1>1, <1>6, AcceptsWhole DEF ParseStep, ComputedInv, TreeInv, InStep
  <2>3. result_' = Of("value", nodes)[result']
    BY <1>1, <2>1, <2>2 DEF Valued
  <2> QED
    BY <1>1, <1>2, <2>1, <2>3 DEF ValuesInv, Valued
<1>7. CASE ret' = "Error" /\ UNCHANGED <<stack, builder>>
  <2>1. /\ nodes' = nodes /\ node_of' = node_of
        /\ values' = SubSeq(values, 1, Len(stack)) /\ called' = called
    BY <1>7 DEF builder, Evaluate, ValueShift, ValueReduce, ValueAccept, ValueError
  <2>2. values' = values
    BY <1>1, <1>2, <1>3, <2>1 DEF Valued
  <2> QED
    BY <1>1, <1>2, <1>7, <2>1, <2>2 DEF ValuesInv, Valued
<1> QED
  BY <1>1, <1>4, <1>5, <1>6, <1>7 DEF HandledStep

LEMMA NextValues == ValuesInv /\ [TreeNext /\ ValuesNext]_<<treeVars, evaluator>> => ValuesInv'
<1> SUFFICES ASSUME ValuesInv, [TreeNext /\ ValuesNext]_<<treeVars, evaluator>>
             PROVE  ValuesInv'
  OBVIOUS
<1>1. ComputedInv'
  BY NextComputed DEF ValuesInv
<1>2. CASE ParseStep /\ Handle /\ ValuesNext
  BY <1>2, Beside, StepValues DEF ValuesInv
<1>3. CASE \/ Call("ParseAll") /\ UNCHANGED builder /\ ValuesNext
           \/ UNCHANGED <<treeVars, evaluator>>
  <2>1. UNCHANGED <<ret, nodes, node_of, result, values, result_, called>>
    BY <1>3, Beside DEF ValuesInv, Call, builder, treeVars, vars, evaluator
  <2> QED
    BY <1>1, <2>1 DEF ValuesInv, Valued
<1>4. CASE (Load \/ ResetCursor) /\ ResetBuilder /\ ValuesNext
  <2>1. values' = <<NullValue>> /\ called' = <<>>
    BY <1>4, Beside DEF ValuesInv, ResetValues
  <2>2. node_of' = <<Null>> /\ ret' = "none"
    BY <1>4 DEF ResetBuilder, Load, ResetCursor, ResetState
  <2>3. AlongOf(Of("calls", nodes'), <<Null>>) = <<>>
    BY AlongBottom
  <2>4. Valued'
    <3>1. values' \in Seq({NullValue}) /\ Len(values') = 1 /\ Len(node_of') = 1
      BY <2>1, <2>2
    <3> QED
      BY <3>1 DEF Valued
  <2> QED
    BY <1>1, <2>1, <2>2, <2>3, <2>4 DEF ValuesInv
<1> QED
  BY <1>2, <1>3, <1>4 DEF TreeNext

LEMMA InitValues == TreeInit /\ ValuesInit => ValuesInv
<1> SUFFICES ASSUME TreeInit, ValuesInit PROVE ValuesInv
  OBVIOUS
<1>1. values = <<NullValue>> /\ called = <<>> /\ node_of = <<Null>> /\ ret = "none"
  BY DEF ValuesInit, TreeInit, Init
<1>2. Valued
  <2>1. values \in Seq({NullValue}) /\ Len(values) = 1 /\ Len(node_of) = 1
    BY <1>1
  <2> QED
    BY <2>1 DEF Valued
<1>3. AlongOf(Of("calls", nodes), <<Null>>) = <<>>
  BY AlongBottom
<1> QED
  BY <1>1, <1>2, <1>3, TreeInitComputed DEF ValuesInv

\* What is computed and called follows the tree, in every reachable state.
THEOREM ValuesInvariance == HandlersSpec => []ValuesInv
<1>1. HandlersInit => ValuesInv
  BY InitValues DEF HandlersInit
<1>2. ValuesInv /\ [HandlersNext]_handlerVars => ValuesInv'
  BY NextValues DEF HandlersNext, handlerVars
<1> QED
  BY <1>1, <1>2, PTL DEF HandlersSpec

\* Each handler of ProductionHandler was given the tokens and values of its own
\* handles and of no other item, so the result is the value of the tree, whatever was
\* evaluated before.
THEOREM ValuesAlwaysFollow == HandlersSpec => []ValuesFollowTree
BY ValuesInvariance, ValuesSay, PTL

\* The handlers were called once for each node, the children's before the parent's
\* and from left to right.
THEOREM CallsAlwaysPostorder == HandlersSpec => []CallsInPostorder
BY ValuesInvariance, ValuesSay, PTL
-----------------------------------------------------------------------------
(***************************************************************************)
(* The memory of SimplifiedTreeBuilder, for every consistent table, any    *)
(* size of a list buffer, texts of any length and a realloc that moves a   *)
(* buffer or does not.  The list stack is no part of the parser's stack    *)
(* and nothing compares the two.  The argument compares them: each stack   *)
(* item has a mark, a height of lns, and the lists of the items above it   *)
(* lie above its mark.                                                     *)
(***************************************************************************)

MemNodes == [live : BOOLEAN, production : ProdIdx \cup {NoProd}, token : Tokens,
             childs : Seq(Nat)]
Buffers  == [node : Nat, max_childs : Nat]
Mems     == [heap : Seq(MemNodes), lns : Seq(Buffers), ln_cn : Nat]

\* a buffer of lns is a live node with its children within it
HoldsList(heap, buffer) == /\ buffer.node \in 1..Len(heap)
                       /\ heap[buffer.node].live
                       /\ Len(heap[buffer.node].childs) <= buffer.max_childs

\* ListsSound, and no two buffers are the same
MemSound(m) ==
  /\ m \in Mems
  /\ m.ln_cn = (IF m.lns = <<>> THEN Null ELSE m.lns[Len(m.lns)].node)
  /\ \A i \in 1..Len(m.lns) : HoldsList(m.heap, m.lns[i])
  /\ \A i, j \in 1..Len(m.lns) : m.lns[i].node = m.lns[j].node => i = j

\* the nodes of the first b lists, of all of them, and those that stay where they are
Low(m, b)  == {m.lns[k].node : k \in 1..b}
Lists(m)   == Low(m, Len(m.lns))
Settled(m) == {n \in 1..Len(m.heap) : m.heap[n].live /\ n \notin Lists(m)}

\* children are settled: only the stack and lns lead to a list that may still move
Held(m) == \A n \in 1..Len(m.heap) : m.heap[n].live => m.heap[n].childs \in Seq(Settled(m))

\* From m to n nothing happens to the first b lists, and what was settled stays.
Keeps(m, n, b) ==
  /\ b \in 0..Len(m.lns) /\ b <= Len(n.lns)
  /\ \A k \in 1..b : n.lns[k] = m.lns[k]
  /\ Len(m.heap) <= Len(n.heap)
  /\ Settled(m) \subseteq Settled(n)
-----------------------------------------------------------------------------
(* Keeping.                                                                *)

LEMMA MemTyped ==
  ASSUME NEW m, m \in Mems
  PROVE  /\ m.heap \in Seq(MemNodes) /\ m.lns \in Seq(Buffers) /\ m.ln_cn \in Nat
         /\ Len(m.heap) \in Nat /\ Len(m.lns) \in Nat
         /\ \A k \in 1..Len(m.heap) : m.heap[k] \in MemNodes /\ m.heap[k].childs \in Seq(Nat)
         /\ \A k \in 1..Len(m.lns) : m.lns[k] \in Buffers /\ m.lns[k].node \in Nat
<1>1. m.heap \in Seq(MemNodes) /\ m.lns \in Seq(Buffers) /\ m.ln_cn \in Nat
  BY DEF Mems
<1>2. Len(m.heap) \in Nat /\ Len(m.lns) \in Nat
  BY <1>1, LenProperties
<1>3. ASSUME NEW k \in 1..Len(m.heap) PROVE m.heap[k] \in MemNodes /\ m.heap[k].childs \in Seq(Nat)
  <2>1. m.heap[k] \in MemNodes
    BY <1>1, ElementOfSeq
  <2> QED
    BY <2>1 DEF MemNodes
<1>4. ASSUME NEW k \in 1..Len(m.lns) PROVE m.lns[k] \in Buffers /\ m.lns[k].node \in Nat
  <2>1. m.lns[k] \in Buffers
    BY <1>1, ElementOfSeq
  <2> QED
    BY <2>1 DEF Buffers
<1> QED
  BY <1>1, <1>2, <1>3, <1>4

LEMMA KeepsSame ==
  ASSUME NEW m, m \in Mems, NEW b \in 0..Len(m.lns)
  PROVE  Keeps(m, m, b)
BY MemTyped DEF Keeps

LEMMA KeepsTrans ==
  ASSUME NEW m, NEW n, NEW o, NEW b, m \in Mems, n \in Mems, o \in Mems,
         Keeps(m, n, b), Keeps(n, o, b)
  PROVE  Keeps(m, o, b)
<1>1. /\ Len(m.heap) \in Nat /\ Len(n.heap) \in Nat /\ Len(o.heap) \in Nat
      /\ Len(m.lns) \in Nat /\ Len(n.lns) \in Nat /\ Len(o.lns) \in Nat
  BY MemTyped
<1> HIDE DEF Settled
<1> QED
  BY <1>1 DEF Keeps

\* The nodes of the lists that are kept.
LEMMA KeepsLow ==
  ASSUME NEW m, NEW n, NEW b, Keeps(m, n, b)
  PROVE  Low(n, b) = Low(m, b)
BY DEF Keeps, Low

\* Fewer lists are kept as well.
LEMMA KeepsLess ==
  ASSUME NEW m, NEW n, NEW b, NEW a, m \in Mems, n \in Mems, Keeps(m, n, b), a \in 0..b
  PROVE  Keeps(m, n, a)
BY MemTyped DEF Keeps

LEMMA LowGrows ==
  ASSUME NEW m, m \in Mems, NEW b \in 0..Len(m.lns), NEW a \in 0..b
  PROVE  Low(m, a) \subseteq Low(m, b)
BY MemTyped DEF Low
-----------------------------------------------------------------------------
(* A new node.                                                             *)

Adds(m, n, node) ==
  /\ n \in Mems /\ n.lns = m.lns /\ n.ln_cn = m.ln_cn
  /\ Len(n.heap) = Len(m.heap) + 1
  /\ \A k \in 1..Len(m.heap) : n.heap[k] = m.heap[k]
  /\ n.heap[Len(n.heap)] = node

LEMMA CreateAdds ==
  ASSUME NEW m, m \in Mems, NEW node \in MemNodes
  PROVE  Adds(m, Create(m, node), node)
<1> DEFINE n == Create(m, node)
<1>1. m.heap \in Seq(MemNodes) /\ m.lns \in Seq(Buffers) /\ m.ln_cn \in Nat
  BY DEF Mems
<1>2. /\ Append(m.heap, node) \in Seq(MemNodes) /\ Len(Append(m.heap, node)) = Len(m.heap) + 1
      /\ \A k \in 1..Len(m.heap) : Append(m.heap, node)[k] = m.heap[k]
      /\ Append(m.heap, node)[Len(m.heap) + 1] = node
  BY <1>1, AppendProperties
<1>3. n = [m EXCEPT !.heap = Append(m.heap, node)]
  BY DEF Create
<1> HIDE DEF n
<1>4. n.heap = Append(m.heap, node) /\ n.lns = m.lns /\ n.ln_cn = m.ln_cn
  BY <1>3 DEF Mems
<1>5. n \in Mems
  BY <1>2, <1>3 DEF Mems
<1> QED
  BY <1>2, <1>4, <1>5 DEF Adds, n

\* What a new node keeps, and that it is settled.
LEMMA AddsKeeps ==
  ASSUME NEW m, NEW n, NEW node, MemSound(m), Adds(m, n, node), node.live
  PROVE  /\ MemSound(n) /\ Keeps(m, n, Len(m.lns))
         /\ Lists(n) = Lists(m)
         /\ Len(n.heap) \in Settled(n) /\ Len(n.heap) \notin Low(m, Len(m.lns))
<1>1. /\ m \in Mems /\ n \in Mems /\ n.lns = m.lns /\ n.ln_cn = m.ln_cn
      /\ Len(n.heap) = Len(m.heap) + 1
      /\ \A k \in 1..Len(m.heap) : n.heap[k] = m.heap[k]
      /\ n.heap[Len(n.heap)] = node
      /\ Len(m.heap) \in Nat /\ Len(m.lns) \in Nat
  BY MemTyped DEF Adds, MemSound
<1>2. ASSUME NEW i \in 1..Len(m.lns)
      PROVE  HoldsList(n.heap, n.lns[i]) /\ m.lns[i].node \in 1..Len(m.heap)
  <2>1. HoldsList(m.heap, m.lns[i])
    BY <1>2 DEF MemSound
  <2>2. m.lns[i].node \in 1..Len(m.heap)
    BY <2>1 DEF HoldsList
  <2> QED
    BY <1>1, <2>1, <2>2 DEF HoldsList
<1>3. MemSound(n)
  BY <1>1, <1>2 DEF MemSound
<1>4. Lists(n) = Lists(m) /\ Lists(m) = Low(m, Len(m.lns))
  BY <1>1 DEF Lists, Low
<1>5. Len(n.heap) \notin Lists(m)
  <2>1. \A i \in 1..Len(m.lns) : m.lns[i].node <= Len(m.heap)
    BY <1>2
  <2> QED
    BY <1>1, <2>1 DEF Lists, Low
<1>6. Settled(m) \subseteq Settled(n) /\ Len(n.heap) \in Settled(n)
  <2> HIDE DEF Lists
  <2> QED
    BY <1>1, <1>4, <1>5 DEF Settled
<1>7. Keeps(m, n, Len(m.lns))
  <2> HIDE DEF Settled
  <2> QED
    BY <1>1, <1>6 DEF Keeps
<1> QED
  BY <1>3, <1>4, <1>5, <1>6, <1>7

LEMMA AddsHeld ==
  ASSUME NEW m, NEW n, NEW node, MemSound(m), Adds(m, n, node), node.live,
         Held(m), node.childs \in Seq(Settled(n))
  PROVE  Held(n)
<1>1. /\ Len(n.heap) = Len(m.heap) + 1 /\ Len(m.heap) \in Nat
      /\ \A k \in 1..Len(m.heap) : n.heap[k] = m.heap[k]
      /\ n.heap[Len(n.heap)] = node
  BY MemTyped DEF Adds, MemSound
<1>2. Settled(m) \subseteq Settled(n)
  BY AddsKeeps DEF Keeps
<1>3. ASSUME NEW k \in 1..Len(n.heap), n.heap[k].live
      PROVE  n.heap[k].childs \in Seq(Settled(n))
  <2>1. CASE k \in 1..Len(m.heap)
    <3>1. n.heap[k] = m.heap[k]
      BY <1>1, <2>1
    <3>2. m.heap[k].childs \in Seq(Settled(m))
      BY <1>3, <2>1, <3>1 DEF Held
    <3> QED
      BY <1>2, <3>1, <3>2, SeqMonotonic
  <2>2. CASE k = Len(n.heap)
    BY <1>1, <2>2
  <2> QED
    BY <1>1, <1>3, <2>1, <2>2
<1> QED
  BY <1>3 DEF Held
-----------------------------------------------------------------------------
(* The list on top of lns freed.                                           *)

TopNode(m) == m.lns[Len(m.lns)].node

Pops(m, n) ==
  /\ n \in Mems /\ Len(m.lns) \in Nat \ {0} /\ Len(n.lns) = Len(m.lns) - 1
  /\ \A k \in 1..Len(m.lns) - 1 : n.lns[k] = m.lns[k]
  /\ n.ln_cn = (IF n.lns = <<>> THEN Null ELSE TopNode(n))
  /\ Len(n.heap) = Len(m.heap)
  /\ \A k \in 1..Len(m.heap) : k # TopNode(m) => n.heap[k] = m.heap[k]
  /\ ~n.heap[TopNode(m)].live

\* what holds of the buffer on top
LEMMA TopHolds ==
  ASSUME NEW m, MemSound(m), m.lns # <<>>
  PROVE  /\ Len(m.lns) \in Nat \ {0} /\ TopNode(m) \in 1..Len(m.heap)
         /\ m.heap[TopNode(m)].live /\ m.ln_cn = TopNode(m)
         /\ Len(m.heap[TopNode(m)].childs) <= m.lns[Len(m.lns)].max_childs
         /\ m.heap[TopNode(m)] \in MemNodes /\ m.heap[TopNode(m)].childs \in Seq(Nat)
         /\ \A i \in 1..Len(m.lns) - 1 : m.lns[i].node # TopNode(m)
<1>1. Len(m.lns) \in Nat \ {0}
  BY EmptySeq, MemTyped DEF MemSound
<1>2. HoldsList(m.heap, m.lns[Len(m.lns)])
  BY <1>1 DEF MemSound
<1>3. TopNode(m) \in 1..Len(m.heap)
  BY <1>2 DEF HoldsList, TopNode
<1>4. \A i \in 1..Len(m.lns) - 1 : m.lns[i].node # TopNode(m)
  BY <1>1 DEF MemSound, TopNode
<1> QED
  BY <1>1, <1>2, <1>3, <1>4, MemTyped DEF MemSound, HoldsList, TopNode

LEMMA PopPops ==
  ASSUME NEW m, MemSound(m), m.lns # <<>>
  PROVE  Pops(m, PopListNode(m))
<1> DEFINE n     == PopListNode(m)
           below == Front(m.lns)
           freed == [m.heap[TopNode(m)] EXCEPT !.live = FALSE]
           heap  == [m.heap EXCEPT ![TopNode(m)] = freed]
<1>1. /\ Len(m.lns) \in Nat \ {0} /\ TopNode(m) \in 1..Len(m.heap)
      /\ m.heap[TopNode(m)] \in MemNodes
      /\ m.heap \in Seq(MemNodes) /\ m.lns \in Seq(Buffers)
      /\ Len(m.heap) \in Nat
  BY TopHolds, MemTyped DEF MemSound
<1>2. freed \in MemNodes /\ ~freed.live
  BY <1>1 DEF MemNodes
<1>3. n = [heap |-> heap, lns |-> below,
           ln_cn |-> IF below = <<>> THEN Null ELSE Last(below).node]
  BY DEF PopListNode, TopNode, Last
<1> HIDE DEF n, freed
<1>4. /\ heap \in Seq(MemNodes) /\ Len(heap) = Len(m.heap)
      /\ \A k \in 1..Len(m.heap) : heap[k] = IF k = TopNode(m) THEN freed ELSE m.heap[k]
  BY <1>1, <1>2, ExceptSeq
<1> HIDE DEF heap
<1>5. /\ below \in Seq(Buffers) /\ Len(below) = Len(m.lns) - 1
      /\ \A k \in 1..Len(m.lns) - 1 : below[k] = m.lns[k]
  <2>1. \A i \in 1..Len(m.lns) - 1 : m.lns[i] \in Buffers
    BY <1>1, ElementOfSeq
  <2>2. /\ below \in Seq(Buffers)
        /\ Len(below) = IF 1 <= Len(m.lns) - 1 THEN Len(m.lns) - 1 - 1 + 1 ELSE 0
        /\ \A i \in 1..Len(m.lns) - 1 - 1 + 1 : below[i] = m.lns[1 + i - 1]
    BY <1>1, <2>1, SubSeqProperties DEF Front
  <2> QED
    BY <1>1, <2>2
<1> HIDE DEF below
<1>6. n.heap = heap /\ n.lns = below /\ n.ln_cn = (IF below = <<>> THEN Null ELSE Last(below).node)
  BY <1>3
<1>7. n.ln_cn = (IF n.lns = <<>> THEN Null ELSE TopNode(n))
  BY <1>6 DEF TopNode, Last
<1>8. n.ln_cn \in Nat
  <2>1. CASE below = <<>>
    BY <1>6, <2>1 DEF Null
  <2>2. CASE below # <<>>
    <3>1. Len(below) \in 1..Len(below)
      BY <1>5, <2>2, EmptySeq
    <3>2. below[Len(below)] \in Buffers
      BY <1>5, <3>1, ElementOfSeq
    <3> QED
      BY <1>6, <2>2, <3>2 DEF Last, Buffers
  <2> QED
    BY <2>1, <2>2
<1>9. n \in Mems
  BY <1>3, <1>4, <1>5, <1>6, <1>8 DEF Mems
<1>10. ~n.heap[TopNode(m)].live
  BY <1>1, <1>2, <1>4, <1>6
<1>11. \A k \in 1..Len(m.heap) : k # TopNode(m) => n.heap[k] = m.heap[k]
  BY <1>4, <1>6
<1> QED
  BY <1>1, <1>4, <1>5, <1>6, <1>7, <1>9, <1>10, <1>11 DEF Pops, n

LEMMA PopsKeeps ==
  ASSUME NEW m, NEW n, MemSound(m), Pops(m, n)
  PROVE  /\ MemSound(n) /\ Keeps(m, n, Len(m.lns) - 1)
         /\ Len(n.lns) = Len(m.lns) - 1
         /\ Held(m) => Held(n)
<1>1. /\ m \in Mems /\ n \in Mems /\ m.lns # <<>>
      /\ Len(m.lns) \in Nat \ {0} /\ Len(n.lns) = Len(m.lns) - 1
      /\ \A k \in 1..Len(m.lns) - 1 : n.lns[k] = m.lns[k]
      /\ n.ln_cn = (IF n.lns = <<>> THEN Null ELSE TopNode(n))
      /\ Len(n.heap) = Len(m.heap) /\ Len(m.heap) \in Nat
      /\ \A k \in 1..Len(m.heap) : k # TopNode(m) => n.heap[k] = m.heap[k]
      /\ ~n.heap[TopNode(m)].live
  <2>1. m.lns # <<>>
    <3>1. Len(m.lns) # 0
      BY DEF Pops
    <3> QED
      BY <3>1
  <2> QED
    BY <2>1, MemTyped DEF Pops, MemSound
<1>2. \A i \in 1..Len(m.lns) - 1 : m.lns[i].node # TopNode(m)
  BY <1>1, TopHolds
<1>3. ASSUME NEW i \in 1..Len(n.lns) PROVE HoldsList(n.heap, n.lns[i])
  <2>1. i \in 1..Len(m.lns) /\ n.lns[i] = m.lns[i] /\ m.lns[i].node # TopNode(m)
    BY <1>1, <1>2
  <2>2. HoldsList(m.heap, m.lns[i])
    BY <2>1 DEF MemSound
  <2> QED
    BY <1>1, <2>1, <2>2 DEF HoldsList
<1>4. MemSound(n)
  <2>1. \A i, j \in 1..Len(n.lns) : n.lns[i].node = n.lns[j].node => i = j
    <3>1. \A i \in 1..Len(n.lns) : i \in 1..Len(m.lns) /\ n.lns[i] = m.lns[i]
      BY <1>1
    <3> QED
      BY <3>1 DEF MemSound
  <2> QED
    BY <1>1, <1>3, <2>1 DEF MemSound, TopNode
<1>5. Lists(n) \subseteq Lists(m) /\ TopNode(m) \in Lists(m)
  BY <1>1 DEF Lists, Low, TopNode
<1>6. Settled(m) \subseteq Settled(n)
  <2> HIDE DEF Lists
  <2> QED
    BY <1>1, <1>5 DEF Settled
<1>7. Keeps(m, n, Len(m.lns) - 1)
  <2> HIDE DEF Settled
  <2> QED
    BY <1>1, <1>6 DEF Keeps
<1>8. ASSUME Held(m), NEW k \in 1..Len(n.heap), n.heap[k].live
      PROVE  n.heap[k].childs \in Seq(Settled(n))
  <2>1. k \in 1..Len(m.heap) /\ n.heap[k] = m.heap[k]
    BY <1>1, <1>8
  <2>2. m.heap[k].childs \in Seq(Settled(m))
    BY <1>8, <2>1 DEF Held
  <2> QED
    BY <1>6, <2>1, <2>2, SeqMonotonic
<1> QED
  BY <1>1, <1>4, <1>7, <1>8 DEF Held

\* A list that is moved out of its buffer.
LEMMA MoveKeeps ==
  ASSUME NEW m, MemSound(m), m.lns # <<>>
  PROVE  LET n == PopListNodeAndMove(m)
         IN /\ MemSound(n) /\ Keeps(m, n, Len(m.lns) - 1)
            /\ Len(n.lns) = Len(m.lns) - 1
            /\ Newest(n) \in Settled(n) /\ Newest(n) \notin Low(m, Len(m.lns))
            /\ Newest(n) = Len(m.heap) + 1
            /\ Held(m) => Held(n)
<1> DEFINE node == m.heap[m.ln_cn]
           c    == Create(m, node)
           n    == PopListNodeAndMove(m)
<1>1. /\ Len(m.lns) \in Nat \ {0} /\ m.ln_cn \in 1..Len(m.heap) /\ node \in MemNodes /\ node.live
      /\ m \in Mems /\ Len(m.heap) \in Nat
  BY TopHolds, MemTyped DEF MemSound
<1>2. Adds(m, c, node)
  BY <1>1, CreateAdds
<1> HIDE DEF c
<1>3. MemSound(c) /\ Keeps(m, c, Len(m.lns)) /\ Len(c.heap) \in Settled(c)
      /\ Len(c.heap) \notin Low(m, Len(m.lns))
  BY <1>1, <1>2, AddsKeeps
<1>4. c.lns = m.lns /\ Len(c.heap) = Len(m.heap) + 1
  BY <1>2 DEF Adds
<1>5. n = PopListNode(c)
  BY DEF PopListNodeAndMove, c
<1> HIDE DEF n
<1>6. Pops(c, n)
  BY <1>3, <1>4, <1>5, PopPops
<1>7. MemSound(n) /\ Keeps(c, n, Len(c.lns) - 1) /\ Len(n.lns) = Len(c.lns) - 1
      /\ (Held(c) => Held(n))
  BY <1>3, <1>6, PopsKeeps
<1>8. Keeps(m, c, Len(m.lns) - 1)
  <2>1. Len(m.lns) - 1 \in 0..Len(m.lns) /\ c \in Mems
    BY <1>1, <1>3 DEF MemSound
  <2> QED
    BY <1>1, <1>3, <2>1, KeepsLess
<1>9. Keeps(m, n, Len(m.lns) - 1)
  <2>1. m \in Mems /\ c \in Mems /\ n \in Mems
    BY <1>1, <1>3, <1>7 DEF MemSound
  <2> QED
    BY <1>4, <1>7, <1>8, <2>1, KeepsTrans
<1>10. Newest(n) = Len(c.heap) /\ Newest(n) \in Settled(n)
  <2>1. Len(n.heap) = Len(c.heap)
    BY <1>6 DEF Pops
  <2>2. Settled(c) \subseteq Settled(n)
    BY <1>7 DEF Keeps
  <2> QED
    BY <1>3, <2>1, <2>2 DEF Newest
<1>11. Held(m) => Held(c)
  <2> SUFFICES ASSUME Held(m) PROVE Held(c)
    OBVIOUS
  <2>1. node.childs \in Seq(Settled(m))
    BY <1>1 DEF Held
  <2>2. node.childs \in Seq(Settled(c))
    BY <1>3, <2>1, SeqMonotonic DEF Keeps
  <2> HIDE DEF node
  <2> QED
    BY <1>1, <1>2, <2>2, AddsHeld
<1> QED
  BY <1>3, <1>4, <1>7, <1>9, <1>10, <1>11 DEF n
-----------------------------------------------------------------------------
(* A candidate taken, a list begun.                                        *)

\* A node that is no list below b is taken for good: it is there, no list below b,
\* and settled when it was settled or the list on top.
LEMMA TakeKeeps ==
  ASSUME NEW m, MemSound(m), NEW b \in 0..Len(m.lns),
         NEW x \in 1..Len(m.heap), x \notin Low(m, b)
  PROVE  LET t == Take(m, x)
         IN /\ MemSound(t.mem) /\ Keeps(m, t.mem, b)
            /\ t.pointer \in 1..Len(t.mem.heap) /\ t.pointer \notin Low(m, b)
            /\ Held(m) => Held(t.mem)
            /\ x = m.ln_cn => /\ Len(m.lns) > b /\ Len(t.mem.lns) = Len(m.lns) - 1
                              /\ t.pointer \in Settled(t.mem)
            /\ x # m.ln_cn => t.mem = m /\ t.pointer = x
<1> DEFINE t == Take(m, x)
<1>0. m \in Mems /\ Len(m.heap) \in Nat /\ Len(m.lns) \in Nat
  BY MemTyped DEF MemSound
<1>1. CASE x # m.ln_cn
  <2>1. t = [mem |-> m, pointer |-> x]
    BY <1>1 DEF Take, Settle
  <2>2. t.mem = m /\ t.pointer = x
    BY <2>1
  <2>3. Keeps(m, m, b)
    BY <1>0, KeepsSame
  <2> HIDE DEF t
  <2>4. /\ MemSound(t.mem) /\ Keeps(m, t.mem, b)
        /\ t.pointer \in 1..Len(t.mem.heap) /\ t.pointer \notin Low(m, b)
        /\ Held(m) => Held(t.mem)
    BY <2>2, <2>3
  <2> QED
    BY <1>1, <2>2, <2>4 DEF t
<1>2. CASE x = m.ln_cn
  <2> DEFINE n == PopListNodeAndMove(m)
  <2>1. m.lns # <<>>
    BY <1>2 DEF MemSound, Null
  <2>2. TopNode(m) = x /\ Len(m.lns) \in Nat \ {0}
    BY <1>2, <2>1, TopHolds
  <2>3. b # Len(m.lns)
    BY <2>2 DEF TopNode, Low
  <2>4. b \in 0..Len(m.lns) - 1
    BY <2>2, <2>3
  <2>5. t.mem = n /\ t.pointer = Newest(n)
    BY <1>2 DEF Take, Settle
  <2>6. /\ MemSound(n) /\ Keeps(m, n, Len(m.lns) - 1)
        /\ Len(n.lns) = Len(m.lns) - 1
        /\ Newest(n) \in Settled(n) /\ Newest(n) \notin Low(m, Len(m.lns))
        /\ Held(m) => Held(n)
    BY <2>1, MoveKeeps
  <2> HIDE DEF n, t
  <2>7. Keeps(m, n, b)
    BY <1>0, <2>4, <2>6, KeepsLess DEF MemSound
  <2>8. Newest(n) \notin Low(m, b)
    <3>1. Low(m, b) \subseteq Low(m, Len(m.lns))
      <4>1. b \in 0..Len(m.lns) /\ Len(m.lns) \in 0..Len(m.lns)
        BY <1>0
      <4> QED
        BY <1>0, <4>1, LowGrows
    <3> QED
      BY <2>6, <3>1
  <2>9. Newest(n) \in 1..Len(n.heap)
    BY <2>6 DEF Settled
  <2>10. Len(m.lns) > b
    BY <2>2, <2>4
  <2> QED
    BY <1>2, <2>5, <2>6, <2>7, <2>8, <2>9, <2>10 DEF t
<1> QED
  BY <1>1, <1>2

\* A list is begun on top of the others.
LEMMA PushKeeps ==
  ASSUME NEW m, MemSound(m), NEW p \in ProdIdx, NEW chs \in Seq(Nat)
  PROVE  LET n == PushListNode(m, p, chs)
         IN /\ MemSound(n) /\ Keeps(m, n, Len(m.lns))
            /\ Len(n.lns) = Len(m.lns) + 1
            /\ n.ln_cn = TopNode(n)
            /\ Held(m) /\ chs \in Seq(Settled(m)) => Held(n)
<1> DEFINE node == NodeOf(p, NoToken, chs)
           c    == Create(m, node)
           cap  == IF Len(chs) > MinChilds THEN Len(chs) ELSE MinChilds
           buf  == [node |-> Newest(c), max_childs |-> cap]
           n    == PushListNode(m, p, chs)
<1>0. /\ m \in Mems /\ Len(m.heap) \in Nat /\ Len(m.lns) \in Nat /\ Len(chs) \in Nat
      /\ m.lns \in Seq(Buffers)
  BY MemTyped, LenProperties DEF MemSound
<1>1. node \in MemNodes /\ node.live /\ node.childs = chs
  <2>1. NoToken \in Tokens
    BY DEF NoToken, Tokens
  <2> QED
    BY <2>1 DEF NodeOf, MemNodes
<1>2. Adds(m, c, node)
  BY <1>0, <1>1, CreateAdds
<1>3. n = [c EXCEPT !.lns = Append(@, buf), !.ln_cn = Newest(c)]
  BY DEF PushListNode
<1>4. cap \in Nat /\ Len(chs) <= cap
  BY <1>0, CapacityTyped
<1> HIDE DEF node, c, cap, n
<1>5. MemSound(c) /\ c.lns = m.lns /\ Len(c.heap) = Len(m.heap) + 1 /\ c \in Mems
      /\ Settled(m) \subseteq Settled(c) /\ Lists(c) = Lists(m)
      /\ Len(c.heap) \notin Low(m, Len(m.lns)) /\ c.heap[Len(c.heap)] = node
  <2>1. /\ MemSound(c) /\ Keeps(m, c, Len(m.lns)) /\ Lists(c) = Lists(m)
        /\ Len(c.heap) \notin Low(m, Len(m.lns))
    BY <1>1, <1>2, AddsKeeps
  <2>2. Settled(m) \subseteq Settled(c)
    BY <2>1 DEF Keeps
  <2>3. c.lns = m.lns /\ Len(c.heap) = Len(m.heap) + 1 /\ c \in Mems /\ c.heap[Len(c.heap)] = node
    BY <1>2 DEF Adds
  <2> QED
    BY <2>1, <2>2, <2>3
<1>6. Newest(c) = Len(m.heap) + 1 /\ buf \in Buffers /\ buf.node = Len(m.heap) + 1
      /\ buf.max_childs = cap
  BY <1>0, <1>4, <1>5 DEF Newest, Buffers
<1> HIDE DEF buf
<1>7. /\ Append(m.lns, buf) \in Seq(Buffers) /\ Len(Append(m.lns, buf)) = Len(m.lns) + 1
      /\ \A k \in 1..Len(m.lns) : Append(m.lns, buf)[k] = m.lns[k]
      /\ Append(m.lns, buf)[Len(m.lns) + 1] = buf
      /\ Append(m.lns, buf) # <<>>
  BY <1>0, <1>6, AppendProperties
<1>8. n.heap = c.heap /\ n.lns = Append(m.lns, buf) /\ n.ln_cn = Len(m.heap) + 1 /\ n \in Mems
  <2>1. n.heap = c.heap /\ n.lns = Append(m.lns, buf) /\ n.ln_cn = Len(m.heap) + 1
    BY <1>3, <1>5, <1>6 DEF Mems
  <2>2. Append(m.lns, buf) \in Seq(Buffers) /\ Newest(c) \in Nat
    BY <1>0, <1>6, <1>7
  <2>3. n \in Mems
    BY <1>3, <1>5, <2>2 DEF Mems
  <2> QED
    BY <2>1, <2>3
<1>9. n.ln_cn = TopNode(n) /\ TopNode(n) = Len(n.heap)
  BY <1>5, <1>6, <1>7, <1>8 DEF TopNode
<1>10. ASSUME NEW i \in 1..Len(n.lns) PROVE HoldsList(n.heap, n.lns[i])
  <2>1. CASE i \in 1..Len(m.lns)
    <3>1. n.lns[i] = c.lns[i] /\ i \in 1..Len(c.lns)
      BY <1>5, <1>7, <1>8, <2>1
    <3> QED
      BY <1>5, <1>8, <3>1 DEF MemSound
  <2>2. CASE i = Len(m.lns) + 1
    <3>1. n.lns[i] = buf /\ buf.node \in 1..Len(n.heap) /\ n.heap[buf.node] = node
      BY <1>0, <1>5, <1>6, <1>7, <1>8, <2>2
    <3> QED
      BY <1>1, <1>4, <1>6, <3>1 DEF HoldsList
  <2> QED
    BY <1>0, <1>7, <1>8, <2>1, <2>2
<1>11. \A i, j \in 1..Len(n.lns) : n.lns[i].node = n.lns[j].node => i = j
  <2>1. \A i \in 1..Len(m.lns) : n.lns[i].node # Len(m.heap) + 1 /\ n.lns[i].node = m.lns[i].node
    BY <1>5, <1>7, <1>8 DEF Low
  <2>2. \A i, j \in 1..Len(m.lns) : m.lns[i].node = m.lns[j].node => i = j
    BY DEF MemSound
  <2>3. n.lns[Len(m.lns) + 1].node = Len(m.heap) + 1 /\ Len(n.lns) = Len(m.lns) + 1
    BY <1>6, <1>7, <1>8
  <2> TAKE i, j \in 1..Len(n.lns)
  <2> HAVE n.lns[i].node = n.lns[j].node
  <2>4. /\ i \in 1..Len(m.lns) \/ i = Len(m.lns) + 1
        /\ j \in 1..Len(m.lns) \/ j = Len(m.lns) + 1
    BY <1>0, <2>3
  <2>5. CASE i \in 1..Len(m.lns) /\ j \in 1..Len(m.lns)
    BY <2>1, <2>2, <2>5
  <2>6. CASE i = Len(m.lns) + 1 \/ j = Len(m.lns) + 1
    BY <2>1, <2>3, <2>4, <2>6
  <2> QED
    BY <2>4, <2>5, <2>6
<1>12. MemSound(n)
  BY <1>7, <1>8, <1>9, <1>10, <1>11 DEF MemSound, TopNode
<1>13. Settled(m) \subseteq Settled(n)
  <2>1. Lists(n) \subseteq Lists(m) \cup {Len(m.heap) + 1}
    <3>1. \A k \in 1..Len(m.lns) : n.lns[k] = m.lns[k]
      BY <1>7, <1>8
    <3>2. n.lns[Len(m.lns) + 1].node = Len(m.heap) + 1 /\ Len(n.lns) = Len(m.lns) + 1
      BY <1>6, <1>7, <1>8
    <3>3. ASSUME NEW k \in 1..Len(n.lns) PROVE n.lns[k].node \in Lists(m) \cup {Len(m.heap) + 1}
      <4>1. CASE k \in 1..Len(m.lns)
        BY <3>1, <4>1 DEF Lists, Low
      <4>2. CASE k = Len(m.lns) + 1
        BY <3>2, <4>2
      <4> QED
        BY <1>0, <3>2, <4>1, <4>2
    <3> QED
      BY <3>3 DEF Lists, Low
  <2>2. \A k \in 1..Len(m.heap) : n.heap[k] = m.heap[k]
    BY <1>2, <1>8 DEF Adds
  <2> HIDE DEF Lists
  <2> QED
    BY <1>0, <1>5, <1>8, <2>1, <2>2 DEF Settled
<1>14. Keeps(m, n, Len(m.lns))
  <2> HIDE DEF Settled
  <2> QED
    BY <1>0, <1>5, <1>7, <1>8, <1>13 DEF Keeps
<1>15. ASSUME Held(m), chs \in Seq(Settled(m)), NEW k \in 1..Len(n.heap), n.heap[k].live
       PROVE  n.heap[k].childs \in Seq(Settled(n))
  <2>1. n.heap[k].childs \in Seq(Settled(m))
    <3>1. CASE k \in 1..Len(m.heap)
      <4>1. n.heap[k] = m.heap[k]
        BY <1>2, <1>8, <3>1 DEF Adds
      <4> QED
        BY <1>15, <3>1, <4>1 DEF Held
    <3>2. CASE k = Len(m.heap) + 1
      BY <1>1, <1>5, <1>8, <1>15, <3>2
    <3> QED
      BY <1>0, <1>5, <1>8, <1>15, <3>1, <3>2
  <2> QED
    BY <1>13, <2>1, SeqMonotonic
<1>16. Held(m) /\ chs \in Seq(Settled(m)) => Held(n)
  BY <1>15 DEF Held
<1> QED
  BY <1>7, <1>8, <1>9, <1>12, <1>14, <1>16 DEF n
-----------------------------------------------------------------------------
(* The list on top grows.                                                  *)

\* The node n of a heap set to another.
LEMMA HeapSet ==
  ASSUME NEW heap \in Seq(MemNodes), NEW x \in 1..Len(heap), NEW node \in MemNodes
  PROVE  LET set == [heap EXCEPT ![x] = node]
         IN /\ set \in Seq(MemNodes) /\ Len(set) = Len(heap)
            /\ \A k \in 1..Len(heap) : set[k] = IF k = x THEN node ELSE heap[k]
BY ExceptSeq

\* The buffer on top of n holds k children; it is that of m, in its place or moved.
Grown(m, n, k) ==
  /\ n \in Mems /\ Len(n.lns) = Len(m.lns)
  /\ \A i \in 1..Len(m.lns) - 1 : n.lns[i] = m.lns[i]
  /\ n.ln_cn = TopNode(n)
  /\ k <= n.lns[Len(n.lns)].max_childs /\ m.lns[Len(m.lns)].max_childs <= n.lns[Len(n.lns)].max_childs
  /\ \/ TopNode(n) = TopNode(m) /\ Len(n.heap) = Len(m.heap)
     \/ TopNode(n) = Len(m.heap) + 1 /\ Len(n.heap) = Len(m.heap) + 1 /\ ~n.heap[TopNode(m)].live
  /\ n.heap[TopNode(n)] = m.heap[TopNode(m)]
  /\ \A i \in 1..Len(m.heap) : i # TopNode(m) => n.heap[i] = m.heap[i]

LEMMA ReserveGrows ==
  ASSUME NEW m, MemSound(m), m.lns # <<>>, NEW k \in Nat, NEW moves \in BOOLEAN
  PROVE  Grown(m, Reserve(m, k, moves), k)
<1> DEFINE l    == Len(m.lns)
           top  == m.lns[l]
           cap  == IF k > 2 * top.max_childs THEN k ELSE 2 * top.max_childs
           new  == IF moves THEN Create(m, m.heap[top.node]) ELSE m
           at   == IF moves THEN Newest(new) ELSE top.node
           node == [new.heap[top.node] EXCEPT !.live = ~moves]
           heap == [new.heap EXCEPT ![top.node] = node]
           buf  == [node |-> at, max_childs |-> cap]
           lns  == [new.lns EXCEPT ![l] = buf]
           n    == Reserve(m, k, moves)
<1>1. /\ l \in Nat \ {0} /\ top.node = TopNode(m) /\ top.node \in 1..Len(m.heap)
      /\ m.heap[top.node] \in MemNodes /\ m.heap[top.node].live /\ m.ln_cn = top.node
      /\ top.max_childs \in Nat
      /\ m \in Mems /\ m.heap \in Seq(MemNodes) /\ m.lns \in Seq(Buffers) /\ Len(m.heap) \in Nat
  <2>1. l \in Nat \ {0} /\ top.node = TopNode(m) /\ top.node \in 1..Len(m.heap)
        /\ m.heap[top.node] \in MemNodes /\ m.heap[top.node].live /\ m.ln_cn = top.node
    BY TopHolds DEF TopNode
  <2>2. m \in Mems /\ m.heap \in Seq(MemNodes) /\ m.lns \in Seq(Buffers) /\ Len(m.heap) \in Nat
    BY MemTyped DEF MemSound
  <2>3. top \in Buffers
    BY <2>1, <2>2, ElementOfSeq
  <2> QED
    BY <2>1, <2>2, <2>3 DEF Buffers
<1>2. CASE k <= top.max_childs
  <2>1. n = m
    BY <1>2 DEF Reserve, Last
  <2> HIDE DEF n, l
  <2>2. Grown(m, m, k)
    BY <1>1, <1>2 DEF Grown, TopNode, l
  <2> QED
    BY <2>1, <2>2 DEF n
<1>3. CASE ~(k <= top.max_childs)
  <2>1. n = [new EXCEPT !.heap = heap, !.lns = lns, !.ln_cn = at]
    BY <1>3 DEF Reserve, Last
  <2>2. cap \in Nat /\ k <= cap /\ top.max_childs <= cap
    <3> HIDE DEF top
    <3> QED
      BY <1>1
  <2> HIDE DEF n, cap
  <2>3. /\ new \in Mems /\ new.lns = m.lns /\ new.heap \in Seq(MemNodes)
        /\ new.heap[top.node] = m.heap[top.node] /\ top.node \in 1..Len(new.heap)
        /\ \A i \in 1..Len(m.heap) : new.heap[i] = m.heap[i]
        /\ ~moves => Len(new.heap) = Len(m.heap) /\ at = top.node
        /\ moves => /\ Len(new.heap) = Len(m.heap) + 1 /\ at = Len(m.heap) + 1
                    /\ new.heap[at] = m.heap[top.node]
    <3>1. CASE moves
      <4>1. Adds(m, new, m.heap[top.node])
        BY <1>1, <3>1, CreateAdds
      <4>2. at = Len(new.heap)
        BY <3>1 DEF Newest
      <4> HIDE DEF new, top, at
      <4>3. new.heap \in Seq(MemNodes)
        BY <4>1, MemTyped DEF Adds
      <4> QED
        BY <1>1, <3>1, <4>1, <4>2, <4>3 DEF Adds
    <3>2. CASE ~moves
      <4>1. new = m /\ at = top.node
        BY <3>2
      <4> HIDE DEF new, top, at
      <4> QED
        BY <1>1, <3>2, <4>1
    <3> QED
      BY <3>1, <3>2
  <2>4. node \in MemNodes /\ node.live = ~moves /\ (~moves => node = m.heap[top.node])
    <3> DEFINE old == m.heap[top.node]
    <3>1. node = [old EXCEPT !.live = ~moves] /\ old \in MemNodes /\ old.live
      BY <1>1, <2>3
    <3> HIDE DEF node, old
    <3>2. node \in MemNodes /\ node.live = ~moves
      BY <3>1 DEF MemNodes
    <3>3. ~moves => node = old
      BY <3>1 DEF MemNodes
    <3> QED
      BY <3>2, <3>3 DEF old
  <2> HIDE DEF new, at, node
  <2>5. /\ heap \in Seq(MemNodes) /\ Len(heap) = Len(new.heap)
        /\ \A i \in 1..Len(new.heap) : heap[i] = IF i = top.node THEN node ELSE new.heap[i]
    <3> HIDE DEF top
    <3> QED
      BY <2>3, <2>4, HeapSet
  <2> HIDE DEF heap, top
  <2>6. buf \in Buffers /\ buf.node = at /\ buf.max_childs = cap
    <3>1. at \in Nat
      BY <1>1, <2>3
    <3> QED
      BY <2>2, <3>1 DEF Buffers
  <2> HIDE DEF buf
  <2>7. /\ lns \in Seq(Buffers) /\ Len(lns) = l /\ lns[l] = buf
        /\ \A i \in 1..l - 1 : lns[i] = m.lns[i]
    <3>1. /\ lns \in Seq(Buffers) /\ Len(lns) = Len(m.lns)
          /\ \A i \in 1..Len(m.lns) : lns[i] = IF i = l THEN buf ELSE m.lns[i]
      <4>1. l \in 1..Len(m.lns)
        BY <1>1
      <4> HIDE DEF l
      <4> QED
        BY <1>1, <2>3, <2>6, <4>1, ExceptSeq
    <3>2. l \in 1..Len(m.lns) /\ (\A i \in 1..l - 1 : i \in 1..Len(m.lns) /\ i # l) /\ Len(m.lns) = l
      BY <1>1
    <3> HIDE DEF l, lns
    <3> QED
      BY <3>1, <3>2
  <2> HIDE DEF lns
  <2>8. n.heap = heap /\ n.lns = lns /\ n.ln_cn = at /\ n \in Mems
    <3>1. n.heap = heap /\ n.lns = lns /\ n.ln_cn = at
      BY <2>1, <2>3 DEF Mems
    <3>2. at \in Nat
      BY <1>1, <2>3
    <3>3. n \in Mems
      BY <2>1, <2>3, <2>5, <2>7, <3>2 DEF Mems
    <3> QED
      BY <3>1, <3>3
  <2>9. TopNode(n) = at /\ n.lns[Len(n.lns)].max_childs = cap
    BY <2>6, <2>7, <2>8 DEF TopNode
  <2>10. \/ TopNode(n) = TopNode(m) /\ Len(n.heap) = Len(m.heap)
         \/ /\ TopNode(n) = Len(m.heap) + 1 /\ Len(n.heap) = Len(m.heap) + 1
            /\ ~n.heap[TopNode(m)].live
    <3>1. CASE moves
      <4>1. n.heap[top.node] = node
        BY <2>3, <2>5, <2>8
      <4> QED
        BY <1>1, <2>3, <2>4, <2>5, <2>8, <2>9, <3>1, <4>1
    <3>2. CASE ~moves
      BY <1>1, <2>3, <2>5, <2>8, <2>9, <3>2
    <3> QED
      BY <3>1, <3>2
  <2>11. n.heap[TopNode(n)] = m.heap[TopNode(m)]
    <3>1. CASE moves
      <4>1. at \in 1..Len(new.heap) /\ at # top.node
        BY <1>1, <2>3, <3>1
      <4> QED
        BY <1>1, <2>3, <2>5, <2>8, <2>9, <3>1, <4>1
    <3>2. CASE ~moves
      BY <1>1, <2>3, <2>4, <2>5, <2>8, <2>9, <3>2
    <3> QED
      BY <3>1, <3>2
  <2>12. \A i \in 1..Len(m.heap) : i # TopNode(m) => n.heap[i] = m.heap[i]
    <3>1. \A i \in 1..Len(m.heap) : i \in 1..Len(new.heap)
      BY <1>1, <2>3
    <3> QED
      BY <1>1, <2>3, <2>5, <2>8, <3>1
  <2>13. Len(n.lns) = Len(m.lns) /\ \A i \in 1..Len(m.lns) - 1 : n.lns[i] = m.lns[i]
    BY <2>7, <2>8
  <2>14. /\ k <= n.lns[Len(n.lns)].max_childs
         /\ m.lns[Len(m.lns)].max_childs <= n.lns[Len(n.lns)].max_childs
    BY <2>2, <2>9 DEF top
  <2> QED
    BY <2>8, <2>9, <2>10, <2>11, <2>12, <2>13, <2>14 DEF Grown, n
<1> QED
  BY <1>2, <1>3

\* The list on top takes other children, for which there is room.
LEMMA GrownKeeps ==
  ASSUME NEW m, MemSound(m), m.lns # <<>>, NEW chs \in Seq(Nat), NEW n, Grown(m, n, Len(chs))
  PROVE  LET o == [n EXCEPT !.heap[n.ln_cn].childs = chs]
         IN /\ MemSound(o) /\ Keeps(m, o, Len(m.lns) - 1)
            /\ Len(o.lns) = Len(m.lns) /\ o.ln_cn = TopNode(o)
            /\ Held(m) /\ chs \in Seq(Settled(m)) => Held(o)
<1> DEFINE l    == Len(m.lns)
           old  == TopNode(m)
           at   == TopNode(n)
           node == [n.heap[at] EXCEPT !.childs = chs]
           heap == [n.heap EXCEPT ![at] = node]
           o    == [n EXCEPT !.heap[n.ln_cn].childs = chs]
<1>1. /\ l \in Nat \ {0} /\ old \in 1..Len(m.heap) /\ m.heap[old] \in MemNodes /\ m.heap[old].live
      /\ \A i \in 1..l - 1 : m.lns[i].node # old
      /\ m \in Mems /\ Len(m.heap) \in Nat
  BY TopHolds, MemTyped DEF MemSound
<1>2. /\ n \in Mems /\ Len(n.lns) = l
      /\ \A i \in 1..l - 1 : n.lns[i] = m.lns[i]
      /\ n.ln_cn = at /\ Len(chs) <= n.lns[l].max_childs
      /\ \/ at = old /\ Len(n.heap) = Len(m.heap)
         \/ at = Len(m.heap) + 1 /\ Len(n.heap) = Len(m.heap) + 1 /\ ~n.heap[old].live
      /\ n.heap[at] = m.heap[old] /\ n.lns[l].node = at
      /\ \A i \in 1..Len(m.heap) : i # old => n.heap[i] = m.heap[i]
  BY DEF Grown, TopNode
<1>3. n.heap \in Seq(MemNodes) /\ n.lns \in Seq(Buffers) /\ at \in 1..Len(n.heap)
  <2>1. n.heap \in Seq(MemNodes) /\ n.lns \in Seq(Buffers)
    BY <1>2, MemTyped
  <2> HIDE DEF at, old
  <2> QED
    BY <1>1, <1>2, <2>1
<1>4. node \in MemNodes /\ node.live /\ node.childs = chs
  <2>1. n.heap[at] \in MemNodes /\ n.heap[at].live
    BY <1>1, <1>2
  <2> HIDE DEF at
  <2> QED
    BY <2>1 DEF MemNodes
<1>5. o = [n EXCEPT !.heap = heap]
  BY <1>2
<1> HIDE DEF node, at, o
<1>6. /\ heap \in Seq(MemNodes) /\ Len(heap) = Len(n.heap)
      /\ \A k \in 1..Len(n.heap) : heap[k] = IF k = at THEN node ELSE n.heap[k]
  BY <1>3, <1>4, HeapSet
<1> HIDE DEF heap
<1>7. o.heap = heap /\ o.lns = n.lns /\ o.ln_cn = at /\ o \in Mems
  <2>1. o.heap = heap /\ o.lns = n.lns /\ o.ln_cn = at
    BY <1>2, <1>5 DEF Mems
  <2>2. o \in Mems
    BY <1>2, <1>5, <1>6 DEF Mems
  <2> QED
    BY <2>1, <2>2
<1>8. /\ o.heap[at] = node /\ Len(o.heap) = Len(n.heap) /\ Len(m.heap) <= Len(o.heap)
      /\ at \in 1..Len(o.heap)
      /\ \A k \in 1..Len(m.heap) : k # old /\ k # at => o.heap[k] = m.heap[k]
  <2>1. Len(n.heap) \in {Len(m.heap), Len(m.heap) + 1}
    BY <1>2
  <2>2. \A k \in 1..Len(m.heap) : k \in 1..Len(n.heap)
    BY <1>1, <2>1
  <2> HIDE DEF old
  <2> QED
    BY <1>1, <1>2, <1>3, <1>6, <1>7, <2>1, <2>2
<1>9. \A i \in 1..l - 1 : m.lns[i].node # at /\ m.lns[i].node # old /\ m.lns[i].node \in 1..Len(m.heap)
  <2> TAKE i \in 1..l - 1
  <2>1. i \in 1..l
    BY <1>1
  <2>2. HoldsList(m.heap, m.lns[i])
    BY <2>1 DEF MemSound
  <2>3. m.lns[i].node \in 1..Len(m.heap)
    BY <2>2 DEF HoldsList
  <2>4. at = old \/ at = Len(m.heap) + 1
    BY <1>2
  <2> HIDE DEF old
  <2> QED
    BY <1>1, <2>3, <2>4
<1>10. ASSUME NEW i \in 1..l PROVE HoldsList(o.heap, o.lns[i])
  <2>1. CASE i \in 1..l - 1
    <3>1. HoldsList(m.heap, m.lns[i])
      BY <1>10 DEF MemSound
    <3>2. o.lns[i] = m.lns[i] /\ o.heap[m.lns[i].node] = m.heap[m.lns[i].node]
      BY <1>2, <1>7, <1>8, <1>9, <2>1
    <3>3. m.lns[i].node \in 1..Len(o.heap)
      <4>1. Len(o.heap) \in Nat /\ m.lns[i].node \in 1..Len(m.heap)
        BY <1>7, <1>9, <2>1, MemTyped
      <4> QED
        BY <1>1, <1>8, <4>1
    <3> QED
      BY <3>1, <3>2, <3>3 DEF HoldsList
  <2>2. CASE i = l
    <3>1. o.lns[i] = n.lns[l] /\ o.lns[i].node = at
      BY <1>2, <1>7, <2>2
    <3> QED
      BY <1>2, <1>4, <1>8, <3>1 DEF HoldsList
  <2> QED
    BY <1>1, <2>1, <2>2
<1>11. \A i, j \in 1..l : o.lns[i].node = o.lns[j].node => i = j
  <2>1. \A i \in 1..l - 1 : o.lns[i].node = m.lns[i].node /\ m.lns[i].node # at
    BY <1>2, <1>7, <1>9
  <2>2. o.lns[l].node = at
    BY <1>2, <1>7
  <2> TAKE i, j \in 1..l
  <2> HAVE o.lns[i].node = o.lns[j].node
  <2>3. (i \in 1..l - 1 \/ i = l) /\ (j \in 1..l - 1 \/ j = l)
    BY <1>1
  <2>4. CASE i \in 1..l - 1 /\ j \in 1..l - 1
    BY <2>1, <2>4 DEF MemSound
  <2>5. CASE i = l \/ j = l
    BY <2>1, <2>2, <2>3, <2>5
  <2> QED
    BY <2>3, <2>4, <2>5
<1>12. o.lns # <<>> /\ o.ln_cn = TopNode(o) /\ Len(o.lns) = l
  <2>1. Len(o.lns) = l /\ o.ln_cn = TopNode(o)
    BY <1>2, <1>7 DEF TopNode
  <2>2. o.lns # <<>>
    BY <1>1, <2>1
  <2> QED
    BY <2>1, <2>2
<1>13. MemSound(o)
  BY <1>7, <1>10, <1>11, <1>12 DEF MemSound, TopNode
<1>14. Settled(m) \subseteq Settled(o)
  <2> SUFFICES ASSUME NEW x \in Settled(m) PROVE x \in Settled(o)
    OBVIOUS
  <2>1. x \in 1..Len(m.heap) /\ m.heap[x].live /\ x \notin Lists(m)
    BY DEF Settled
  <2>2. \A i \in 1..l : m.lns[i].node # x
    BY <2>1 DEF Lists, Low
  <2>3. old # x
    BY <1>1, <2>2 DEF TopNode
  <2>4. at # x
    BY <1>1, <1>2, <2>1, <2>3
  <2>5. \A i \in 1..l : o.lns[i].node # x
    <3> TAKE i \in 1..l
    <3>1. CASE i = l
      BY <1>2, <1>7, <2>4, <3>1
    <3>2. CASE i \in 1..l - 1
      BY <1>2, <1>7, <2>2, <3>2
    <3> QED
      BY <1>1, <3>1, <3>2
  <2>6. x \notin Lists(o)
    BY <1>12, <2>5 DEF Lists, Low
  <2>7. x \in 1..Len(o.heap) /\ o.heap[x].live
    BY <1>1, <1>8, <2>1, <2>3, <2>4
  <2> QED
    BY <2>6, <2>7 DEF Settled
<1>15. Keeps(m, o, l - 1)
  <2> HIDE DEF Settled
  <2> QED
    BY <1>1, <1>2, <1>7, <1>8, <1>12, <1>14 DEF Keeps
<1>16. ASSUME Held(m), chs \in Seq(Settled(m)), NEW k \in 1..Len(o.heap), o.heap[k].live
       PROVE  o.heap[k].childs \in Seq(Settled(o))
  <2>1. o.heap[k].childs \in Seq(Settled(m))
    <3>1. CASE k = at
      BY <1>4, <1>8, <1>16, <3>1
    <3>2. CASE k # at
      <4>1. k \in 1..Len(m.heap) /\ k # old
        <5>1. CASE at = old /\ Len(n.heap) = Len(m.heap)
          BY <1>8, <1>16, <3>2, <5>1
        <5>2. CASE at = Len(m.heap) + 1 /\ Len(n.heap) = Len(m.heap) + 1 /\ ~n.heap[old].live
          <6>1. k # old
            <7>1. old \in 1..Len(n.heap) /\ old # at
              BY <1>1, <5>2
            <7>2. ~o.heap[old].live
              BY <1>6, <1>7, <5>2, <7>1
            <7> QED
              BY <1>16, <7>2
          <6> HIDE DEF old
          <6> QED
            BY <1>1, <1>8, <1>16, <3>2, <5>2, <6>1
        <5> QED
          BY <1>2, <5>1, <5>2
      <4>2. o.heap[k] = m.heap[k]
        BY <1>8, <3>2, <4>1
      <4> QED
        BY <1>16, <4>1, <4>2 DEF Held
    <3> QED
      BY <3>1, <3>2
  <2> QED
    BY <1>14, <2>1, SeqMonotonic
<1>17. Held(m) /\ chs \in Seq(Settled(m)) => Held(o)
  BY <1>16 DEF Held
<1> QED
  BY <1>12, <1>13, <1>15, <1>17 DEF o
-----------------------------------------------------------------------------
(* The branches of operator() on a reduction.                              *)

Cands == [item : StackItems, node : Nat]

\* The candidates are there and none of them is one of the first b lists.
Offered(m, ccs, b) ==
  /\ ccs \in Seq(Cands)
  /\ \A i \in 1..Len(ccs) : ccs[i].node \in 1..Len(m.heap) /\ ccs[i].node \notin Low(m, b)

\* What a branch makes of m: a node d.pointer that is not one of the first b lists.
Done(m, d, b) == /\ MemSound(d.mem) /\ Keeps(m, d.mem, b)
                 /\ d.pointer \in 1..Len(d.mem.heap) /\ d.pointer \notin Low(m, b)

IsList(item) == item.production # NoProd /\ ListifyRecursion(item.production)

\* Of the candidates only the j-th is a list of lns, the one that is begun above the
\* first b, and it alone can be the recursion; with j = 0 none is.
OneBegun(m, ccs, b, j) ==
  /\ j \in 0..Len(ccs)
  /\ Len(m.lns) = (IF j = 0 THEN b ELSE b + 1)
  /\ \A i \in 1..Len(ccs) : i # j => ccs[i].node \in Settled(m) /\ ~IsList(ccs[i].item)
  /\ j # 0 => /\ IsList(ccs[j].item) /\ ccs[j].node = TopNode(m)
              /\ \A i \in 1..Len(ccs) : i # j /\ ccs[i].item.production # NoProd =>
                   Productions[ccs[i].item.production].head \notin ListHeads

\* A list that is on top, or a node that stays.
Ends(d, b, list) == /\ Held(d.mem)
                    /\ IF list THEN Len(d.mem.lns) = b + 1 /\ d.pointer = TopNode(d.mem)
                       ELSE Len(d.mem.lns) = b /\ d.pointer \in Settled(d.mem)

LEMMA PointersIn ==
  ASSUME NEW S, NEW ccs \in Seq(Cands), \A i \in 1..Len(ccs) : ccs[i].node \in S
  PROVE  /\ Pointers(ccs) \in Seq(S) /\ Len(Pointers(ccs)) = Len(ccs)
         /\ \A i \in 1..Len(ccs) : Pointers(ccs)[i] = ccs[i].node
<1>1. Len(ccs) \in Nat /\ DOMAIN ccs = 1..Len(ccs)
  BY LenProperties
<1>2. Pointers(ccs) \in [1..Len(ccs) -> S]
  BY <1>1 DEF Pointers
<1> QED
  BY <1>1, <1>2, FunctionIsSeq DEF Pointers

\* What lies before and behind the fi-th of a sequence.
LEMMA Around ==
  ASSUME NEW S, NEW s, Len(s) \in Nat, NEW fi \in 1..Len(s),
         \A i \in 1..Len(s) : i # fi => s[i] \in S
  PROVE  SubSeq(s, 1, fi - 1) \in Seq(S) /\ SubSeq(s, fi + 1, Len(s)) \in Seq(S)
<1>1. \A i \in 1..fi - 1 : s[i] \in S
  OBVIOUS
<1>2. \A i \in fi + 1..Len(s) : s[i] \in S
  OBVIOUS
<1>3. SubSeq(s, 1, fi - 1) \in Seq(S)
  BY <1>1, SubSeqProperties
<1>4. SubSeq(s, fi + 1, Len(s)) \in Seq(S)
  BY <1>2, SubSeqProperties
<1> QED
  BY <1>3, <1>4

\* The recursion's list takes the other candidates.
LEMMA MergeDone ==
  ASSUME NEW m, MemSound(m), NEW b \in 0..Len(m.lns), Len(m.lns) > b,
         NEW ccs, Offered(m, ccs, b), NEW fi \in 1..Len(ccs), NEW moves \in BOOLEAN
  PROVE  LET d == MergeIntoTop(m, ccs, fi, moves)
         IN /\ Done(m, d, b) /\ Len(d.mem.lns) = Len(m.lns) /\ d.pointer = TopNode(d.mem)
            /\ Held(m) /\ (\A i \in 1..Len(ccs) : i # fi => ccs[i].node \in Settled(m))
                 => Held(d.mem)
<1> DEFINE ptrs == Pointers(ccs)
           old  == m.heap[Last(m.lns).node].childs
           pre  == SubSeq(ptrs, 1, fi - 1)
           post == SubSeq(ptrs, fi + 1, Len(ccs))
           chs  == pre \o old \o post
           room == Reserve(m, Len(chs), moves)
           o    == [room EXCEPT !.heap[room.ln_cn].childs = chs]
           d    == MergeIntoTop(m, ccs, fi, moves)
<1>1. /\ m \in Mems /\ Len(m.lns) \in Nat /\ Len(m.heap) \in Nat /\ m.lns # <<>>
      /\ ccs \in Seq(Cands) /\ Len(ccs) \in Nat
      /\ \A i \in 1..Len(ccs) : ccs[i].node \in Nat
  <2>1. m \in Mems /\ Len(m.lns) \in Nat /\ Len(m.heap) \in Nat /\ ccs \in Seq(Cands)
    BY MemTyped DEF MemSound, Offered
  <2>2. \A i \in 1..Len(ccs) : ccs[i].node \in Nat
    BY <2>1 DEF Offered
  <2>3. m.lns # <<>>
    BY <2>1
  <2> QED
    BY <2>1, <2>2, <2>3, LenProperties
<1>2. /\ old \in Seq(Nat) /\ TopNode(m) \in 1..Len(m.heap) /\ m.heap[TopNode(m)].live
      /\ old = m.heap[TopNode(m)].childs
  BY <1>1, TopHolds DEF TopNode, Last
<1>3. ASSUME NEW S, \A i \in 1..Len(ccs) : i # fi => ccs[i].node \in S
      PROVE  pre \in Seq(S) /\ post \in Seq(S)
  <2>1. Len(ptrs) = Len(ccs) /\ \A i \in 1..Len(ccs) : ptrs[i] = ccs[i].node
    BY <1>1, PointersIn
  <2> HIDE DEF ptrs
  <2>2. Len(ptrs) \in Nat /\ fi \in 1..Len(ptrs) /\ \A i \in 1..Len(ptrs) : i # fi => ptrs[i] \in S
    BY <1>1, <1>3, <2>1
  <2> QED
    BY <2>1, <2>2, Around
<1>4. pre \in Seq(Nat) /\ post \in Seq(Nat)
  BY <1>1, <1>3
<1>5. d = [mem |-> o, pointer |-> room.ln_cn]
  BY DEF MergeIntoTop, Settle
<1> HIDE DEF pre, post, old
<1>6. chs \in Seq(Nat) /\ Len(chs) \in Nat
  <2>1. pre \o old \in Seq(Nat)
    BY <1>2, <1>4, ConcatProperties
  <2>2. chs \in Seq(Nat)
    BY <1>4, <2>1, ConcatProperties
  <2> QED
    BY <2>2, LenProperties
<1>7. ASSUME Held(m), \A i \in 1..Len(ccs) : i # fi => ccs[i].node \in Settled(m)
      PROVE  chs \in Seq(Settled(m))
  <2>1. old \in Seq(Settled(m))
    BY <1>2, <1>7 DEF Held
  <2>2. pre \in Seq(Settled(m)) /\ post \in Seq(Settled(m))
    BY <1>3, <1>7
  <2>3. pre \o old \in Seq(Settled(m))
    BY <2>1, <2>2, ConcatProperties
  <2> QED
    BY <2>2, <2>3, ConcatProperties
<1> HIDE DEF chs
<1>8. Grown(m, room, Len(chs))
  BY <1>1, <1>6, ReserveGrows
<1> HIDE DEF room, d
<1>9. /\ MemSound(o) /\ Keeps(m, o, Len(m.lns) - 1)
      /\ Len(o.lns) = Len(m.lns) /\ o.ln_cn = TopNode(o)
      /\ Held(m) /\ chs \in Seq(Settled(m)) => Held(o)
  BY <1>1, <1>6, <1>8, GrownKeeps
<1>10. o.ln_cn = room.ln_cn
  BY <1>8 DEF Grown, Mems
<1> HIDE DEF o
<1>11. d.mem = o /\ d.pointer = TopNode(o)
  BY <1>5, <1>9, <1>10
<1>12. Keeps(m, o, b)
  <2>1. b \in 0..Len(m.lns) - 1 /\ o \in Mems
    BY <1>1, <1>9 DEF MemSound
  <2> QED
    BY <1>1, <1>9, <2>1, KeepsLess
<1>13. TopNode(o) \in 1..Len(o.heap) /\ TopNode(o) \notin Low(o, b)
  <2>1. o.lns # <<>>
    BY <1>1, <1>9
  <2>2. \A i \in 1..b : i \in 1..Len(o.lns) - 1
    BY <1>1, <1>9
  <2> QED
    BY <1>9, <2>1, <2>2, TopHolds DEF Low
<1>14. TopNode(o) \notin Low(m, b)
  BY <1>12, <1>13, KeepsLow
<1> QED
  BY <1>7, <1>9, <1>11, <1>12, <1>13, <1>14 DEF Done, d

\* A new list on top of the others.
LEMMA StartDone ==
  ASSUME NEW m, MemSound(m), NEW b \in 0..Len(m.lns), NEW p \in ProdIdx,
         NEW ccs, Offered(m, ccs, b), NEW fi \in 0..Len(ccs)
  PROVE  LET d == StartList(m, p, ccs, fi)
         IN /\ Done(m, d, b) /\ Len(d.mem.lns) = Len(m.lns) + 1 /\ d.pointer = TopNode(d.mem)
            /\ Held(m) /\ (\A i \in 1..Len(ccs) : ccs[i].node \in Settled(m)) => Held(d.mem)
<1> DEFINE ends == fi # 0 /\ Productions[ccs[fi].item.production].handles = <<>>
           kept == IF ends THEN RemoveAt(ccs, fi) ELSE ccs
           chs  == Pointers(kept)
           n    == PushListNode(m, p, chs)
           d    == StartList(m, p, ccs, fi)
<1>1. /\ m \in Mems /\ Len(m.lns) \in Nat /\ Len(m.heap) \in Nat
      /\ ccs \in Seq(Cands) /\ Len(ccs) \in Nat
      /\ \A i \in 1..Len(ccs) : ccs[i].node \in Nat
  <2>1. m \in Mems /\ Len(m.lns) \in Nat /\ Len(m.heap) \in Nat /\ ccs \in Seq(Cands)
    BY MemTyped DEF MemSound, Offered
  <2>2. \A i \in 1..Len(ccs) : ccs[i].node \in Nat
    BY <2>1 DEF Offered
  <2> QED
    BY <2>1, <2>2, LenProperties
<1>2. d = [mem |-> n, pointer |-> n.ln_cn]
  BY DEF StartList, Settle
<1>3. ASSUME NEW S, \A i \in 1..Len(ccs) : ccs[i].node \in S
      PROVE  chs \in Seq(S)
  <2> DEFINE C == {c \in Cands : c.node \in S}
  <2>1. \A i \in 1..Len(ccs) : ccs[i] \in C
    BY <1>1, <1>3, ElementOfSeq
  <2>2. ccs \in Seq(C)
    BY <1>1, <2>1, FunctionIsSeq, LenProperties
  <2>3. kept \in Seq(C)
    <3>1. CASE ends
      <4>1. SubSeq(ccs, 1, fi - 1) \in Seq(C) /\ SubSeq(ccs, fi + 1, Len(ccs)) \in Seq(C)
        <5>1. fi \in 1..Len(ccs)
          BY <1>1, <3>1
        <5> HIDE DEF C
        <5> QED
          BY <1>1, <2>1, <5>1, Around
      <4> HIDE DEF C
      <4> QED
        BY <3>1, <4>1, ConcatProperties DEF RemoveAt
    <3> QED
      BY <2>2, <3>1
  <2> HIDE DEF kept
  <2>4. \A i \in 1..Len(kept) : kept[i] \in Cands /\ kept[i].node \in S
    <3>1. \A i \in 1..Len(kept) : kept[i] \in C
      <4> HIDE DEF C
      <4> QED
        BY <2>3, ElementOfSeq
    <3> QED
      BY <3>1
  <2>5. kept \in Seq(Cands)
    <3>1. C \subseteq Cands
      OBVIOUS
    <3> HIDE DEF C
    <3> QED
      BY <2>3, <3>1, SeqMonotonic
  <2> QED
    BY <2>4, <2>5, PointersIn
<1> HIDE DEF chs
<1>4. chs \in Seq(Nat)
  BY <1>1, <1>3
<1>5. /\ MemSound(n) /\ Keeps(m, n, Len(m.lns))
      /\ Len(n.lns) = Len(m.lns) + 1
      /\ n.ln_cn = TopNode(n)
      /\ Held(m) /\ chs \in Seq(Settled(m)) => Held(n)
  BY <1>4, PushKeeps
<1> HIDE DEF n, d
<1>6. d.mem = n /\ d.pointer = TopNode(n)
  BY <1>2, <1>5
<1>7. Keeps(m, n, b)
  <2>1. n \in Mems
    BY <1>5 DEF MemSound
  <2> QED
    BY <1>1, <1>5, <2>1, KeepsLess
<1>8. TopNode(n) \in 1..Len(n.heap) /\ TopNode(n) \notin Low(n, b)
  <2>1. n.lns # <<>>
    BY <1>1, <1>5
  <2>2. \A i \in 1..b : i \in 1..Len(n.lns) - 1
    BY <1>1, <1>5
  <2> QED
    BY <1>5, <2>1, <2>2, TopHolds DEF Low
<1>9. TopNode(n) \notin Low(m, b)
  BY <1>7, <1>8, KeepsLow
<1>10. Held(m) /\ (\A i \in 1..Len(ccs) : ccs[i].node \in Settled(m)) => Held(n)
  BY <1>3, <1>5
<1> QED
  BY <1>5, <1>6, <1>7, <1>8, <1>9, <1>10 DEF Done, d
-----------------------------------------------------------------------------
(* The children of a node that is no list.                                 *)

\* the loop of operator() over the candidates, one turn
Turned(p, a, c) == IF MergeChild(p) THEN MergeChilds(a, c) ELSE AddChild(a, c)

\* What the loop may have made of m after some turns.
Gatherings(m, b) == {a \in [mem : Mems, chs : Seq(Nat)] : MemSound(a.mem) /\ Keeps(m, a.mem, b)}

\* a candidate that the loop may come to
Takes(m, c, b) == c \in Cands /\ c.node \in 1..Len(m.heap) /\ c.node \notin Low(m, b)

\* A node taken as a child, after the children that were taken before it.
LEMMA AddTurn ==
  ASSUME NEW m, MemSound(m), NEW b \in 0..Len(m.lns), NEW c, Takes(m, c, b),
         NEW a \in Gatherings(m, b)
  PROVE  LET t == AddChild(a, c)
         IN /\ t \in Gatherings(m, b)
            /\ Held(a.mem) /\ a.chs \in Seq(Settled(a.mem)) =>
                 /\ c.node \in Settled(a.mem) =>
                      t.mem = a.mem /\ t.chs \in Seq(Settled(t.mem))
                 /\ c.node = a.mem.ln_cn =>
                      /\ Len(t.mem.lns) = Len(a.mem.lns) - 1
                      /\ Held(t.mem) /\ t.chs \in Seq(Settled(t.mem))
<1> DEFINE k == Take(a.mem, c.node)
           t == AddChild(a, c)
<1>1. /\ a.mem \in Mems /\ a.chs \in Seq(Nat) /\ MemSound(a.mem) /\ Keeps(m, a.mem, b)
      /\ m \in Mems
  BY DEF Gatherings, MemSound
<1>2. b \in 0..Len(a.mem.lns) /\ c.node \in 1..Len(a.mem.heap) /\ c.node \notin Low(a.mem, b)
  <2>1. Low(a.mem, b) = Low(m, b)
    BY <1>1, KeepsLow
  <2>2. b <= Len(a.mem.lns) /\ Len(m.heap) <= Len(a.mem.heap)
    BY <1>1 DEF Keeps
  <2>3. /\ Len(m.heap) \in Nat /\ Len(a.mem.heap) \in Nat /\ Len(m.lns) \in Nat
        /\ Len(a.mem.lns) \in Nat
    BY <1>1, MemTyped
  <2> QED
    BY <2>1, <2>2, <2>3 DEF Takes
<1>3. /\ MemSound(k.mem) /\ Keeps(a.mem, k.mem, b)
      /\ k.pointer \in 1..Len(k.mem.heap)
      /\ Held(a.mem) => Held(k.mem)
      /\ c.node = a.mem.ln_cn => /\ Len(k.mem.lns) = Len(a.mem.lns) - 1
                                 /\ k.pointer \in Settled(k.mem)
      /\ c.node # a.mem.ln_cn => k.mem = a.mem /\ k.pointer = c.node
  BY <1>1, <1>2, TakeKeeps
<1> HIDE DEF k
<1>4. t.mem = k.mem /\ t.chs = Append(a.chs, k.pointer)
      /\ t = [mem |-> k.mem, chs |-> Append(a.chs, k.pointer)]
  BY DEF AddChild, k
<1> HIDE DEF t
<1>5. t \in Gatherings(m, b)
  <2>1. k.pointer \in Nat /\ k.mem \in Mems
    BY <1>3 DEF MemSound
  <2>2. Append(a.chs, k.pointer) \in Seq(Nat)
    BY <1>1, <2>1, AppendProperties
  <2>3. Keeps(m, k.mem, b)
    BY <1>1, <1>3, <2>1, KeepsTrans
  <2> QED
    BY <1>3, <1>4, <2>1, <2>2, <2>3 DEF Gatherings
<1>6. ASSUME Held(a.mem), a.chs \in Seq(Settled(a.mem)), c.node \in Settled(a.mem)
      PROVE  t.mem = a.mem /\ t.chs \in Seq(Settled(t.mem))
  <2>1. c.node # a.mem.ln_cn
    <3>1. ASSUME c.node = a.mem.ln_cn PROVE FALSE
      <4>1. a.mem.lns # <<>>
        BY <1>1, <1>2, <3>1 DEF MemSound, Null
      <4>2. a.mem.ln_cn = TopNode(a.mem) /\ Len(a.mem.lns) \in Nat \ {0}
        BY <1>1, <4>1, TopHolds
      <4> QED
        <5>1. c.node = a.mem.lns[Len(a.mem.lns)].node /\ Len(a.mem.lns) \in 1..Len(a.mem.lns)
          BY <3>1, <4>2 DEF TopNode
        <5>2. c.node \in Lists(a.mem)
          BY <5>1 DEF Lists, Low
        <5> QED
          BY <1>6, <5>2 DEF Settled
    <3> QED
      BY <3>1
  <2>2. t.mem = a.mem /\ t.chs = Append(a.chs, c.node)
    BY <1>3, <1>4, <2>1
  <2> QED
    BY <1>6, <2>2, AppendProperties
<1>7. ASSUME Held(a.mem), a.chs \in Seq(Settled(a.mem)), c.node = a.mem.ln_cn
      PROVE  /\ Len(t.mem.lns) = Len(a.mem.lns) - 1
             /\ Held(t.mem) /\ t.chs \in Seq(Settled(t.mem))
  <2>1. a.chs \in Seq(Settled(k.mem))
    BY <1>3, <1>7, SeqMonotonic DEF Keeps
  <2>2. t.chs \in Seq(Settled(t.mem))
    BY <1>3, <1>4, <1>7, <2>1, AppendProperties
  <2> QED
    BY <1>3, <1>4, <1>7, <2>2
<1> QED
  BY <1>5, <1>6, <1>7 DEF t

\* The children of a candidate taken in its place.
LEMMA MergeTurn ==
  ASSUME NEW m, MemSound(m), NEW b \in 0..Len(m.lns), NEW c, Takes(m, c, b),
         NEW a \in Gatherings(m, b)
  PROVE  LET t == MergeChilds(a, c)
         IN /\ t \in Gatherings(m, b)
            /\ Held(a.mem) /\ a.chs \in Seq(Settled(a.mem)) =>
                 /\ c.node \in Settled(a.mem) =>
                      t.mem = a.mem /\ t.chs \in Seq(Settled(t.mem))
                 /\ c.node = a.mem.ln_cn =>
                      /\ Len(t.mem.lns) = Len(a.mem.lns) - 1
                      /\ Held(t.mem) /\ t.chs \in Seq(Settled(t.mem))
<1> DEFINE splice == /\ c.item.production # NoProd
                     /\ c.item.production = a.mem.heap[c.node].production
           chs    == a.mem.heap[c.node].childs
           u      == IF c.node = a.mem.ln_cn THEN PopListNode(a.mem) ELSE a.mem
           t      == MergeChilds(a, c)
<1>1. CASE ~splice
  <2>1. t = AddChild(a, c)
    BY <1>1 DEF MergeChilds, AddChild
  <2> HIDE DEF t
  <2> QED
    BY <2>1, AddTurn DEF t
<1>2. CASE splice
  <2>1. t.mem = u /\ t.chs = a.chs \o chs /\ t = [mem |-> u, chs |-> a.chs \o chs]
    BY <1>2 DEF MergeChilds
  <2> HIDE DEF t
  <2>2. /\ a.mem \in Mems /\ a.chs \in Seq(Nat) /\ MemSound(a.mem) /\ Keeps(m, a.mem, b)
        /\ m \in Mems
    BY DEF Gatherings, MemSound
  <2>3. c.node \in 1..Len(a.mem.heap) /\ c.node \notin Low(a.mem, b) /\ chs \in Seq(Nat)
        /\ b \in 0..Len(a.mem.lns)
    <3>1. Low(a.mem, b) = Low(m, b)
      BY <2>2, KeepsLow
    <3>2. b <= Len(a.mem.lns) /\ Len(m.heap) <= Len(a.mem.heap)
      BY <2>2 DEF Keeps
    <3>3. /\ Len(m.heap) \in Nat /\ Len(a.mem.heap) \in Nat /\ Len(m.lns) \in Nat
          /\ Len(a.mem.lns) \in Nat
      BY <2>2, MemTyped
    <3>4. c.node \in 1..Len(a.mem.heap) /\ c.node \notin Low(a.mem, b) /\ b \in 0..Len(a.mem.lns)
      BY <3>1, <3>2, <3>3 DEF Takes
    <3> QED
      BY <2>2, <3>4, MemTyped
  <2>4. /\ MemSound(u) /\ Keeps(a.mem, u, b)
        /\ Held(a.mem) => Held(u)
        /\ c.node = a.mem.ln_cn => Len(u.lns) = Len(a.mem.lns) - 1 /\ a.mem.lns # <<>>
        /\ c.node # a.mem.ln_cn => u = a.mem
    <3>1. CASE c.node # a.mem.ln_cn
      <4>1. u = a.mem /\ Keeps(a.mem, a.mem, b)
        BY <2>2, <2>3, <3>1, KeepsSame
      <4> HIDE DEF u
      <4> QED
        BY <2>2, <3>1, <4>1
    <3>2. CASE c.node = a.mem.ln_cn
      <4>1. a.mem.lns # <<>>
        BY <2>2, <2>3, <3>2 DEF MemSound, Null
      <4>2. u = PopListNode(a.mem)
        BY <3>2
      <4> HIDE DEF u
      <4>3. Pops(a.mem, u)
        BY <2>2, <4>1, <4>2, PopPops
      <4>4. /\ MemSound(u) /\ Keeps(a.mem, u, Len(a.mem.lns) - 1)
            /\ Len(u.lns) = Len(a.mem.lns) - 1 /\ (Held(a.mem) => Held(u))
        BY <2>2, <4>3, PopsKeeps
      <4>5. b \in 0..Len(a.mem.lns) - 1
        <5>1. TopNode(a.mem) = c.node /\ Len(a.mem.lns) \in Nat \ {0}
          BY <2>2, <3>2, <4>1, TopHolds
        <5>2. b # Len(a.mem.lns)
          BY <2>3, <5>1 DEF TopNode, Low
        <5> QED
          BY <2>3, <5>1, <5>2
      <4>6. Keeps(a.mem, u, b)
        BY <2>2, <4>4, <4>5, KeepsLess DEF MemSound
      <4> QED
        BY <3>2, <4>1, <4>4, <4>6
    <3> QED
      BY <3>1, <3>2
  <2> HIDE DEF u, chs
  <2>5. t \in Gatherings(m, b)
    <3>1. u \in Mems
      BY <2>4 DEF MemSound
    <3>2. a.chs \o chs \in Seq(Nat)
      BY <2>2, <2>3, ConcatProperties
    <3>3. Keeps(m, u, b)
      BY <2>2, <2>4, <3>1, KeepsTrans
    <3> QED
      BY <2>1, <2>4, <3>1, <3>2, <3>3 DEF Gatherings
  <2>6. ASSUME Held(a.mem), a.chs \in Seq(Settled(a.mem)),
               c.node \in Settled(a.mem) \/ c.node = a.mem.ln_cn
        PROVE  t.chs \in Seq(Settled(t.mem))
    <3>1. a.mem.heap[c.node].live
      <4>1. CASE c.node = a.mem.ln_cn
        BY <2>2, <2>4, <4>1, TopHolds
      <4> QED
        BY <2>6, <4>1 DEF Settled
    <3>2. chs \in Seq(Settled(a.mem))
      BY <2>3, <2>6, <3>1 DEF Held, chs
    <3>3. a.chs \in Seq(Settled(u)) /\ chs \in Seq(Settled(u))
      BY <2>4, <2>6, <3>2, SeqMonotonic DEF Keeps
    <3> QED
      BY <2>1, <3>3, ConcatProperties
  <2>7. c.node \in Settled(a.mem) => c.node # a.mem.ln_cn
    <3> SUFFICES ASSUME c.node = a.mem.ln_cn PROVE c.node \notin Settled(a.mem)
      OBVIOUS
    <3>1. a.mem.ln_cn = TopNode(a.mem) /\ Len(a.mem.lns) \in Nat \ {0}
      BY <2>2, <2>4, TopHolds
    <3>2. c.node = a.mem.lns[Len(a.mem.lns)].node /\ Len(a.mem.lns) \in 1..Len(a.mem.lns)
      BY <3>1 DEF TopNode
    <3>3. c.node \in Lists(a.mem)
      BY <3>2 DEF Lists, Low
    <3> QED
      BY <3>3 DEF Settled
  <2> QED
    BY <2>1, <2>4, <2>5, <2>6, <2>7 DEF t
<1> QED
  BY <1>1, <1>2

LEMMA TurnGathers ==
  ASSUME NEW m, MemSound(m), NEW b \in 0..Len(m.lns), NEW c, Takes(m, c, b),
         NEW a \in Gatherings(m, b), NEW p
  PROVE  LET t == Turned(p, a, c)
         IN /\ t \in Gatherings(m, b)
            /\ Held(a.mem) /\ a.chs \in Seq(Settled(a.mem)) =>
                 /\ c.node \in Settled(a.mem) =>
                      t.mem = a.mem /\ t.chs \in Seq(Settled(t.mem))
                 /\ c.node = a.mem.ln_cn =>
                      /\ Len(t.mem.lns) = Len(a.mem.lns) - 1
                      /\ Held(t.mem) /\ t.chs \in Seq(Settled(t.mem))
<1>1. CASE MergeChild(p)
  <2>1. Turned(p, a, c) = MergeChilds(a, c)
    BY <1>1 DEF Turned
  <2> QED
    BY <2>1, MergeTurn
<1>2. CASE ~MergeChild(p)
  <2>1. Turned(p, a, c) = AddChild(a, c)
    BY <1>2 DEF Turned
  <2> QED
    BY <2>1, AddTurn
<1> QED
  BY <1>1, <1>2

\* g is the loop: what it has made of m after each turn.
GatherLoop(p, m, ccs, b, g) ==
  /\ g \in [0..Len(ccs) -> Gatherings(m, b)]
  /\ g[0] = [mem |-> m, chs |-> <<>>]
  /\ \A n \in 1..Len(ccs) : g[n] = Turned(p, g[n - 1], ccs[n])

LEMMA OfferedTakes ==
  ASSUME NEW m, NEW ccs, NEW b, Offered(m, ccs, b), NEW i \in 1..Len(ccs)
  PROVE  Takes(m, ccs[i], b)
BY ElementOfSeq DEF Offered, Takes

LEMMA GatheringLoops ==
  ASSUME NEW m, MemSound(m), NEW b \in 0..Len(m.lns), NEW ccs, Offered(m, ccs, b), NEW p
  PROVE  \E g : GatherLoop(p, m, ccs, b, g) /\ Gathering(p, m, ccs) = g[Len(ccs)]
<1> DEFINE N    == Len(ccs)
           V    == Gatherings(m, b)
           base == [mem |-> m, chs |-> <<>>]
           step == [x \in (1..N) \X V |-> Turned(p, x[2], ccs[x[1]])]
           Is(g) == g = [n \in 0..N |-> IF n = 0 THEN base ELSE Turned(p, g[n - 1], ccs[n])]
           All  == CHOOSE g : Is(g)
<1>1. N \in Nat /\ m \in Mems
  BY LenProperties DEF Offered, MemSound
<1>2. base \in V
  <2>1. Keeps(m, m, b) /\ <<>> \in Seq(Nat)
    BY <1>1, KeepsSame, EmptySeq
  <2> QED
    BY <1>1, <2>1 DEF Gatherings
<1>3. ASSUME NEW n \in 1..N, NEW v \in V PROVE Turned(p, v, ccs[n]) \in V
  BY <1>3, OfferedTakes, TurnGathers
<1> HIDE DEF V, base, N
<1>4. step \in [(1..N) \X V -> V]
  BY <1>3
<1>5. \A n \in 1..N, v \in V : step[<<n, v>>] = Turned(p, v, ccs[n])
  OBVIOUS
<1> HIDE DEF step
<1>6. PICK f : RecursUpTo(f, N, V, base, step)
  BY <1>1, <1>2, <1>4, RecursionUpTo
<1>7. Is(f)
  <2>1. \A n \in 0..N : n # 0 => step[<<n, f[n - 1]>>] = Turned(p, f[n - 1], ccs[n])
    <3> TAKE n \in 0..N
    <3> HAVE n # 0
    <3>1. n \in 1..N /\ n - 1 \in 0..N
      BY <1>1
    <3>2. f[n - 1] \in V
      BY <1>6, <3>1 DEF RecursUpTo
    <3> QED
      BY <1>5, <3>1, <3>2
  <2>2. f = [n \in 0..N |-> IF n = 0 THEN base ELSE Turned(p, f[n - 1], ccs[n])]
    BY <1>6, <2>1 DEF RecursUpTo
  <2> QED
    BY <2>2
<1> HIDE DEF Is
<1>8. Is(All)
  BY <1>7
<1>9. Gathering(p, m, ccs) = All[N]
  BY DEF Gathering, Turned, Is, All, N, base
<1> HIDE DEF All
<1>10. All = [n \in 0..N |-> IF n = 0 THEN base ELSE Turned(p, All[n - 1], ccs[n])]
  BY <1>8 DEF Is
<1>11. All[0] = base /\ \A n \in 1..N : All[n] = Turned(p, All[n - 1], ccs[n])
  <2>1. 0 \in 0..N /\ \A n \in 1..N : n \in 0..N /\ n # 0
    BY <1>1
  <2> QED
    BY <1>10, <2>1
<1> DEFINE T == {n \in 0..N : All[n] \in V}
<1>12. \A n \in 0..N : n \in T
  <2>1. 0 \in T
    BY <1>1, <1>2, <1>11
  <2>2. ASSUME NEW n \in 0..N - 1, n \in T PROVE n + 1 \in T
    <3>1. n + 1 \in 1..N /\ n + 1 \in 0..N /\ n + 1 - 1 = n
      BY <1>1
    <3>2. All[n + 1] = Turned(p, All[n], ccs[n + 1])
      BY <1>11, <3>1
    <3> QED
      BY <1>3, <2>2, <3>1, <3>2
  <2> HIDE DEF T
  <2> QED
    BY <1>1, <2>1, <2>2, InductionUpTo
<1>13. All \in [0..N -> V]
  BY <1>10, <1>12
<1>14. GatherLoop(p, m, ccs, b, All)
  BY <1>11, <1>13 DEF GatherLoop, N, V, base
<1> QED
  BY <1>9, <1>14 DEF N

\* With at most one list among the candidates the loop finds every other one settled
\* and takes that one out of lns.
LEMMA LoopEnds ==
  ASSUME NEW m, MemSound(m), NEW b \in 0..Len(m.lns), NEW ccs, Offered(m, ccs, b), NEW p,
         NEW g, GatherLoop(p, m, ccs, b, g),
         NEW j, OneBegun(m, ccs, b, j), Held(m)
  PROVE  LET e == g[Len(ccs)]
         IN Held(e.mem) /\ e.chs \in Seq(Settled(e.mem)) /\ Len(e.mem.lns) = b
<1> DEFINE N == Len(ccs)
           Good(n) == /\ Held(g[n].mem) /\ g[n].chs \in Seq(Settled(g[n].mem))
                      /\ IF j = 0 \/ n < j THEN g[n].mem = m ELSE Len(g[n].mem.lns) = b
           T == {n \in 0..N : Good(n)}
<1>1. N \in Nat /\ m \in Mems /\ Len(m.lns) \in Nat /\ b \in Nat
  BY LenProperties, MemTyped DEF Offered, MemSound
<1>2. j \in 0..N /\ Len(m.lns) = (IF j = 0 THEN b ELSE b + 1)
      /\ \A i \in 1..N : i # j => ccs[i].node \in Settled(m)
  BY DEF OneBegun
<1>3. /\ g[0].mem = m /\ g[0].chs = <<>>
      /\ \A n \in 1..N : g[n] = Turned(p, g[n - 1], ccs[n])
      /\ \A n \in 0..N : g[n] \in Gatherings(m, b)
  BY DEF GatherLoop
<1> HIDE DEF N
<1>4. 0 \in T
  <2>1. (j = 0 \/ 0 < j) /\ 0 \in 0..N
    BY <1>1, <1>2
  <2>2. Held(g[0].mem) /\ g[0].chs \in Seq(Settled(g[0].mem))
    BY <1>3, EmptySeq
  <2> QED
    BY <1>3, <2>1, <2>2
<1>5. ASSUME NEW n \in 0..N - 1, n \in T PROVE n + 1 \in T
  <2> DEFINE a == g[n]
             c == ccs[n + 1]
             t == g[n + 1]
  <2>1. /\ n \in 0..N /\ n + 1 \in 1..N /\ n + 1 \in 0..N /\ n + 1 - 1 = n
        /\ a \in Gatherings(m, b) /\ Takes(m, c, b) /\ t = Turned(p, a, c)
    <3>1. n \in 0..N /\ n + 1 \in 1..N /\ n + 1 \in 0..N /\ n + 1 - 1 = n
      BY <1>1
    <3> QED
      BY <1>3, <3>1, OfferedTakes DEF N
  <2>2. Held(a.mem) /\ a.chs \in Seq(Settled(a.mem))
        /\ IF j = 0 \/ n < j THEN a.mem = m ELSE Len(a.mem.lns) = b
    BY <1>5
  <2> HIDE DEF t, a, c
  <2>3. /\ c.node \in Settled(a.mem) =>
             t.mem = a.mem /\ t.chs \in Seq(Settled(t.mem))
        /\ c.node = a.mem.ln_cn =>
             /\ Len(t.mem.lns) = Len(a.mem.lns) - 1
             /\ Held(t.mem) /\ t.chs \in Seq(Settled(t.mem))
    BY <2>1, <2>2, TurnGathers
  <2>4. Settled(m) \subseteq Settled(a.mem)
    BY <2>1 DEF Gatherings, Keeps
  <2>5. CASE n + 1 = j
    <3>1. a.mem = m /\ j # 0
      BY <1>1, <2>2, <2>5
    <3>2. c.node = TopNode(m) /\ Len(m.lns) = b + 1
      BY <1>2, <2>5, <3>1 DEF OneBegun, c
    <3>3. m.ln_cn = TopNode(m)
      <4>1. m.lns # <<>>
        BY <1>1, <3>2
      <4> QED
        BY <4>1, TopHolds
    <3>4. Len(t.mem.lns) = b /\ Held(t.mem) /\ t.chs \in Seq(Settled(t.mem))
      BY <1>1, <2>3, <3>1, <3>2, <3>3
    <3>5. ~(j = 0 \/ n + 1 < j)
      BY <2>5, <3>1
    <3>6. Good(n + 1)
      BY <3>4, <3>5 DEF t
    <3> QED
      BY <2>1, <3>6
  <2>6. CASE n + 1 # j
    <3>1. c.node \in Settled(a.mem)
      BY <1>2, <2>1, <2>4, <2>6 DEF c
    <3>2. t.mem = a.mem /\ t.chs \in Seq(Settled(t.mem)) /\ Held(t.mem)
      BY <2>2, <2>3, <3>1
    <3>3. (j = 0 \/ n + 1 < j) <=> (j = 0 \/ n < j)
      BY <1>1, <1>2, <2>1, <2>6
    <3>4. Good(n + 1)
      BY <2>2, <3>2, <3>3 DEF t
    <3> QED
      BY <2>1, <3>4
  <2> QED
    BY <2>5, <2>6
<1>6. \A n \in 0..N : n \in T
  <2> HIDE DEF T
  <2> QED
    BY <1>1, <1>4, <1>5, InductionUpTo
<1>7. Good(N)
  BY <1>1, <1>6
<1>8. IF j = 0 THEN g[N].mem = m ELSE Len(g[N].mem.lns) = b
  <2>1. ~(N < j)
    BY <1>1, <1>2
  <2> QED
    BY <1>7, <2>1
<1> QED
  BY <1>2, <1>7, <1>8 DEF N

LEMMA GatherDone ==
  ASSUME NEW m, MemSound(m), NEW b \in 0..Len(m.lns), NEW p \in ProdIdx,
         NEW ccs, Offered(m, ccs, b)
  PROVE  LET d == Gather(p, m, ccs)
         IN /\ Done(m, d, b)
            /\ \A j : Held(m) /\ OneBegun(m, ccs, b, j) => Ends(d, b, FALSE)
<1>1. PICK g : GatherLoop(p, m, ccs, b, g) /\ Gathering(p, m, ccs) = g[Len(ccs)]
  BY GatheringLoops
<1> DEFINE e    == g[Len(ccs)]
           node == NodeOf(p, NoToken, e.chs)
           n    == Create(e.mem, node)
           d    == Gather(p, m, ccs)
<1>2. e.mem \in Mems /\ e.chs \in Seq(Nat) /\ MemSound(e.mem) /\ Keeps(m, e.mem, b) /\ m \in Mems
  <2>1. Len(ccs) \in 0..Len(ccs)
    BY LenProperties DEF Offered
  <2>2. e \in Gatherings(m, b)
    BY <1>1, <2>1 DEF GatherLoop
  <2> QED
    BY <2>2 DEF Gatherings, MemSound
<1>3. d = [mem |-> n, pointer |-> Len(n.heap)]
  BY <1>1 DEF Gather, Settle, Newest
<1> HIDE DEF e, d
<1>4. node \in MemNodes /\ node.live /\ node.childs = e.chs
  <2>1. NoToken \in Tokens
    BY DEF NoToken, Tokens
  <2> QED
    BY <1>2, <2>1 DEF NodeOf, MemNodes
<1> HIDE DEF node
<1>5. Adds(e.mem, n, node)
  BY <1>2, <1>4, CreateAdds
<1> HIDE DEF n
<1>6. /\ MemSound(n) /\ Keeps(e.mem, n, Len(e.mem.lns))
      /\ Len(n.heap) \in Settled(n) /\ Len(n.heap) \notin Low(e.mem, Len(e.mem.lns))
      /\ n \in Mems /\ n.lns = e.mem.lns
  BY <1>2, <1>4, <1>5, AddsKeeps DEF Adds
<1>7. b \in 0..Len(e.mem.lns) /\ Len(e.mem.lns) \in Nat
  BY <1>2, MemTyped DEF Keeps
<1>8. Keeps(m, n, b)
  <2>1. Keeps(e.mem, n, b)
    BY <1>2, <1>6, <1>7, KeepsLess
  <2> QED
    BY <1>2, <1>6, <2>1, KeepsTrans
<1>9. Len(n.heap) \notin Low(m, b)
  <2>1. Low(e.mem, b) \subseteq Low(e.mem, Len(e.mem.lns))
    <3>1. Len(e.mem.lns) \in 0..Len(e.mem.lns)
      BY <1>7
    <3> QED
      BY <1>2, <1>7, <3>1, LowGrows
  <2>2. Low(e.mem, b) = Low(m, b)
    BY <1>2, KeepsLow
  <2> QED
    BY <1>6, <2>1, <2>2
<1>10. Len(n.heap) \in 1..Len(n.heap)
  BY <1>6 DEF Settled
<1>11. d.mem = n /\ d.pointer = Len(n.heap)
  BY <1>3
<1>12. Done(m, d, b)
  BY <1>6, <1>8, <1>9, <1>10, <1>11 DEF Done
<1>13. ASSUME NEW j, Held(m), OneBegun(m, ccs, b, j)
       PROVE  Ends(d, b, FALSE)
  <2>1. Held(e.mem) /\ e.chs \in Seq(Settled(e.mem)) /\ Len(e.mem.lns) = b
    BY <1>1, <1>13, LoopEnds DEF e
  <2>2. e.chs \in Seq(Settled(n))
    BY <1>6, <2>1, SeqMonotonic DEF Keeps
  <2>3. Held(n)
    BY <1>2, <1>4, <1>5, <2>1, <2>2, AddsHeld
  <2> QED
    BY <1>6, <1>11, <2>1, <2>3 DEF Ends
<1> QED
  BY <1>12, <1>13 DEF d
-----------------------------------------------------------------------------
(* operator() on a reduction.                                              *)

LEMMA RecursionFound ==
  ASSUME NEW p, NEW ccs \in Seq(Cands)
  PROVE  /\ Recursion(p, ccs) \in 0..Len(ccs)
         /\ Recursion(p, ccs) # 0 =>
              /\ ccs[Recursion(p, ccs)].item.production # NoProd
              /\ Productions[ccs[Recursion(p, ccs)].item.production].head = Productions[p].head
         /\ \A i \in 1..Len(ccs) :
              /\ ccs[i].item.production # NoProd
              /\ Productions[ccs[i].item.production].head = Productions[p].head
              => Recursion(p, ccs) # 0
<1> DEFINE I == {i \in 1..Len(ccs) : /\ ccs[i].item.production # NoProd
                                     /\ Productions[ccs[i].item.production].head
                                          = Productions[p].head}
<1>1. Recursion(p, ccs) = IF I # {} THEN Min(I) ELSE 0
  BY DEF Recursion, SelectInSeq
<1>2. I \subseteq Nat /\ Len(ccs) \in Nat
  BY LenProperties
<1>3. I # {} => Min(I) \in I
  <2> HIDE DEF I
  <2> SUFFICES ASSUME I # {} PROVE Min(I) \in I
    OBVIOUS
  <2>1. \E x \in I : \A y \in I : x <= y
    BY <1>2, Least
  <2> QED
    BY <2>1 DEF Min
<1> DEFINE fi == Recursion(p, ccs)
<1> HIDE DEF fi
<1>4. CASE I = {}
  <2>1. fi = 0 /\ fi \in 0..Len(ccs)
    BY <1>1, <1>2, <1>4 DEF fi
  <2> QED
    BY <1>4, <2>1 DEF fi
<1>5. CASE I # {}
  <2>1. fi \in I /\ fi # 0 /\ fi \in 0..Len(ccs)
    <3>1. fi \in I
      <4> HIDE DEF I
      <4> QED
        BY <1>1, <1>3, <1>5 DEF fi
    <3> QED
      BY <1>2, <3>1
  <2>2. /\ ccs[fi].item.production # NoProd
        /\ Productions[ccs[fi].item.production].head = Productions[p].head
    BY <2>1
  <2> HIDE DEF I
  <2> QED
    BY <2>1, <2>2 DEF fi
<1> QED
  BY <1>4, <1>5

LEMMA SimplifyDone ==
  ASSUME NEW m, MemSound(m), NEW b \in 0..Len(m.lns), NEW p \in ProdIdx,
         NEW ccs, Offered(m, ccs, b), NEW moves \in BOOLEAN,
         \A i \in 1..Len(ccs) : IsList(ccs[i].item) => Len(m.lns) > b
  PROVE  LET d == Simplify(p, m, ccs, moves)
         IN /\ Done(m, d, b) /\ (ListifyRecursion(p) => Len(d.mem.lns) > b)
            /\ \A j : /\ OneListEach /\ Held(m) /\ OneBegun(m, ccs, b, j)
                      /\ j # 0 /\ ListifyRecursion(p) =>
                           Productions[ccs[j].item.production].head = Productions[p].head
                      => Ends(d, b, ListifyRecursion(p))
<1> DEFINE d  == Simplify(p, m, ccs, moves)
           fi == Recursion(p, ccs)
<1>1. /\ m \in Mems /\ Len(m.lns) \in Nat /\ Len(m.heap) \in Nat
      /\ ccs \in Seq(Cands) /\ Len(ccs) \in Nat
      /\ \A i \in 1..Len(ccs) : ccs[i] \in Cands /\ ccs[i].node \in 1..Len(m.heap)
                                /\ ccs[i].node \notin Low(m, b)
  <2>1. /\ m \in Mems /\ ccs \in Seq(Cands)
        /\ \A i \in 1..Len(ccs) : ccs[i].node \in 1..Len(m.heap) /\ ccs[i].node \notin Low(m, b)
    BY DEF MemSound, Offered
  <2> QED
    BY <2>1, MemTyped, LenProperties, ElementOfSeq
<1>2. CASE Forwards(p, ccs)
  <2>1. Len(ccs) = 1 /\ ~ListifyRecursion(p) /\ 1 \in 1..Len(ccs)
    BY <1>2, ListsNotForwarded DEF Forwards
  <2>2. d = Take(m, ccs[1].node)
    BY <1>2 DEF Simplify
  <2> HIDE DEF d
  <2> DEFINE x == ccs[1].node
  <2>3. x \in 1..Len(m.heap) /\ x \notin Low(m, b)
    BY <1>1, <2>1
  <2> HIDE DEF x
  <2>4. d = Take(m, x)
    BY <2>2 DEF x
  <2>5. /\ MemSound(d.mem) /\ Keeps(m, d.mem, b)
        /\ d.pointer \in 1..Len(d.mem.heap) /\ d.pointer \notin Low(m, b)
        /\ Held(m) => Held(d.mem)
        /\ x = m.ln_cn => /\ Len(m.lns) > b /\ Len(d.mem.lns) = Len(m.lns) - 1
                          /\ d.pointer \in Settled(d.mem)
        /\ x # m.ln_cn => d.mem = m /\ d.pointer = x
    BY <2>3, <2>4, TakeKeeps
  <2>6. ASSUME NEW j, Held(m), OneBegun(m, ccs, b, j)
        PROVE  Ends(d, b, FALSE)
    <3>1. CASE j = 0
      <4>1. x \in Settled(m) /\ Len(m.lns) = b
        BY <2>1, <2>6, <3>1 DEF OneBegun, x
      <4>2. x # m.ln_cn
        BY <1>1, <2>5, <4>1
      <4> QED
        BY <2>5, <2>6, <4>1, <4>2 DEF Ends
    <3>2. CASE j # 0
      <4>1. j = 1
        BY <2>1, <2>6, <3>2 DEF OneBegun
      <4>2. x = TopNode(m) /\ Len(m.lns) = b + 1
        BY <2>6, <4>1 DEF OneBegun, x
      <4>3. x = m.ln_cn
        <5>1. m.lns # <<>>
          BY <4>2
        <5> QED
          BY <4>2, <5>1, TopHolds
      <4>4. Len(d.mem.lns) = b
        BY <2>5, <4>2, <4>3
      <4> QED
        BY <2>5, <2>6, <4>3, <4>4 DEF Ends
    <3> QED
      BY <3>1, <3>2
  <2>7. ASSUME NEW j, Held(m), OneBegun(m, ccs, b, j)
        PROVE  Ends(d, b, ListifyRecursion(p))
    BY <2>1, <2>6, <2>7 DEF Ends
  <2> QED
    BY <2>1, <2>5, <2>7 DEF Done, d
<1>3. CASE /\ ~Forwards(p, ccs) /\ ListifyRecursion(p)
           /\ fi # 0 /\ ccs[fi].item.production = p
  <2>1. d = MergeIntoTop(m, ccs, fi, moves)
    BY <1>3 DEF Simplify
  <2> HIDE DEF d
  <2>2. fi \in 1..Len(ccs) /\ IsList(ccs[fi].item)
    <3>1. fi \in 0..Len(ccs) /\ ccs[fi].item.production # NoProd
      BY <1>1, <1>3, RecursionFound
    <3> QED
      BY <1>1, <1>3, <3>1 DEF IsList
  <2> HIDE DEF fi
  <2>3. Len(m.lns) > b
    BY <2>2
  <2>4. /\ Done(m, d, b) /\ Len(d.mem.lns) = Len(m.lns) /\ d.pointer = TopNode(d.mem)
        /\ Held(m) /\ (\A i \in 1..Len(ccs) : i # fi => ccs[i].node \in Settled(m))
             => Held(d.mem)
    BY <2>1, <2>2, <2>3, MergeDone
  <2>5. ASSUME NEW j, Held(m), OneBegun(m, ccs, b, j)
        PROVE  Ends(d, b, TRUE)
    <3>1. j = fi
      BY <2>2, <2>5 DEF OneBegun
    <3>2. Len(m.lns) = b + 1 /\ \A i \in 1..Len(ccs) : i # fi => ccs[i].node \in Settled(m)
      BY <2>2, <2>5, <3>1 DEF OneBegun
    <3> QED
      BY <2>4, <2>5, <3>2 DEF Ends
  <2> QED
    BY <1>3, <2>3, <2>4, <2>5 DEF d
<1>4. CASE /\ ~Forwards(p, ccs) /\ ListifyRecursion(p)
           /\ ~(fi # 0 /\ ccs[fi].item.production = p)
  <2>1. d = StartList(m, p, ccs, fi)
    BY <1>4 DEF Simplify
  <2> HIDE DEF d
  <2>2. fi \in 0..Len(ccs)
    BY <1>1, RecursionFound
  <2>3. /\ Done(m, d, b) /\ Len(d.mem.lns) = Len(m.lns) + 1 /\ d.pointer = TopNode(d.mem)
        /\ Held(m) /\ (\A i \in 1..Len(ccs) : ccs[i].node \in Settled(m)) => Held(d.mem)
    BY <2>1, <2>2, StartDone
  <2>4. ASSUME NEW j, OneListEach, Held(m), OneBegun(m, ccs, b, j),
               j # 0 => Productions[ccs[j].item.production].head = Productions[p].head
        PROVE  Ends(d, b, TRUE)
    <3>1. j = 0
      <4>1. ASSUME j # 0 PROVE FALSE
        <5>1. j \in 1..Len(ccs) /\ IsList(ccs[j].item)
          BY <1>1, <2>4, <4>1 DEF OneBegun
        <5>2. ccs[j].item.production \in ProdIdx /\ ListifyRecursion(ccs[j].item.production)
          BY <1>1, <5>1 DEF IsList, Cands, StackItems
        <5>3. ccs[j].item.production = p
          BY <1>4, <2>4, <4>1, <5>2 DEF OneListEach
        <5>4. fi # 0 /\ ccs[fi].item.production # NoProd
              /\ Productions[ccs[fi].item.production].head = Productions[p].head
          <6>1. fi # 0
            BY <1>1, <2>4, <4>1, <5>1, RecursionFound DEF IsList
          <6> QED
            BY <1>1, <6>1, RecursionFound
        <5>5. Productions[p].head \in ListHeads
          BY <1>4 DEF ListHeads
        <5>6. fi = j
          BY <2>2, <2>4, <4>1, <5>4, <5>5 DEF OneBegun
        <5> QED
          BY <1>4, <5>3, <5>4, <5>6
      <4> QED
        BY <4>1
    <3>2. Len(m.lns) = b /\ \A i \in 1..Len(ccs) : ccs[i].node \in Settled(m)
      BY <2>4, <3>1 DEF OneBegun
    <3> QED
      BY <2>3, <2>4, <3>2 DEF Ends
  <2>5. Len(d.mem.lns) > b
    BY <1>1, <2>3
  <2> QED
    BY <1>4, <2>3, <2>4, <2>5 DEF d
<1>5. CASE ~Forwards(p, ccs) /\ ~ListifyRecursion(p)
  <2>1. d = Gather(p, m, ccs)
    BY <1>5 DEF Simplify
  <2> HIDE DEF d
  <2>2. /\ Done(m, d, b)
        /\ \A j : Held(m) /\ OneBegun(m, ccs, b, j) => Ends(d, b, FALSE)
    BY <2>1, GatherDone
  <2>3. ASSUME NEW j, Held(m), OneBegun(m, ccs, b, j)
        PROVE  Ends(d, b, ListifyRecursion(p))
    BY <1>5, <2>2, <2>3 DEF Ends
  <2> QED
    BY <1>5, <2>2, <2>3 DEF d
<1> QED
  BY <1>2, <1>3, <1>4, <1>5
-----------------------------------------------------------------------------
(* The candidates of a reduction.                                          *)

\* What collecting candidates may have made of mem: lns is as it was.
Collections(b) ==
  {a \in [mem : Mems, ccs : Seq(Cands)] :
     /\ MemSound(a.mem) /\ a.mem.lns = mem.lns /\ Keeps(mem, a.mem, Len(mem.lns))
     /\ Held(mem) => Held(a.mem)
     /\ \A i \in 1..Len(a.ccs) : /\ a.ccs[i].node \in 1..Len(a.mem.heap)
                                 /\ a.ccs[i].node \notin Low(mem, b)}

\* One more candidate: the handle is dropped, or comes with its own node or a new one.
Collected(a, t, handle, pointer) ==
  \/ t = a /\ handle.production = NoProd
  \/ /\ Settled(a.mem) \subseteq Settled(t.mem)
     /\ \E x \in Nat : /\ t.ccs = Append(a.ccs, [item |-> handle, node |-> x])
                       /\ IF pointer # Null THEN x = pointer ELSE x \in Settled(t.mem)

\* n is a memory after a's in which a candidate for pointer has its node at x.
Joins(a, n, x, pointer, b) ==
  /\ n \in Mems /\ MemSound(n) /\ n.lns = mem.lns /\ Keeps(a.mem, n, Len(mem.lns))
  /\ Held(a.mem) => Held(n)
  /\ x \in Nat /\ x \in 1..Len(n.heap) /\ x \notin Low(mem, b)
  /\ IF pointer # Null THEN x = pointer ELSE x \in Settled(n)

LEMMA CandidateTurn ==
  ASSUME MemSound(mem), NEW b \in 0..Len(mem.lns), NEW p,
         NEW handle \in StackItems, NEW pointer \in 0..Len(mem.heap), pointer \notin Low(mem, b),
         NEW a \in Collections(b)
  PROVE  LET t == Candidate(a, p, handle, pointer)
         IN t \in Collections(b) /\ Collected(a, t, handle, pointer)
<1> DEFINE t == Candidate(a, p, handle, pointer)
           drops == /\ RemoveSingleLexeme(p)
                    /\ handle.production = NoProd
                    /\ handle.token.symbol \in SingleLexeme
<1>1. /\ a \in [mem : Mems, ccs : Seq(Cands)]
      /\ MemSound(a.mem) /\ a.mem.lns = mem.lns /\ Keeps(mem, a.mem, Len(mem.lns))
      /\ Held(mem) => Held(a.mem)
      /\ \A i \in 1..Len(a.ccs) : /\ a.ccs[i].node \in 1..Len(a.mem.heap)
                                  /\ a.ccs[i].node \notin Low(mem, b)
      /\ a.mem \in Mems /\ a.ccs \in Seq(Cands) /\ mem \in Mems
  BY DEF Collections, MemSound
<1>2. /\ Len(mem.heap) \in Nat /\ Len(a.mem.heap) \in Nat /\ Len(mem.heap) <= Len(a.mem.heap)
      /\ Len(mem.lns) \in Nat /\ Len(a.ccs) \in Nat
  BY <1>1, MemTyped, LenProperties DEF Keeps
<1>3. CASE drops
  <2>1. t = a
    BY <1>3 DEF Candidate
  <2> QED
    BY <1>3, <2>1 DEF Collected
\* a node put at the end
<1>4. ASSUME NEW n, NEW x, Joins(a, n, x, pointer, b),
             t = [mem |-> n, ccs |-> Append(a.ccs, [item |-> handle, node |-> x])]
      PROVE  t \in Collections(b) /\ Collected(a, t, handle, pointer)
  <2>0. /\ n \in Mems /\ MemSound(n) /\ n.lns = mem.lns /\ Keeps(a.mem, n, Len(mem.lns))
        /\ Held(a.mem) => Held(n)
        /\ x \in Nat /\ x \in 1..Len(n.heap) /\ x \notin Low(mem, b)
        /\ IF pointer # Null THEN x = pointer ELSE x \in Settled(n)
    BY <1>4 DEF Joins
  <2> DEFINE c   == [item |-> handle, node |-> x]
             ccs == Append(a.ccs, c)
  <2>1. c \in Cands /\ c.node = x
    BY <2>0 DEF Cands
  <2> HIDE DEF c
  <2>2. /\ ccs \in Seq(Cands) /\ Len(ccs) = Len(a.ccs) + 1
        /\ \A i \in 1..Len(a.ccs) : ccs[i] = a.ccs[i]
        /\ ccs[Len(a.ccs) + 1] = c
    BY <1>1, <2>1, AppendProperties
  <2> HIDE DEF ccs, t
  <2>3. t.mem = n /\ t.ccs = ccs /\ t = [mem |-> n, ccs |-> ccs]
    BY <1>4 DEF ccs, c
  <2>4. Len(a.mem.heap) <= Len(n.heap) /\ Len(n.heap) \in Nat /\ Settled(a.mem) \subseteq Settled(n)
    BY <2>0, MemTyped DEF Keeps
  <2>5. \A i \in 1..Len(ccs) : ccs[i].node \in 1..Len(n.heap) /\ ccs[i].node \notin Low(mem, b)
    <3> TAKE i \in 1..Len(ccs)
    <3>1. CASE i \in 1..Len(a.ccs)
      BY <1>1, <1>2, <2>2, <2>4, <3>1
    <3>2. CASE i = Len(a.ccs) + 1
      BY <2>0, <2>1, <2>2, <3>2
    <3> QED
      BY <1>2, <2>2, <3>1, <3>2
  <2>6. Keeps(mem, n, Len(mem.lns))
    BY <1>1, <2>0, KeepsTrans
  <2>7. t \in Collections(b)
    BY <1>1, <2>0, <2>2, <2>3, <2>5, <2>6 DEF Collections
  <2>8. Collected(a, t, handle, pointer)
    BY <2>0, <2>3, <2>4 DEF Collected, ccs, c
  <2> QED
    BY <2>7, <2>8
<1>5. CASE ~drops /\ pointer # Null
  <2>1. t.mem = a.mem /\ t = [mem |-> a.mem, ccs |-> Append(a.ccs, [item |-> handle, node |-> pointer])]
    <3>1. t = [a EXCEPT !.ccs = Append(@, [item |-> handle, node |-> pointer])]
      BY <1>5 DEF Candidate
    <3> HIDE DEF t
    <3> QED
      BY <1>1, <3>1
  <2>2. pointer \in 1..Len(a.mem.heap) /\ pointer \in Nat
    BY <1>2, <1>5 DEF Null
  <2>3. Keeps(a.mem, a.mem, Len(mem.lns))
    <3>1. Len(mem.lns) \in 0..Len(a.mem.lns)
      BY <1>1, <1>2
    <3> QED
      BY <1>1, <3>1, KeepsSame
  <2>4. Joins(a, a.mem, pointer, pointer, b)
    BY <1>1, <1>5, <2>2, <2>3 DEF Joins
  <2> HIDE DEF t
  <2>5. t \in Collections(b) /\ Collected(a, t, handle, pointer)
    BY <1>4, <2>1, <2>4
  <2> QED
    BY <2>5 DEF t
<1>6. CASE ~drops /\ pointer = Null
  <2> DEFINE node == NodeOf(NoProd, handle.token, <<>>)
             n    == Create(a.mem, node)
  <2>1. t = [mem |-> n, ccs |-> Append(a.ccs, [item |-> handle, node |-> Newest(n)])]
    BY <1>6 DEF Candidate
  <2>2. node \in MemNodes /\ node.live /\ node.childs = <<>>
    BY EmptySeq DEF NodeOf, MemNodes, StackItems
  <2> HIDE DEF node, t
  <2>3. Adds(a.mem, n, node)
    BY <1>1, <2>2, CreateAdds
  <2> HIDE DEF n
  <2>4. /\ MemSound(n) /\ Keeps(a.mem, n, Len(a.mem.lns)) /\ n \in Mems /\ n.lns = a.mem.lns
        /\ Len(n.heap) \in Settled(n) /\ Len(n.heap) \notin Low(a.mem, Len(a.mem.lns))
    BY <1>1, <2>2, <2>3, AddsKeeps DEF Adds
  <2>5. Held(a.mem) => Held(n)
    <3>1. node.childs \in Seq(Settled(n))
      BY <2>2, EmptySeq
    <3> QED
      BY <1>1, <2>2, <2>3, <3>1, AddsHeld
  <2>6. Newest(n) = Len(n.heap) /\ Newest(n) \in Nat /\ Newest(n) \in 1..Len(n.heap)
    BY <2>4 DEF Newest, Settled
  <2>7. Newest(n) \notin Low(mem, b)
    <3>1. Low(a.mem, Len(a.mem.lns)) = Low(mem, Len(mem.lns))
      BY <1>1, KeepsLow
    <3>2. Low(mem, b) \subseteq Low(mem, Len(mem.lns))
      <4>1. Len(mem.lns) \in 0..Len(mem.lns)
        BY <1>2
      <4> QED
        BY <1>1, <4>1, LowGrows
    <3> QED
      BY <2>4, <2>6, <3>1, <3>2
  <2> DEFINE x == Newest(n)
  <2>8. Joins(a, n, x, pointer, b)
    <3>1. Keeps(a.mem, n, Len(mem.lns)) /\ n.lns = mem.lns
      BY <1>1, <2>4
    <3>2. x \in Settled(n)
      BY <2>4, <2>6
    <3> HIDE DEF x
    <3>3. x \in Nat /\ x \in 1..Len(n.heap) /\ x \notin Low(mem, b)
      BY <2>6, <2>7 DEF x
    <3> QED
      BY <1>6, <2>4, <2>5, <3>1, <3>2, <3>3 DEF Joins
  <2>9. t = [mem |-> n, ccs |-> Append(a.ccs, [item |-> handle, node |-> x])]
    BY <2>1
  <2> HIDE DEF x
  <2>10. t \in Collections(b) /\ Collected(a, t, handle, pointer)
    BY <1>4, <2>8, <2>9
  <2> QED
    BY <2>10 DEF t
<1> QED
  BY <1>3, <1>5, <1>6

\* The handles come with pointers that are there, none of the first b lists'.
Pointed(handles, pointers, b) ==
  /\ handles \in Seq(StackItems)
  /\ \A k \in 1..Len(handles) : pointers[k] \in 0..Len(mem.heap) /\ pointers[k] \notin Low(mem, b)

CollectLoop(p, handles, pointers, b, g) ==
  /\ g \in [0..Len(handles) -> Collections(b)]
  /\ g[0] = [mem |-> mem, ccs |-> <<>>]
  /\ \A n \in 1..Len(handles) : g[n] = Candidate(g[n - 1], p, handles[n], pointers[n])

LEMMA CandidatesLoop ==
  ASSUME MemSound(mem), NEW b \in 0..Len(mem.lns), NEW p, NEW handles, NEW pointers,
         Pointed(handles, pointers, b)
  PROVE  \E g : /\ CollectLoop(p, handles, pointers, b, g)
                /\ Candidates(p, handles, pointers) = g[Len(handles)]
<1> DEFINE N    == Len(handles)
           V    == Collections(b)
           base == [mem |-> mem, ccs |-> <<>>]
           step == [x \in (1..N) \X V |-> Candidate(x[2], p, handles[x[1]], pointers[x[1]])]
           Is(g) == g = [n \in 0..N |-> IF n = 0 THEN base
                                        ELSE Candidate(g[n - 1], p, handles[n], pointers[n])]
           All  == CHOOSE g : Is(g)
<1>1. N \in Nat /\ mem \in Mems /\ Len(mem.lns) \in Nat
  BY LenProperties, MemTyped DEF Pointed, MemSound
<1>2. base \in V
  <2>1. Keeps(mem, mem, Len(mem.lns)) /\ <<>> \in Seq(Cands)
    <3>1. Len(mem.lns) \in 0..Len(mem.lns)
      BY <1>1
    <3> QED
      BY <1>1, <3>1, KeepsSame, EmptySeq
  <2>2. \A i \in 1..Len(<<>>) : FALSE
    OBVIOUS
  <2> QED
    BY <1>1, <2>1, <2>2 DEF Collections
<1>3. ASSUME NEW n \in 1..N, NEW v \in V
      PROVE  Candidate(v, p, handles[n], pointers[n]) \in V
  <2>1. /\ handles[n] \in StackItems /\ pointers[n] \in 0..Len(mem.heap)
        /\ pointers[n] \notin Low(mem, b)
    BY ElementOfSeq DEF Pointed
  <2> QED
    BY <2>1, CandidateTurn
<1> HIDE DEF V, base, N
<1>4. step \in [(1..N) \X V -> V]
  BY <1>3
<1>5. \A n \in 1..N, v \in V : step[<<n, v>>] = Candidate(v, p, handles[n], pointers[n])
  OBVIOUS
<1> HIDE DEF step
<1>6. PICK f : RecursUpTo(f, N, V, base, step)
  BY <1>1, <1>2, <1>4, RecursionUpTo
<1>7. Is(f)
  <2>1. \A n \in 0..N : n # 0 =>
          step[<<n, f[n - 1]>>] = Candidate(f[n - 1], p, handles[n], pointers[n])
    <3> TAKE n \in 0..N
    <3> HAVE n # 0
    <3>1. n \in 1..N /\ n - 1 \in 0..N
      BY <1>1
    <3>2. f[n - 1] \in V
      BY <1>6, <3>1 DEF RecursUpTo
    <3> QED
      BY <1>5, <3>1, <3>2
  <2>2. f = [n \in 0..N |-> IF n = 0 THEN base ELSE Candidate(f[n - 1], p, handles[n], pointers[n])]
    BY <1>6, <2>1 DEF RecursUpTo
  <2> QED
    BY <2>2
<1> HIDE DEF Is
<1>8. Is(All)
  BY <1>7
<1>9. Candidates(p, handles, pointers) = All[N]
  BY DEF Candidates, Is, All, N, base
<1> HIDE DEF All
<1>10. All = [n \in 0..N |-> IF n = 0 THEN base
                             ELSE Candidate(All[n - 1], p, handles[n], pointers[n])]
  BY <1>8 DEF Is
<1>11. All[0] = base /\ \A n \in 1..N : All[n] = Candidate(All[n - 1], p, handles[n], pointers[n])
  <2>1. 0 \in 0..N /\ \A n \in 1..N : n \in 0..N /\ n # 0
    BY <1>1
  <2> QED
    BY <1>10, <2>1
<1> DEFINE T == {n \in 0..N : All[n] \in V}
<1>12. \A n \in 0..N : n \in T
  <2>1. 0 \in T
    BY <1>1, <1>2, <1>11
  <2>2. ASSUME NEW n \in 0..N - 1, n \in T PROVE n + 1 \in T
    <3>1. n + 1 \in 1..N /\ n + 1 \in 0..N /\ n + 1 - 1 = n
      BY <1>1
    <3>2. All[n + 1] = Candidate(All[n], p, handles[n + 1], pointers[n + 1])
      BY <1>11, <3>1
    <3> QED
      BY <1>3, <2>2, <3>1, <3>2
  <2> HIDE DEF T
  <2> QED
    BY <1>1, <2>1, <2>2, InductionUpTo
<1>13. All \in [0..N -> V]
  BY <1>10, <1>12
<1>14. CollectLoop(p, handles, pointers, b, All)
  BY <1>11, <1>13 DEF CollectLoop, N, V, base
<1> QED
  BY <1>9, <1>14 DEF N
-----------------------------------------------------------------------------
(* Of the handles and the candidates.                                      *)

LEMMA CollectedTurn ==
  ASSUME MemSound(mem), NEW b \in 0..Len(mem.lns), NEW p, NEW handles, NEW pointers,
         Pointed(handles, pointers, b),
         NEW g, CollectLoop(p, handles, pointers, b, g), NEW n \in 0..Len(handles) - 1
  PROVE  /\ g[n] \in Collections(b) /\ g[n + 1] \in Collections(b)
         /\ Collected(g[n], g[n + 1], handles[n + 1], pointers[n + 1])
<1>1. Len(handles) \in Nat /\ handles \in Seq(StackItems)
  BY LenProperties DEF Pointed
<1>2. n + 1 \in 1..Len(handles) /\ n \in 0..Len(handles) /\ n + 1 - 1 = n
  BY <1>1
<1>3. g[n] \in Collections(b) /\ g[n + 1] = Candidate(g[n], p, handles[n + 1], pointers[n + 1])
  <2>1. g[n + 1] = Candidate(g[n + 1 - 1], p, handles[n + 1], pointers[n + 1])
    BY <1>2 DEF CollectLoop
  <2> QED
    BY <1>2, <2>1 DEF CollectLoop
<1>4. /\ handles[n + 1] \in StackItems
      /\ pointers[n + 1] \in 0..Len(mem.heap) /\ pointers[n + 1] \notin Low(mem, b)
  BY <1>1, <1>2, ElementOfSeq DEF Pointed
<1> QED
  BY <1>3, <1>4, CandidateTurn

\* What a turn leaves of the candidates there were, and the one it adds.
LEMMA TurnAppends ==
  ASSUME NEW b, NEW a \in Collections(b), NEW t \in Collections(b), NEW handle, NEW pointer,
         Collected(a, t, handle, pointer), t # a
  PROVE  /\ Settled(a.mem) \subseteq Settled(t.mem)
         /\ Len(a.ccs) \in Nat /\ Len(t.ccs) = Len(a.ccs) + 1
         /\ \A i \in 1..Len(a.ccs) : t.ccs[i] = a.ccs[i]
         /\ t.ccs[Len(t.ccs)].item = handle
         /\ IF pointer # Null THEN t.ccs[Len(t.ccs)].node = pointer
            ELSE t.ccs[Len(t.ccs)].node \in Settled(t.mem)
<1>1. Settled(a.mem) \subseteq Settled(t.mem)
  BY DEF Collected
<1>2. PICK x \in Nat : /\ t.ccs = Append(a.ccs, [item |-> handle, node |-> x])
                       /\ IF pointer # Null THEN x = pointer ELSE x \in Settled(t.mem)
  BY DEF Collected
<1> DEFINE c == [item |-> handle, node |-> x]
<1>3. c.item = handle /\ c.node = x
  OBVIOUS
<1>4. a.ccs \in Seq(Cands)
  BY DEF Collections
<1> HIDE DEF c
<1>5. t.ccs = Append(a.ccs, c)
  BY <1>2 DEF c
<1>6. /\ Len(t.ccs) = Len(a.ccs) + 1 /\ Len(a.ccs) \in Nat
      /\ \A i \in 1..Len(a.ccs) : t.ccs[i] = a.ccs[i]
      /\ t.ccs[Len(t.ccs)] = c
  <2> DEFINE S == Cands \cup {c}
  <2>1. a.ccs \in Seq(S) /\ c \in S
    BY <1>4
  <2> HIDE DEF S
  <2>2. Len(a.ccs) \in Nat
    BY <1>4, LenProperties
  <2> QED
    BY <1>5, <2>1, <2>2, AppendProperties
<1> QED
  BY <1>1, <1>2, <1>3, <1>6

\* Every candidate is one of the handles.
LEMMA CandidatesFound ==
  ASSUME MemSound(mem), NEW b \in 0..Len(mem.lns), NEW p, NEW handles, NEW pointers,
         Pointed(handles, pointers, b)
  PROVE  LET had == Candidates(p, handles, pointers)
         IN /\ had \in Collections(b)
            /\ \A i \in 1..Len(had.ccs) :
                 \E k \in 1..Len(handles) : had.ccs[i].item = handles[k]
<1> DEFINE N == Len(handles)
           From(a) == \A i \in 1..Len(a.ccs) : \E k \in 1..N : a.ccs[i].item = handles[k]
<1>1. PICK g : /\ CollectLoop(p, handles, pointers, b, g)
               /\ Candidates(p, handles, pointers) = g[N]
  BY CandidatesLoop
<1>2. N \in Nat
  BY LenProperties DEF Pointed
<1> DEFINE T == {n \in 0..N : From(g[n])}
<1>3. 0 \in T
  <2>1. g[0].ccs = <<>>
    BY <1>1 DEF CollectLoop
  <2>2. \A i \in 1..Len(<<>>) : FALSE
    OBVIOUS
  <2> QED
    BY <1>2, <2>1, <2>2
<1>4. ASSUME NEW n \in 0..N - 1, n \in T PROVE n + 1 \in T
  <2> DEFINE a == g[n]
             t == g[n + 1]
  <2>1. /\ a \in Collections(b) /\ t \in Collections(b)
        /\ Collected(a, t, handles[n + 1], pointers[n + 1])
    BY <1>1, CollectedTurn
  <2>2. From(a) /\ n + 1 \in 1..N /\ n + 1 \in 0..N
    BY <1>2, <1>4
  <2> HIDE DEF a, t
  <2>3. From(t)
    <3>1. CASE t = a
      BY <2>2, <3>1
    <3>2. CASE t # a
      <4>1. /\ Len(a.ccs) \in Nat /\ Len(t.ccs) = Len(a.ccs) + 1
            /\ \A i \in 1..Len(a.ccs) : t.ccs[i] = a.ccs[i]
            /\ t.ccs[Len(t.ccs)].item = handles[n + 1]
        BY <2>1, <3>2, TurnAppends
      <4> TAKE i \in 1..Len(t.ccs)
      <4>2. CASE i \in 1..Len(a.ccs)
        BY <2>2, <4>1, <4>2
      <4>3. CASE i = Len(t.ccs)
        BY <2>2, <4>1, <4>3
      <4> QED
        BY <4>1, <4>2, <4>3
    <3> QED
      BY <3>1, <3>2
  <2> QED
    BY <2>2, <2>3 DEF t
<1>5. N \in T
  <2>1. \A n \in 0..N : n \in T
    <3> HIDE DEF T
    <3> QED
      BY <1>2, <1>3, <1>4, InductionUpTo
  <2>2. N \in 0..N
    BY <1>2
  <2> QED
    BY <2>1, <2>2
<1>6. g[N] \in Collections(b)
  <2>1. N \in 0..N
    BY <1>2
  <2> QED
    BY <1>1, <2>1 DEF CollectLoop
<1> QED
  BY <1>1, <1>5, <1>6

\* no list of lns; with q the one list is the q-th handle, and it alone can be the recursion
Plain(item, q) ==
  /\ ~IsList(item)
  /\ q # 0 /\ item.production # NoProd => Productions[item.production].head \notin ListHeads

\* Of the handles only the q-th is a list, the top of lns; with q = 0 none is.
OneHandle(handles, pointers, q) ==
  /\ q \in 0..Len(handles)
  /\ \A k \in 1..Len(handles) : k # q =>
       (pointers[k] # Null => pointers[k] \in Settled(mem)) /\ Plain(handles[k], q)
  /\ q # 0 => IsList(handles[q]) /\ pointers[q] = TopNode(mem)

\* After n handles the j-th candidate is the one that comes from the q-th of them.
Traced(a, handles, q, n, j) ==
  /\ j \in 0..Len(a.ccs)
  /\ j # 0 <=> q # 0 /\ q <= n
  /\ \A i \in 1..Len(a.ccs) : i # j => a.ccs[i].node \in Settled(a.mem) /\ Plain(a.ccs[i].item, q)
  /\ j # 0 => a.ccs[j].item = handles[q] /\ a.ccs[j].node = TopNode(mem)

LEMMA TracedTurn ==
  ASSUME MemSound(mem), NEW b \in 0..Len(mem.lns), NEW p, NEW handles, NEW pointers,
         Pointed(handles, pointers, b), NEW q, OneHandle(handles, pointers, q),
         q # 0 => mem.lns # <<>>,
         NEW g, CollectLoop(p, handles, pointers, b, g), NEW n \in 0..Len(handles) - 1,
         NEW j, Traced(g[n], handles, q, n, j)
  PROVE  \E i : Traced(g[n + 1], handles, q, n + 1, i)
<1> DEFINE a == g[n]
           t == g[n + 1]
           pointer == pointers[n + 1]
           handle  == handles[n + 1]
<1>1. /\ a \in Collections(b) /\ t \in Collections(b) /\ Collected(a, t, handle, pointer)
  BY CollectedTurn
<1>2. Len(handles) \in Nat /\ n + 1 \in 1..Len(handles) /\ q \in Nat /\ n \in Nat
  BY LenProperties DEF Pointed, OneHandle
<1>3. Traced(a, handles, q, n, j)
  OBVIOUS
<1>4. n + 1 # q => (pointer # Null => pointer \in Settled(mem)) /\ Plain(handle, q)
  BY <1>2 DEF OneHandle
<1>5. n + 1 = q => IsList(handle) /\ pointer = TopNode(mem) /\ pointer # Null
  <2>1. n + 1 = q => q # 0
    BY <1>2
  <2>2. n + 1 = q => IsList(handle) /\ pointer = TopNode(mem)
    BY <2>1 DEF OneHandle
  <2>3. q # 0 => TopNode(mem) # Null
    BY TopHolds DEF Null
  <2> QED
    BY <2>1, <2>2, <2>3
<1>6. Settled(mem) \subseteq Settled(a.mem) /\ Len(a.ccs) \in Nat
  BY <1>1, LenProperties DEF Collections, Keeps
<1> HIDE DEF a, t, handle, pointer
<1>7. CASE t = a
  <2>1. n + 1 # q
    <3>1. handle.production = NoProd \/ Len(t.ccs) = Len(a.ccs) + 1
      <4>1. CASE \E x \in Nat : t.ccs = Append(a.ccs, [item |-> handle, node |-> x])
        <5>1. a.ccs \in Seq(Cands)
          BY <1>1 DEF Collections
        <5> QED
          BY <1>7, <4>1, <5>1, AppendProperties
      <4> QED
        BY <1>1, <4>1 DEF Collected
    <3>2. Len(t.ccs) # Len(a.ccs) + 1
      BY <1>6, <1>7
    <3> QED
      BY <1>5, <3>1, <3>2 DEF IsList
  <2>2. q <= n <=> q <= n + 1
    BY <1>2, <2>1
  <2>3. Traced(t, handles, q, n + 1, j)
    BY <1>3, <1>7, <2>2 DEF Traced
  <2> QED
    BY <2>3 DEF t
<1>8. CASE t # a
  <2>1. /\ Settled(a.mem) \subseteq Settled(t.mem)
        /\ Len(a.ccs) \in Nat /\ Len(t.ccs) = Len(a.ccs) + 1
        /\ \A i \in 1..Len(a.ccs) : t.ccs[i] = a.ccs[i]
        /\ t.ccs[Len(t.ccs)].item = handle
        /\ pointer # Null => t.ccs[Len(t.ccs)].node = pointer
        /\ pointer = Null => t.ccs[Len(t.ccs)].node \in Settled(t.mem)
    <3>1. /\ Settled(a.mem) \subseteq Settled(t.mem)
          /\ Len(a.ccs) \in Nat /\ Len(t.ccs) = Len(a.ccs) + 1
          /\ \A i \in 1..Len(a.ccs) : t.ccs[i] = a.ccs[i]
          /\ t.ccs[Len(t.ccs)].item = handle
          /\ IF pointer # Null THEN t.ccs[Len(t.ccs)].node = pointer
             ELSE t.ccs[Len(t.ccs)].node \in Settled(t.mem)
      BY <1>1, <1>8, TurnAppends
    <3> QED
      BY <3>1
  <2> DEFINE i == IF n + 1 = q THEN Len(t.ccs) ELSE j
  <2>2. /\ j \in 0..Len(a.ccs) /\ (j # 0 <=> q # 0 /\ q <= n)
        /\ \A k \in 1..Len(a.ccs) : k # j => a.ccs[k].node \in Settled(a.mem)
                                             /\ Plain(a.ccs[k].item, q)
        /\ j # 0 => a.ccs[j].item = handles[q] /\ a.ccs[j].node = TopNode(mem)
    BY <1>3 DEF Traced
  <2>3. i \in 0..Len(t.ccs) /\ (i # 0 <=> q # 0 /\ q <= n + 1)
    BY <1>2, <2>1, <2>2
  <2>4. n + 1 = q => j = 0
    BY <1>2, <2>2
  <2>5. ASSUME NEW k \in 1..Len(t.ccs), k # i
        PROVE  t.ccs[k].node \in Settled(t.mem) /\ Plain(t.ccs[k].item, q)
    <3>1. CASE k \in 1..Len(a.ccs)
      <4>1. k # j
        BY <2>4, <2>5, <3>1
      <4>2. a.ccs[k].node \in Settled(a.mem) /\ Plain(a.ccs[k].item, q)
        BY <2>2, <3>1, <4>1
      <4>3. t.ccs[k] = a.ccs[k]
        BY <2>1, <3>1
      <4> QED
        BY <2>1, <4>2, <4>3
    <3>2. CASE k = Len(t.ccs)
      <4>1. n + 1 # q
        BY <2>5, <3>2
      <4>2. Plain(handle, q) /\ (pointer # Null => pointer \in Settled(t.mem))
        BY <1>4, <1>6, <2>1, <4>1
      <4> QED
        BY <2>1, <3>2, <4>2
    <3> QED
      BY <2>1, <3>1, <3>2
  <2>6. i # 0 => t.ccs[i].item = handles[q] /\ t.ccs[i].node = TopNode(mem)
    <3>1. CASE n + 1 = q
      BY <1>5, <2>1, <3>1 DEF handle
    <3>2. CASE n + 1 # q
      <4>1. j # 0 => j \in 1..Len(a.ccs)
        BY <2>1, <2>2
      <4>2. i = j
        BY <3>2
      <4>3. j # 0 => t.ccs[j] = a.ccs[j]
        BY <2>1, <4>1
      <4> HIDE DEF i
      <4> QED
        BY <2>2, <4>2, <4>3
    <3> QED
      BY <3>1, <3>2
  <2> HIDE DEF i
  <2>7. Traced(t, handles, q, n + 1, i)
    BY <2>3, <2>5, <2>6 DEF Traced
  <2> QED
    BY <2>7 DEF t
<1> QED
  BY <1>7, <1>8

\* One list among the handles is one list among the candidates.
LEMMA CandidatesBegun ==
  ASSUME MemSound(mem), Held(mem), NEW b \in 0..Len(mem.lns), NEW p, NEW handles, NEW pointers,
         Pointed(handles, pointers, b), NEW q, OneHandle(handles, pointers, q),
         Len(mem.lns) = IF q = 0 THEN b ELSE b + 1
  PROVE  LET had == Candidates(p, handles, pointers)
         IN /\ Held(had.mem)
            /\ \E j : /\ OneBegun(had.mem, had.ccs, b, j)
                      /\ j # 0 => had.ccs[j].item = handles[q] /\ q \in 1..Len(handles)
<1> DEFINE N == Len(handles)
<1>1. PICK g : /\ CollectLoop(p, handles, pointers, b, g)
               /\ Candidates(p, handles, pointers) = g[N]
  BY CandidatesLoop
<1>2. N \in Nat /\ Len(mem.lns) \in Nat /\ q \in 0..N
  BY LenProperties, MemTyped DEF Pointed, MemSound, OneHandle
<1>3. q # 0 => mem.lns # <<>>
  BY <1>2
<1> DEFINE T == {n \in 0..N : \E j : Traced(g[n], handles, q, n, j)}
<1>4. 0 \in T
  <2>1. g[0].ccs = <<>>
    BY <1>1 DEF CollectLoop
  <2>2. Len(g[0].ccs) = 0 /\ \A i \in 1..Len(g[0].ccs) : FALSE
    BY <2>1
  <2>3. 0 \in 0..0 /\ ~(q # 0 /\ q <= 0)
    BY <1>2
  <2>4. Traced(g[0], handles, q, 0, 0)
    BY <2>2, <2>3 DEF Traced
  <2> QED
    BY <1>2, <2>4
<1>5. ASSUME NEW n \in 0..N - 1, n \in T PROVE n + 1 \in T
  <2>1. PICK j : Traced(g[n], handles, q, n, j)
    BY <1>5
  <2>2. \E i : Traced(g[n + 1], handles, q, n + 1, i)
    BY <1>1, <1>3, <2>1, TracedTurn
  <2>3. n + 1 \in 0..N
    BY <1>2
  <2> QED
    BY <2>2, <2>3
<1>6. PICK j : Traced(g[N], handles, q, N, j)
  <2>1. \A n \in 0..N : n \in T
    <3> HIDE DEF T
    <3> QED
      BY <1>2, <1>4, <1>5, InductionUpTo
  <2>2. N \in 0..N
    BY <1>2
  <2> QED
    BY <2>1, <2>2
<1> DEFINE had == g[N]
<1>7. had \in Collections(b)
  <2>1. N \in 0..N
    BY <1>2
  <2> QED
    BY <1>1, <2>1 DEF CollectLoop
<1>8. Traced(had, handles, q, N, j) /\ Candidates(p, handles, pointers) = had
  BY <1>1, <1>6
<1> HIDE DEF had
<1>9. had.mem.lns = mem.lns /\ Held(had.mem)
  BY <1>7 DEF Collections
<1>10. j # 0 <=> q # 0
  BY <1>2, <1>8 DEF Traced
<1>11. j # 0 => had.ccs[j].item = handles[q] /\ had.ccs[j].node = TopNode(had.mem)
                /\ q \in 1..N
  BY <1>2, <1>8, <1>9, <1>10 DEF Traced, TopNode
<1>12. j # 0 => IsList(had.ccs[j].item)
  BY <1>10, <1>11 DEF OneHandle
<1>13. Len(had.mem.lns) = IF j = 0 THEN b ELSE b + 1
  BY <1>9, <1>10
<1>14. \A i \in 1..Len(had.ccs) : i # j =>
         /\ had.ccs[i].node \in Settled(had.mem) /\ ~IsList(had.ccs[i].item)
         /\ j # 0 /\ had.ccs[i].item.production # NoProd =>
              Productions[had.ccs[i].item.production].head \notin ListHeads
  BY <1>8, <1>10 DEF Traced, Plain
<1>15. OneBegun(had.mem, had.ccs, b, j)
  <2>1. j \in 0..Len(had.ccs)
    BY <1>8 DEF Traced
  <2> QED
    BY <1>11, <1>12, <1>13, <1>14, <2>1 DEF OneBegun
<1> QED
  BY <1>8, <1>9, <1>11, <1>15
-----------------------------------------------------------------------------
(* Marks.                                                                  *)

\* e on what is left when all above the k-th is taken off
Topped(s, k, e) == Append(SubSeq(s, 1, k), e)

LEMMA ToppedIs ==
  ASSUME NEW S, NEW s \in Seq(S), NEW k \in 0..Len(s), NEW e \in S
  PROVE  /\ Topped(s, k, e) \in Seq(S) /\ Len(Topped(s, k, e)) = k + 1
         /\ \A i \in 1..k : Topped(s, k, e)[i] = s[i]
         /\ Topped(s, k, e)[k + 1] = e
<1> DEFINE r == SubSeq(s, 1, k)
<1>1. Len(s) \in Nat /\ \A i \in 1..k : s[i] \in S
  BY LenProperties, ElementOfSeq
<1>2. r \in Seq(S) /\ Len(r) = k /\ \A i \in 1..k : r[i] = s[i]
  <2>1. /\ r \in Seq(S) /\ Len(r) = IF 1 <= k THEN k - 1 + 1 ELSE 0
        /\ \A i \in 1..k - 1 + 1 : r[i] = s[1 + i - 1]
    BY <1>1, SubSeqProperties
  <2> HIDE DEF r
  <2> QED
    BY <2>1
<1> HIDE DEF r
<1> QED
  BY <1>2, AppendProperties DEF Topped, r

LEMMA ToppedNats ==
  ASSUME NEW s \in Seq(Nat), NEW k \in 0..Len(s), NEW e \in Nat
  PROVE  /\ Topped(s, k, e) \in Seq(Nat) /\ Len(Topped(s, k, e)) = k + 1
         /\ \A i \in 1..k : Topped(s, k, e)[i] = s[i]
         /\ Topped(s, k, e)[k + 1] = e
<1> DEFINE S == Nat
<1>1. s \in Seq(S) /\ e \in S
  OBVIOUS
<1> HIDE DEF S
<1>2. /\ Topped(s, k, e) \in Seq(S) /\ Len(Topped(s, k, e)) = k + 1
      /\ \A i \in 1..k : Topped(s, k, e)[i] = s[i]
      /\ Topped(s, k, e)[k + 1] = e
  BY <1>1, ToppedIs
<1> QED
  BY <1>2 DEF S

\* h has the mark of each item of stack s, with pointers d: the height of the list
\* stack below which the item and those above it do not reach.
Marks(s, d, m, h) ==
  /\ h \in Seq(Nat) /\ Len(h) = Len(s)
  /\ d \in Seq(Nat) /\ Len(d) = Len(s) /\ d[1] = Null
  /\ \A i \in 1..Len(s) : h[i] <= Len(m.lns) /\ d[i] <= Len(m.heap)
  /\ \A i, j \in 1..Len(s) : i <= j => h[i] <= h[j]
  /\ \A i \in 2..Len(s) :
       /\ d[i] \notin Low(m, h[i - 1])
       /\ IsList(s[i]) => h[i - 1] < h[i]
       /\ s[i].production # NoProd => d[i] # Null
       /\ s[i].production = NoProd => s[i].token.symbol \in Lexemes

\* The marks are exact: an item of a list reaches one higher than the one below and
\* its pointer is that list's; any other reaches no higher.
Begun(s, d, m, h) ==
  /\ h[Len(s)] = Len(m.lns)
  /\ \A i \in 2..Len(s) : IF IsList(s[i]) THEN h[i] = h[i - 1] + 1 /\ d[i] = m.lns[h[i]].node
                          ELSE d[i] # Null => d[i] \in Settled(m)
  /\ \A i, j \in 1..Len(s) : i <= j /\ (\A l \in i + 1..j : ~IsList(s[l])) => h[i] = h[j]

\* Item it with pointer x in place of all above the k-th item; n is the memory after.
Tops(s, h, m, k, it, x, n) ==
  /\ k \in 1..Len(s) /\ it \in StackItems
  /\ x \in 0..Len(n.heap) /\ x \notin Low(m, h[k])
  /\ MemSound(n) /\ Keeps(m, n, h[k])
  /\ IsList(it) => Len(n.lns) > h[k]
  /\ it.production # NoProd => x # Null
  /\ it.production = NoProd => it.token.symbol \in Lexemes

TopsExactly(h, k, it, x, n) ==
  /\ Held(n)
  /\ IF IsList(it) THEN Len(n.lns) = h[k] + 1 /\ x = TopNode(n)
     ELSE Len(n.lns) = h[k] /\ (x # Null => x \in Settled(n))

LEMMA PushMarks ==
  ASSUME NEW s, s \in Seq(StackItems), NEW d, NEW m, m \in Mems, NEW h, Marks(s, d, m, h),
         NEW k, NEW it, NEW x, NEW n, Tops(s, h, m, k, it, x, n)
  PROVE  Marks(Topped(s, k, it), Topped(d, k, x), n, Topped(h, k, Len(n.lns)))
<1> DEFINE ss == Topped(s, k, it)
           dd == Topped(d, k, x)
           hh == Topped(h, k, Len(n.lns))
<1>1. /\ k \in 1..Len(s) /\ it \in StackItems
      /\ x \in 0..Len(n.heap) /\ x \notin Low(m, h[k])
      /\ n \in Mems /\ Keeps(m, n, h[k])
      /\ IsList(it) => Len(n.lns) > h[k]
      /\ it.production # NoProd => x # Null
      /\ it.production = NoProd => it.token.symbol \in Lexemes
  BY DEF Tops, MemSound
<1>2. /\ Len(m.heap) \in Nat /\ Len(n.heap) \in Nat /\ Len(m.heap) <= Len(n.heap)
      /\ Len(n.lns) \in Nat /\ Len(m.lns) \in Nat /\ h[k] <= Len(n.lns) /\ Len(s) \in Nat
  BY <1>1, MemTyped, LenProperties DEF Keeps
<1>3. /\ h \in Seq(Nat) /\ Len(h) = Len(s)
      /\ d \in Seq(Nat) /\ Len(d) = Len(s) /\ d[1] = Null
      /\ \A i \in 1..Len(s) : h[i] <= Len(m.lns) /\ d[i] <= Len(m.heap)
      /\ \A i, j \in 1..Len(s) : i <= j => h[i] <= h[j]
      /\ \A i \in 2..Len(s) :
           /\ d[i] \notin Low(m, h[i - 1])
           /\ IsList(s[i]) => h[i - 1] < h[i]
           /\ s[i].production # NoProd => d[i] # Null
           /\ s[i].production = NoProd => s[i].token.symbol \in Lexemes
  BY DEF Marks
<1>4. \A i \in 1..Len(s) : h[i] \in Nat /\ d[i] \in Nat
  BY <1>3, ElementOfSeq
<1>5. k \in 0..Len(s) /\ k \in Nat
  BY <1>1, <1>2
<1>a. /\ h \in Seq(Nat) /\ k \in 0..Len(h) /\ Len(n.lns) \in Nat
      /\ d \in Seq(Nat) /\ k \in 0..Len(d) /\ x \in Nat
  BY <1>1, <1>2, <1>3, <1>5
<1>6. ss \in Seq(StackItems) /\ Len(ss) = k + 1 /\ (\A i \in 1..k : ss[i] = s[i]) /\ ss[k + 1] = it
  BY <1>1, <1>5, ToppedIs
<1>7. dd \in Seq(Nat) /\ Len(dd) = k + 1 /\ (\A i \in 1..k : dd[i] = d[i]) /\ dd[k + 1] = x
  BY <1>a, ToppedNats
<1>8. /\ hh \in Seq(Nat) /\ Len(hh) = k + 1
      /\ \A i \in 1..k : hh[i] = h[i]
      /\ hh[k + 1] = Len(n.lns)
  BY <1>a, ToppedNats
<1> HIDE DEF ss, dd, hh
<1>9. dd[1] = Null
  BY <1>1, <1>3, <1>7
<1>10. \A i \in 1..k : h[i] <= h[k]
  <2> TAKE i \in 1..k
  <2>1. i \in 1..Len(s) /\ k \in 1..Len(s) /\ i <= k
    BY <1>1, <1>2, <1>5
  <2> QED
    BY <1>3, <2>1
<1>11. \A i \in 1..k + 1 : hh[i] <= Len(n.lns) /\ dd[i] <= Len(n.heap)
  <2> TAKE i \in 1..k + 1
  <2>1. CASE i \in 1..k
    <3>1. i \in 1..Len(s) /\ k \in 1..Len(s)
      BY <1>1, <1>2, <2>1
    <3>2. hh[i] = h[i] /\ dd[i] = d[i] /\ h[i] <= h[k] /\ d[i] <= Len(m.heap)
      BY <1>3, <1>7, <1>8, <1>10, <2>1, <3>1
    <3>3. h[i] \in Nat /\ h[k] \in Nat /\ d[i] \in Nat
      BY <1>4, <3>1
    <3> QED
      BY <1>2, <3>2, <3>3
  <2>2. CASE i = k + 1
    BY <1>1, <1>2, <1>7, <1>8, <2>2
  <2> QED
    BY <1>5, <2>1, <2>2
<1>12. \A i, j \in 1..k + 1 : i <= j => hh[i] <= hh[j]
  <2> TAKE i, j \in 1..k + 1
  <2> HAVE i <= j
  <2>1. CASE j \in 1..k
    <3>1. i \in 1..k /\ i \in 1..Len(s) /\ j \in 1..Len(s)
      BY <1>1, <1>2, <1>5, <2>1
    <3> QED
      BY <1>3, <1>8, <2>1, <3>1
  <2>2. CASE j = k + 1
    BY <1>8, <1>11, <2>2
  <2> QED
    BY <1>5, <2>1, <2>2
<1>13. ASSUME NEW i \in 2..k + 1
       PROVE  /\ dd[i] \notin Low(n, hh[i - 1])
              /\ IsList(ss[i]) => hh[i - 1] < hh[i]
              /\ ss[i].production # NoProd => dd[i] # Null
              /\ ss[i].production = NoProd => ss[i].token.symbol \in Lexemes
  <2>1. i - 1 \in 1..k /\ hh[i - 1] = h[i - 1] /\ h[i - 1] \in 0..h[k]
    <3>1. i - 1 \in 1..k /\ i - 1 \in 1..Len(s) /\ k \in 1..Len(s)
      BY <1>1, <1>2, <1>5
    <3>2. h[i - 1] \in Nat /\ h[k] \in Nat /\ h[i - 1] <= h[k]
      BY <1>4, <1>10, <3>1
    <3> QED
      BY <1>8, <3>1, <3>2
  <2>2. Low(n, hh[i - 1]) = Low(m, h[i - 1])
    <3>1. Keeps(m, n, h[i - 1])
      BY <1>1, <2>1, KeepsLess
    <3> QED
      BY <2>1, <3>1, KeepsLow
  <2>3. CASE i \in 2..k
    <3>1. i \in 1..k /\ i \in 2..Len(s)
      BY <1>1, <1>2, <2>3
    <3>2. dd[i] = d[i] /\ ss[i] = s[i] /\ hh[i] = h[i]
      BY <1>6, <1>7, <1>8, <3>1
    <3> QED
      BY <1>3, <2>1, <2>2, <3>1, <3>2
  <2>4. CASE i = k + 1
    <3>1. i - 1 = k
      BY <1>5, <2>4
    <3>2. dd[i] = x /\ ss[i] = it /\ hh[i] = Len(n.lns)
      BY <1>6, <1>7, <1>8, <2>4
    <3> QED
      BY <1>1, <2>1, <2>2, <3>1, <3>2
  <2> QED
    BY <1>5, <2>3, <2>4
<1>14. Marks(ss, dd, n, hh)
  BY <1>6, <1>7, <1>8, <1>9, <1>11, <1>12, <1>13 DEF Marks
<1> QED
  BY <1>14 DEF ss, dd, hh

LEMMA PushBegun ==
  ASSUME NEW s, s \in Seq(StackItems), NEW d, NEW m, m \in Mems, NEW h, Marks(s, d, m, h),
         NEW k, NEW it, NEW x, NEW n, Tops(s, h, m, k, it, x, n),
         Begun(s, d, m, h), TopsExactly(h, k, it, x, n)
  PROVE  Begun(Topped(s, k, it), Topped(d, k, x), n, Topped(h, k, Len(n.lns)))
<1> DEFINE ss == Topped(s, k, it)
           dd == Topped(d, k, x)
           hh == Topped(h, k, Len(n.lns))
<1>1. /\ k \in 1..Len(s) /\ it \in StackItems /\ x \in 0..Len(n.heap)
      /\ n \in Mems /\ Keeps(m, n, h[k])
  BY DEF Tops, MemSound
<1>2. /\ Len(m.heap) \in Nat /\ Len(n.heap) \in Nat
      /\ Len(n.lns) \in Nat /\ Len(m.lns) \in Nat /\ h[k] <= Len(n.lns) /\ Len(s) \in Nat
      /\ Settled(m) \subseteq Settled(n) /\ \A l \in 1..h[k] : n.lns[l] = m.lns[l]
  BY <1>1, MemTyped, LenProperties DEF Keeps
<1>3. /\ h \in Seq(Nat) /\ Len(h) = Len(s)
      /\ d \in Seq(Nat) /\ Len(d) = Len(s)
      /\ \A i, j \in 1..Len(s) : i <= j => h[i] <= h[j]
  BY DEF Marks
<1>4. \A i \in 1..Len(s) : h[i] \in Nat /\ d[i] \in Nat
  BY <1>3, ElementOfSeq
<1>5. k \in 0..Len(s) /\ k \in Nat
  BY <1>1, <1>2
<1>a. /\ h \in Seq(Nat) /\ k \in 0..Len(h) /\ Len(n.lns) \in Nat
      /\ d \in Seq(Nat) /\ k \in 0..Len(d) /\ x \in Nat
  BY <1>1, <1>2, <1>3, <1>5
<1>6. ss \in Seq(StackItems) /\ Len(ss) = k + 1 /\ (\A i \in 1..k : ss[i] = s[i]) /\ ss[k + 1] = it
  BY <1>1, <1>5, ToppedIs
<1>7. dd \in Seq(Nat) /\ Len(dd) = k + 1 /\ (\A i \in 1..k : dd[i] = d[i]) /\ dd[k + 1] = x
  BY <1>a, ToppedNats
<1>8. /\ hh \in Seq(Nat) /\ Len(hh) = k + 1
      /\ \A i \in 1..k : hh[i] = h[i]
      /\ hh[k + 1] = Len(n.lns)
  BY <1>a, ToppedNats
<1> HIDE DEF ss, dd, hh
<1>9. /\ \A i \in 2..Len(s) :
           IF IsList(s[i]) THEN h[i] = h[i - 1] + 1 /\ d[i] = m.lns[h[i]].node
           ELSE d[i] # Null => d[i] \in Settled(m)
      /\ \A i, j \in 1..Len(s) : i <= j /\ (\A l \in i + 1..j : ~IsList(s[l])) => h[i] = h[j]
  BY DEF Begun
<1>10. /\ IsList(it) => Len(n.lns) = h[k] + 1 /\ x = TopNode(n)
       /\ ~IsList(it) => Len(n.lns) = h[k] /\ (x # Null => x \in Settled(n))
  BY DEF TopsExactly
<1>11. ASSUME NEW i \in 2..k + 1
       PROVE  IF IsList(ss[i]) THEN hh[i] = hh[i - 1] + 1 /\ dd[i] = n.lns[hh[i]].node
              ELSE dd[i] # Null => dd[i] \in Settled(n)
  <2>1. i - 1 \in 1..k /\ hh[i - 1] = h[i - 1] /\ i - 1 \in 1..Len(s)
    BY <1>1, <1>2, <1>5, <1>8
  <2>2. CASE i \in 2..k
    <3>1. i \in 1..k /\ i \in 2..Len(s) /\ i \in 1..Len(s) /\ i <= k /\ k \in 1..Len(s)
      BY <1>1, <1>2, <2>2
    <3>2. dd[i] = d[i] /\ ss[i] = s[i] /\ hh[i] = h[i]
      BY <1>6, <1>7, <1>8, <3>1
    <3>3. CASE IsList(s[i])
      <4>1. h[i] = h[i - 1] + 1 /\ d[i] = m.lns[h[i]].node
        BY <1>9, <3>1, <3>3
      <4>2. h[i] \in 1..h[k]
        <5>1. h[i] \in Nat /\ h[i - 1] \in Nat /\ h[k] \in Nat /\ h[i] <= h[k]
          BY <1>3, <1>4, <2>1, <3>1
        <5> QED
          BY <4>1, <5>1
      <4>3. n.lns[h[i]] = m.lns[h[i]]
        BY <1>2, <4>2
      <4> QED
        BY <2>1, <3>2, <3>3, <4>1, <4>3
    <3>4. CASE ~IsList(s[i])
      BY <1>2, <1>9, <3>1, <3>2, <3>4
    <3> QED
      BY <3>3, <3>4
  <2>3. CASE i = k + 1
    <3>1. i - 1 = k
      BY <1>5, <2>3
    <3>2. dd[i] = x /\ ss[i] = it /\ hh[i] = Len(n.lns)
      BY <1>6, <1>7, <1>8, <2>3
    <3> QED
      BY <1>10, <2>1, <3>1, <3>2 DEF TopNode
  <2> QED
    BY <1>5, <2>2, <2>3
<1>12. ASSUME NEW i \in 1..k + 1, NEW j \in 1..k + 1, i <= j, \A l \in i + 1..j : ~IsList(ss[l])
       PROVE  hh[i] = hh[j]
  <2>1. ASSUME NEW c \in 1..k, i <= c, \A l \in i + 1..c : ~IsList(ss[l])
        PROVE  hh[i] = hh[c]
    <3>1. i \in 1..k /\ i \in 1..Len(s) /\ c \in 1..Len(s)
      <4>1. i <= c /\ c <= k /\ i >= 1 /\ i \in Nat /\ c \in Nat /\ k <= Len(s)
        BY <1>1, <1>2, <1>5, <2>1
      <4> QED
        BY <1>2, <1>5, <4>1
    <3>2. \A l \in i + 1..c : l \in 1..k
      <4>1. i \in 1..k /\ c \in 1..k
        BY <3>1
      <4> QED
        BY <1>5, <4>1
    <3>3. \A l \in i + 1..c : ~IsList(s[l])
      BY <1>6, <2>1, <3>2
    <3> QED
      BY <1>8, <1>9, <2>1, <3>1, <3>3
  <2>2. CASE j \in 1..k
    BY <1>12, <2>1, <2>2
  <2>3. CASE j = k + 1 /\ i = k + 1
    BY <2>3
  <2>4. CASE j = k + 1 /\ i # k + 1
    <3>1. i <= k /\ k \in 1..k /\ j \in i + 1..j /\ i \in 1..k
      BY <1>1, <1>5, <2>4
    <3>2. \A l \in i + 1..k : l \in i + 1..j
      BY <1>5, <2>4
    <3>3. hh[i] = hh[k]
      BY <1>12, <2>1, <3>1, <3>2
    <3>4. ~IsList(it)
      BY <1>6, <1>12, <2>4, <3>1
    <3> QED
      BY <1>8, <1>10, <2>4, <3>1, <3>3, <3>4
  <2> QED
    BY <1>5, <2>2, <2>3, <2>4
<1>13. Begun(ss, dd, n, hh)
  BY <1>6, <1>8, <1>11, <1>12 DEF Begun
<1> QED
  BY <1>13 DEF ss, dd, hh
-----------------------------------------------------------------------------
(* A reduction.                                                            *)

\* The handles lie above the mark of the item below them, with their pointers.
LEMMA HandlesPointed ==
  ASSUME stack \in Seq(StackItems), mem \in Mems, NEW h, Marks(stack, data, mem, h),
         NEW p, NEW m, NEW it, Replaced(p, m, it)
  PROVE  LET k        == Len(stack) - m
             pointers == SubSeq(data, k + 1, Len(data))
         IN /\ Pointed(Handles(p), pointers, h[k])
            /\ k \in 1..Len(stack) /\ m \in Nat /\ Len(Handles(p)) = m
            /\ \A i \in 1..m : /\ k + i \in 2..Len(stack)
                               /\ Handles(p)[i] = stack[k + i] /\ pointers[i] = data[k + i]
<1> DEFINE n == Len(stack)
           k == n - m
           pointers == SubSeq(data, k + 1, Len(data))
<1>1. /\ h \in Seq(Nat) /\ Len(h) = n
      /\ data \in Seq(Nat) /\ Len(data) = n
      /\ \A i \in 1..n : h[i] <= Len(mem.lns) /\ data[i] <= Len(mem.heap)
      /\ \A i, j \in 1..n : i <= j => h[i] <= h[j]
      /\ \A i \in 2..n : data[i] \notin Low(mem, h[i - 1])
  BY DEF Marks
<1>2. /\ n \in Nat /\ Len(mem.lns) \in Nat /\ Len(mem.heap) \in Nat
      /\ \A i \in 1..n : h[i] \in Nat /\ data[i] \in Nat
  BY <1>1, LenProperties, ElementOfSeq, MemTyped
<1>3. /\ m \in Nat /\ k \in 1..n /\ k = n - m
      /\ Handles(p) \in Seq(StackItems) /\ Len(Handles(p)) = m
      /\ \A i \in 1..m : Handles(p)[i] = stack[k + i]
  BY DEF Replaced
<1> HIDE DEF n, k
<1>4. \A i \in 1..m : k + i \in 2..n /\ k + i \in 1..n /\ k <= k + i - 1 /\ k + i - 1 \in 1..n
  BY <1>2, <1>3
<1>5. \A i \in 1..m : pointers[i] = data[k + i]
  <2>1. \A i \in k + 1..n : data[i] \in Nat
    BY <1>2, <1>3
  <2>2. \A i \in 1..n - (k + 1) + 1 : pointers[i] = data[k + 1 + i - 1]
    <3>1. pointers = SubSeq(data, k + 1, n)
      BY <1>1
    <3>2. k + 1 \in Int /\ n \in Int
      BY <1>2, <1>3
    <3> HIDE DEF pointers
    <3> QED
      BY <2>1, <3>1, <3>2, SubSeqProperties
  <2>3. n - (k + 1) + 1 = m /\ \A i \in 1..m : k + 1 + i - 1 = k + i
    <3>1. m \in Nat /\ k \in Nat /\ n \in Nat /\ k = n - m
      BY <1>2, <1>3
    <3> QED
      BY <3>1
  <2> HIDE DEF pointers
  <2> QED
    BY <2>2, <2>3
<1> HIDE DEF pointers
<1>6. \A i \in 1..m : pointers[i] \in 0..Len(mem.heap) /\ pointers[i] \notin Low(mem, h[k])
  <2> TAKE i \in 1..m
  <2>1. pointers[i] = data[k + i] /\ k + i \in 1..n /\ k + i \in 2..n
    BY <1>4, <1>5
  <2>2. data[k + i] \in 0..Len(mem.heap)
    <3>1. data[k + i] \in Nat
      BY <1>2, <2>1
    <3>2. data[k + i] <= Len(mem.heap)
      BY <1>1, <2>1
    <3> HIDE DEF pointers
    <3> QED
      BY <1>2, <3>1, <3>2
  <2>3. data[k + i] \notin Low(mem, h[k + i - 1])
    <3> DEFINE j == k + i
    <3>1. j \in 2..n
      BY <2>1
    <3> HIDE DEF j
    <3>2. data[j] \notin Low(mem, h[j - 1])
      BY <1>1, <3>1
    <3>3. k + i - 1 = j - 1
      BY <1>2, <1>3 DEF j
    <3> QED
      BY <3>2, <3>3 DEF j
  <2>4. Low(mem, h[k]) \subseteq Low(mem, h[k + i - 1])
    <3>1. k \in 1..n /\ k + i - 1 \in 1..n /\ k <= k + i - 1
      BY <1>3, <1>4
    <3>2. h[k] <= h[k + i - 1] /\ h[k] \in Nat /\ h[k + i - 1] \in Nat
          /\ h[k + i - 1] <= Len(mem.lns)
      BY <1>1, <1>2, <3>1
    <3>3. h[k + i - 1] \in 0..Len(mem.lns) /\ h[k] \in 0..h[k + i - 1]
      BY <1>2, <3>2
    <3> QED
      BY <3>3, LowGrows
  <2> QED
    BY <2>1, <2>2, <2>3, <2>4
<1>7. Pointed(Handles(p), pointers, h[k])
  BY <1>3, <1>6 DEF Pointed
<1> QED
  BY <1>3, <1>4, <1>5, <1>7 DEF n, k, pointers

\* With at most one list for each production one handle at most is a list, and it is
\* the one on top of lns.
LEMMA OneHandleFound ==
  ASSUME OneListEach, stack \in Seq(StackItems), mem \in Mems,
         NEW h, Marks(stack, data, mem, h), Begun(stack, data, mem, h),
         NEW p, NEW m, NEW it, Replaced(p, m, it)
  PROVE  LET k        == Len(stack) - m
             pointers == SubSeq(data, k + 1, Len(data))
         IN \E q : /\ OneHandle(Handles(p), pointers, q)
                   /\ Len(mem.lns) = IF q = 0 THEN h[k] ELSE h[k] + 1
                   /\ q # 0 /\ ListifyRecursion(p) =>
                        Productions[Handles(p)[q].production].head = Productions[p].head
<1> DEFINE n == Len(stack)
           k == n - m
           pointers == SubSeq(data, k + 1, Len(data))
           hs == Handles(p)
<1>1. /\ k \in 1..n /\ m \in Nat /\ Len(hs) = m /\ n = k + m /\ n \in Nat
      /\ \A i \in 1..m : /\ k + i \in 2..n
                         /\ hs[i] = stack[k + i] /\ pointers[i] = data[k + i]
  <2>1. /\ k \in 1..n /\ m \in Nat /\ Len(hs) = m
        /\ \A i \in 1..m : /\ k + i \in 2..n
                           /\ hs[i] = stack[k + i] /\ pointers[i] = data[k + i]
    BY HandlesPointed
  <2>2. n \in Nat /\ k = n - m
    BY LenProperties
  <2>3. n = k + m
    <3> HIDE DEF n, k
    <3> QED
      BY <2>1, <2>2
  <2> QED
    BY <2>1, <2>2, <2>3
<1>2. /\ p \in ProdIdx /\ m = Len(Productions[p].handles) /\ hs \in Seq(StackItems)
      /\ \A i \in 1..m : SymbolOf(hs[i]) = Productions[p].handles[i]
  BY <1>1 DEF Replaced
<1> HIDE DEF pointers, n, k, hs
<1>3. /\ h[n] = Len(mem.lns)
      /\ \A i \in 2..n : IF IsList(stack[i]) THEN /\ h[i] = h[i - 1] + 1
                                                  /\ data[i] = mem.lns[h[i]].node
                         ELSE data[i] # Null => data[i] \in Settled(mem)
      /\ \A i, j \in 1..n : i <= j /\ (\A l \in i + 1..j : ~IsList(stack[l])) => h[i] = h[j]
  BY DEF Begun, n
<1>4. DOMAIN Productions[p].handles = 1..m
  BY <1>2, TablesTyped, LenProperties
<1>5. \A i \in 1..m : IsList(hs[i]) => /\ Productions[p].handles[i] \in ListHeads
                                       /\ Productions[p].handles[i] = Productions[hs[i].production].head
  <2> TAKE i \in 1..m
  <2> HAVE IsList(hs[i])
  <2>1. hs[i] \in StackItems
    BY <1>1, <1>2, ElementOfSeq
  <2>2. hs[i].production \in ProdIdx /\ ListifyRecursion(hs[i].production)
    BY <2>1 DEF IsList, StackItems
  <2>3. SymbolOf(hs[i]) = Productions[hs[i].production].head
    BY DEF SymbolOf, IsList
  <2> QED
    BY <1>2, <2>2, <2>3 DEF ListHeads
<1>6. CASE \E q \in 1..m : IsList(hs[q])
  <2>1. PICK q \in 1..m : IsList(hs[q])
    BY <1>6
  <2>2. ASSUME NEW i \in 1..m, i # q PROVE Productions[p].handles[i] \notin ListHeads
    BY <1>2, <1>4, <1>5, <2>1, <2>2 DEF OneListEach
  <2>3. ASSUME NEW i \in 1..m, i # q PROVE Plain(hs[i], q)
    <3>1. ~IsList(hs[i])
      BY <1>5, <2>2, <2>3
    <3>2. hs[i].production # NoProd => Productions[hs[i].production].head \notin ListHeads
      BY <1>2, <2>2, <2>3 DEF SymbolOf
    <3> QED
      BY <3>1, <3>2 DEF Plain
  <2>4. ASSUME NEW i \in 1..m, i # q PROVE pointers[i] # Null => pointers[i] \in Settled(mem)
    <3>1. k + i \in 2..n /\ hs[i] = stack[k + i] /\ pointers[i] = data[k + i]
      BY <1>1
    <3>2. ~IsList(stack[k + i])
      BY <1>5, <2>2, <2>4, <3>1
    <3> QED
      BY <1>3, <3>1, <3>2
  <2>5. /\ k + q \in 2..n /\ k + q \in 1..n /\ k + q - 1 \in 1..n
        /\ k <= k + q - 1 /\ k + q <= n /\ k \in 1..n /\ n \in 1..n /\ q # 0 /\ q \in 0..m
    BY <1>1
  <2>6. h[k + q - 1] = h[k]
    <3>1. ASSUME NEW l \in k + 1..k + q - 1 PROVE ~IsList(stack[l])
      <4> DEFINE i == l - k
      <4>1. i \in 1..m /\ i # q /\ k + i = l
        <5>1. k \in Nat /\ m \in Nat /\ n = k + m /\ q \in 1..m
          BY <1>1, <2>1
        <5> QED
          BY <5>1
      <4> HIDE DEF i
      <4>2. ~IsList(hs[i])
        BY <1>5, <2>2, <4>1
      <4> QED
        BY <1>1, <4>1, <4>2
    <3> QED
      BY <1>3, <2>5, <3>1
  <2>7. h[n] = h[k + q]
    <3>1. ASSUME NEW l \in k + q + 1..n PROVE ~IsList(stack[l])
      <4> DEFINE i == l - k
      <4>1. i \in 1..m /\ i # q /\ k + i = l
        <5>1. k \in Nat /\ m \in Nat /\ n = k + m /\ q \in 1..m
          BY <1>1, <2>1
        <5> QED
          BY <5>1
      <4> HIDE DEF i
      <4>2. ~IsList(hs[i])
        BY <1>5, <2>2, <4>1
      <4> QED
        BY <1>1, <4>1, <4>2
    <3> QED
      BY <1>3, <2>5, <3>1
  <2>8. h[k + q] = h[k + q - 1] + 1 /\ data[k + q] = mem.lns[h[k + q]].node
    <3>1. IsList(stack[k + q])
      BY <1>1, <2>1
    <3> QED
      BY <1>3, <2>5, <3>1
  <2>9. Len(mem.lns) = h[k] + 1 /\ pointers[q] = TopNode(mem)
    BY <1>1, <1>3, <2>1, <2>6, <2>7, <2>8 DEF TopNode
  <2>10. OneHandle(hs, pointers, q)
    BY <1>1, <2>1, <2>3, <2>4, <2>5, <2>9 DEF OneHandle
  <2>11. ListifyRecursion(p) => Productions[hs[q].production].head = Productions[p].head
    <3> HAVE ListifyRecursion(p)
    <3>1. PICK i \in 1..m : Productions[p].handles[i] = Productions[p].head
      BY <1>4 DEF ListifyRecursion
    <3>2. Productions[p].head \in ListHeads
      BY <1>2 DEF ListHeads
    <3>3. i = q
      BY <2>2, <3>1, <3>2
    <3> QED
      BY <1>5, <2>1, <3>1, <3>3
  <2> QED
    BY <2>5, <2>9, <2>10, <2>11 DEF n, k, pointers, hs
<1>7. CASE ~\E q \in 1..m : IsList(hs[q])
  <2>1. ASSUME NEW i \in 1..m
        PROVE  Plain(hs[i], 0) /\ (pointers[i] # Null => pointers[i] \in Settled(mem))
    <3>1. k + i \in 2..n /\ hs[i] = stack[k + i] /\ pointers[i] = data[k + i]
      BY <1>1
    <3>2. ~IsList(stack[k + i])
      BY <1>7, <3>1
    <3> QED
      BY <1>3, <3>1, <3>2 DEF Plain
  <2>2. h[k] = h[n]
    <3>1. ASSUME NEW l \in k + 1..n PROVE ~IsList(stack[l])
      <4>1. l - k \in 1..m /\ k + (l - k) = l
        BY <1>1
      <4> QED
        BY <1>1, <1>7, <4>1
    <3>2. k \in 1..n /\ n \in 1..n /\ k <= n
      BY <1>1
    <3> QED
      BY <1>3, <3>1, <3>2
  <2>3. OneHandle(hs, pointers, 0)
    BY <1>1, <2>1 DEF OneHandle
  <2> QED
    BY <1>3, <2>2, <2>3 DEF n, k, pointers, hs
<1> QED
  BY <1>6, <1>7
\* What one step of ParseAll puts on the stack.
PutOn(h) ==
  \E k, it, x : /\ stack' = Topped(stack, k, it) /\ data' = Topped(data, k, x)
                /\ Tops(stack, h, mem, k, it, x, mem')
                /\ OneListEach /\ Held(mem) /\ Begun(stack, data, mem, h) =>
                     TopsExactly(h, k, it, x, mem')

LEMMA ReducePuts ==
  ASSUME IInv, MemSound(mem), Begin, Reduce, SimplifyReduce, NEW h, Marks(stack, data, mem, h)
  PROVE  PutOn(h)
<1> DEFINE p == Action(state, Lookahead).target
           m == Len(Productions[p].handles)
           n == Len(stack)
           k == n - m
           pointers == SubSeq(data, k + 1, Len(data))
           had == Candidates(p, Handles(p), pointers)
<1>1. PICK it \in StackItems : Replaced(p, m, it)
  BY ReduceStack
<1> HIDE DEF p, m
<1>2. stack \in Seq(StackItems) /\ mem \in Mems /\ Len(mem.lns) \in Nat /\ n \in Nat
  BY MemTyped, LenProperties DEF IInv, TypeOK, MemSound
<1>3. /\ Pointed(Handles(p), pointers, h[k])
      /\ k \in 1..n /\ m \in Nat /\ Len(Handles(p)) = m
      /\ \A i \in 1..m : /\ k + i \in 2..n
                         /\ Handles(p)[i] = stack[k + i] /\ pointers[i] = data[k + i]
  BY <1>1, <1>2, HandlesPointed
<1>4. /\ p \in ProdIdx /\ Rest(p) = SubSeq(stack, 1, k) /\ stack' = Topped(stack, k, it)
      /\ it.production = p /\ Len(stack') - 1 = k
      /\ reduction'.production = p /\ reduction'.handles = Handles(p)
  <2>1. /\ p \in ProdIdx /\ m = Len(Productions[p].handles)
        /\ stack' = Append(Rest(p), it) /\ Len(stack') = n - m + 1
        /\ it.production = p
        /\ reduction'.production = p /\ reduction'.handles = Handles(p)
    BY <1>1 DEF Replaced
  <2>2. Rest(p) = SubSeq(stack, 1, k)
    BY <2>1 DEF Rest
  <2>3. Len(stack') - 1 = k
    <3> HIDE DEF n
    <3> QED
      BY <1>2, <1>3, <2>1
  <2> QED
    BY <2>1, <2>2, <2>3 DEF Topped
<1> HIDE DEF n, k, pointers, had
<1>5. PICK moves \in BOOLEAN : LET done == Simplify(p, had.mem, had.ccs, moves)
                               IN mem' = done.mem /\ data' = Topped(data, k, done.pointer)
  BY <1>4 DEF SimplifyReduce, Topped, had, pointers
<1> DEFINE d == Simplify(p, had.mem, had.ccs, moves)
           b == h[k]
<1>6. /\ \A i, j \in 1..n : i <= j => h[i] <= h[j]
      /\ \A i \in 1..n : h[i] <= Len(mem.lns) /\ h[i] \in Nat
      /\ \A i \in 2..n : IsList(stack[i]) => h[i - 1] < h[i]
  <2>1. /\ h \in Seq(Nat) /\ Len(h) = n
        /\ \A i \in 1..n : h[i] <= Len(mem.lns) /\ data[i] <= Len(mem.heap)
        /\ \A i, j \in 1..n : i <= j => h[i] <= h[j]
        /\ \A i \in 2..n :
             /\ data[i] \notin Low(mem, h[i - 1])
             /\ IsList(stack[i]) => h[i - 1] < h[i]
    BY DEF Marks, n
  <2> QED
    BY <2>1, ElementOfSeq
<1>7. b \in 0..Len(mem.lns)
  <2>1. h[k] <= Len(mem.lns) /\ h[k] \in Nat
    BY <1>3, <1>6
  <2> QED
    BY <1>2, <2>1
<1>8. /\ had \in Collections(b)
      /\ \A i \in 1..Len(had.ccs) : \E l \in 1..m : had.ccs[i].item = Handles(p)[l]
  BY <1>3, <1>7, CandidatesFound DEF had
<1>9. /\ MemSound(had.mem) /\ had.mem.lns = mem.lns /\ Keeps(mem, had.mem, b)
      /\ Offered(had.mem, had.ccs, b) /\ had.mem \in Mems /\ Low(had.mem, b) = Low(mem, b)
  <2>1. /\ MemSound(had.mem) /\ had.mem.lns = mem.lns /\ Keeps(mem, had.mem, Len(mem.lns))
        /\ had.ccs \in Seq(Cands) /\ had.mem \in Mems
        /\ \A i \in 1..Len(had.ccs) : /\ had.ccs[i].node \in 1..Len(had.mem.heap)
                                      /\ had.ccs[i].node \notin Low(mem, b)
    BY <1>8 DEF Collections
  <2>2. Keeps(mem, had.mem, b)
    BY <1>2, <1>7, <2>1, KeepsLess
  <2>3. Low(had.mem, b) = Low(mem, b)
    BY <2>2, KeepsLow
  <2> QED
    BY <2>1, <2>2, <2>3 DEF Offered
<1>10. ASSUME NEW i \in 1..Len(had.ccs), IsList(had.ccs[i].item) PROVE Len(had.mem.lns) > b
  <2>1. PICK l \in 1..m : had.ccs[i].item = Handles(p)[l]
    BY <1>8
  <2> DEFINE j == k + l
  <2>2. /\ j \in 2..n /\ IsList(stack[j])
    BY <1>3, <1>10, <2>1
  <2>3. j - 1 \in 1..n /\ k \in 1..n /\ k <= j - 1 /\ j \in 1..n
    BY <1>2, <1>3, <2>2
  <2> HIDE DEF j
  <2>4. h[j - 1] < h[j] /\ h[k] <= h[j - 1] /\ h[j] <= Len(mem.lns)
        /\ h[j] \in Nat /\ h[j - 1] \in Nat
    BY <1>6, <2>2, <2>3
  <2> QED
    BY <1>2, <1>7, <1>9, <2>4
<1>11. b \in 0..Len(had.mem.lns)
  BY <1>7, <1>9
<1>12. /\ Done(had.mem, d, b) /\ (ListifyRecursion(p) => Len(d.mem.lns) > b)
       /\ \A j : /\ OneListEach /\ Held(had.mem) /\ OneBegun(had.mem, had.ccs, b, j)
                 /\ j # 0 /\ ListifyRecursion(p) =>
                      Productions[had.ccs[j].item.production].head = Productions[p].head
                 => Ends(d, b, ListifyRecursion(p))
  BY <1>4, <1>9, <1>10, <1>11, SimplifyDone
<1> HIDE DEF d, b
<1>13. mem' = d.mem /\ data' = Topped(data, k, d.pointer)
  BY <1>5 DEF d
<1>14. /\ MemSound(d.mem) /\ Keeps(mem, d.mem, b)
       /\ d.pointer \in 1..Len(d.mem.heap) /\ d.pointer \notin Low(mem, b)
  <2>1. /\ MemSound(d.mem) /\ Keeps(had.mem, d.mem, b) /\ d.mem \in Mems
        /\ d.pointer \in 1..Len(d.mem.heap) /\ d.pointer \notin Low(had.mem, b)
    BY <1>12 DEF Done, MemSound
  <2> QED
    BY <1>2, <1>9, <2>1, KeepsTrans
<1>15. it.production # NoProd /\ (IsList(it) <=> ListifyRecursion(p))
  <2>1. it.production = p /\ p \in ProdIdx
    BY <1>4
  <2>2. p # NoProd
    BY <2>1, TablesTyped DEF NoProd, ProdIdx
  <2> QED
    BY <2>1, <2>2 DEF IsList
<1>16. Tops(stack, h, mem, k, it, d.pointer, mem')
  <2>1. d.pointer \in 0..Len(d.mem.heap) /\ d.pointer # Null
    BY <1>14 DEF Null
  <2>2. k \in 1..Len(stack)
    BY <1>3 DEF n
  <2> QED
    BY <1>12, <1>13, <1>14, <1>15, <2>1, <2>2 DEF Tops, b
<1>17. ASSUME OneListEach, Held(mem), Begun(stack, data, mem, h)
       PROVE  TopsExactly(h, k, it, d.pointer, mem')
  <2>1. PICK q : /\ OneHandle(Handles(p), pointers, q)
                 /\ Len(mem.lns) = IF q = 0 THEN b ELSE b + 1
                 /\ q # 0 /\ ListifyRecursion(p) =>
                      Productions[Handles(p)[q].production].head = Productions[p].head
    BY <1>1, <1>2, <1>17, OneHandleFound DEF b, k, n, pointers
  <2>2. Held(had.mem)
    BY <1>8, <1>17 DEF Collections
  <2>3. PICK j : /\ OneBegun(had.mem, had.ccs, b, j)
                 /\ j # 0 => had.ccs[j].item = Handles(p)[q] /\ q \in 1..Len(Handles(p))
    <3>1. MemSound(mem) /\ Held(mem) /\ b \in 0..Len(mem.lns) /\ Pointed(Handles(p), pointers, b)
      BY <1>3, <1>7, <1>17 DEF b
    <3> HIDE DEF b
    <3>2. \E j : /\ OneBegun(had.mem, had.ccs, b, j)
                 /\ j # 0 => had.ccs[j].item = Handles(p)[q] /\ q \in 1..Len(Handles(p))
      BY <2>1, <3>1, CandidatesBegun DEF had
    <3> QED
      BY <3>2
  <2>4. j # 0 /\ ListifyRecursion(p) =>
          Productions[had.ccs[j].item.production].head = Productions[p].head
    <3>1. j # 0 => q # 0
      BY <1>3, <2>3
    <3> QED
      BY <2>1, <2>3, <3>1
  <2>5. Ends(d, b, ListifyRecursion(p))
    BY <1>12, <1>17, <2>2, <2>3, <2>4
  <2> QED
    BY <1>13, <1>15, <2>5 DEF Ends, TopsExactly, b
<1> QED
  BY <1>4, <1>13, <1>16, <1>17 DEF PutOn

\* A shifted token has no pointer yet and begins no list.
LEMMA ShiftPuts ==
  ASSUME IInv, MemSound(mem), Begin, Shift, SimplifyOther, ret' = "Shift",
         NEW h, Marks(stack, data, mem, h)
  PROVE  PutOn(h)
<1> DEFINE it == [state |-> Action(state, Lookahead).target, production |-> NoProd,
                  token |-> token']
           k  == Len(stack)
<1>1. /\ HasAction(state, Lookahead) /\ Action(state, Lookahead).type = "Shift"
      /\ stack' = Append(stack, it) /\ data' = Append(data, Null) /\ mem' = mem
  BY DEF Shift, Decides, Push, SimplifyOther
<1>2. stack \in Seq(StackItems) /\ k \in Nat \ {0} /\ state \in States
  BY EmptySeq DEF IInv, TypeOK
<1>3. token' \in Tokens /\ Lookahead \in Symbols /\ Lookahead \in Lexemes
  BY <1>2, BeginFacts DEF IInv
<1>4. it \in StackItems
  BY <1>1, <1>2, <1>3, TablesTyped DEF StackItems
<1>5. it.production = NoProd /\ it.token.symbol \in Lexemes
  BY <1>3 DEF Lookahead
<1> HIDE DEF it
<1>6. /\ h \in Seq(Nat) /\ Len(h) = k /\ data \in Seq(Nat) /\ Len(data) = k
      /\ \A i \in 1..k : h[i] <= Len(mem.lns)
  BY DEF Marks
<1>7. mem \in Mems /\ Len(mem.lns) \in Nat /\ Len(mem.heap) \in Nat /\ mem.lns \in Seq(Buffers)
  BY MemTyped DEF MemSound
<1>8. stack' = Topped(stack, k, it) /\ data' = Topped(data, k, Null)
  <2>1. SubSeq(stack, 1, Len(stack)) = stack
    BY <1>2, SubSeqFull
  <2>2. SubSeq(data, 1, Len(data)) = data
    BY <1>6, SubSeqFull
  <2> QED
    BY <1>1, <1>6, <2>1, <2>2 DEF Topped
<1>9. k \in 1..k /\ h[k] \in 0..Len(mem.lns)
  <2>1. k \in 1..Len(h)
    BY <1>2, <1>6
  <2>2. h[k] \in Nat /\ h[k] <= Len(mem.lns)
    BY <1>6, <2>1, ElementOfSeq
  <2> QED
    BY <1>2, <1>7, <2>2
<1>10. Null \notin Low(mem, h[k]) /\ Null \in 0..Len(mem.heap)
  <2>1. ASSUME NEW l \in 1..h[k] PROVE mem.lns[l].node # Null
    <3>1. l \in 1..Len(mem.lns)
      BY <1>7, <1>9
    <3>2. HoldsList(mem.heap, mem.lns[l])
      BY <3>1 DEF MemSound
    <3> QED
      BY <3>2 DEF HoldsList, Null
  <2> QED
    BY <1>7, <2>1 DEF Low, Null
<1>11. Keeps(mem, mem, h[k])
  BY <1>7, <1>9, KeepsSame
<1>12. ~IsList(it)
  BY <1>5 DEF IsList
<1>13. Tops(stack, h, mem, k, it, Null, mem')
  BY <1>1, <1>4, <1>5, <1>9, <1>10, <1>11, <1>12 DEF Tops
<1>14. Held(mem) /\ Begun(stack, data, mem, h) => TopsExactly(h, k, it, Null, mem')
  BY <1>1, <1>12 DEF Begun, TopsExactly
<1> QED
  BY <1>8, <1>13, <1>14 DEF PutOn
-----------------------------------------------------------------------------
(* The invariants.                                                         *)

\* A behaviour's marks are found anew in each state; an accepted text has none left,
\* and no call follows on it but a reset.
ListsInv ==
  /\ IInv
  /\ ret = "Accept" => call = "idle"
  /\ MemSound(mem)
  /\ ret # "Accept" => \E h : Marks(stack, data, mem, h)

\* With at most one list for each production the marks are exact, and the lists on
\* lns are those of the stack's items and those left by the texts refused before.
BegunInv ==
  /\ ListsInv
  /\ Held(mem)
  /\ simplified # Null => simplified \in Settled(mem)
  /\ ret # "Accept" => \E h : /\ Marks(stack, data, mem, h) /\ Begun(stack, data, mem, h)
                              /\ resets = 0 => h[1] = 0
  /\ ret = "Accept" /\ resets = 0 => mem.lns = <<>>

LEMMA PutMarks ==
  ASSUME IInv, MemSound(mem), NEW h, Marks(stack, data, mem, h), PutOn(h)
  PROVE  /\ MemSound(mem') /\ Settled(mem) \subseteq Settled(mem')
         /\ \E g : /\ Marks(stack', data', mem', g) /\ g[1] = h[1]
                   /\ OneListEach /\ Held(mem) /\ Begun(stack, data, mem, h) =>
                        Held(mem') /\ Begun(stack', data', mem', g)
<1>1. PICK k, it, x : /\ stack' = Topped(stack, k, it) /\ data' = Topped(data, k, x)
                      /\ Tops(stack, h, mem, k, it, x, mem')
                      /\ OneListEach /\ Held(mem) /\ Begun(stack, data, mem, h) =>
                           TopsExactly(h, k, it, x, mem')
  BY DEF PutOn
<1>2. stack \in Seq(StackItems) /\ mem \in Mems
  BY DEF IInv, TypeOK, MemSound
<1>3. MemSound(mem') /\ Keeps(mem, mem', h[k]) /\ k \in 1..Len(stack) /\ mem' \in Mems
  BY <1>1 DEF Tops, MemSound
<1> DEFINE g == Topped(h, k, Len(mem'.lns))
<1>4. Marks(stack', data', mem', g)
  BY <1>1, <1>2, PushMarks
<1>5. OneListEach /\ Held(mem) /\ Begun(stack, data, mem, h) =>
        Held(mem') /\ Begun(stack', data', mem', g)
  BY <1>1, <1>2, PushBegun DEF TopsExactly
<1>6. g[1] = h[1]
  <2>1. h \in Seq(Nat) /\ Len(h) = Len(stack) /\ Len(stack) \in Nat
    BY <1>2, LenProperties DEF Marks
  <2>2. k \in 0..Len(h) /\ 1 \in 1..k /\ Len(mem'.lns) \in Nat
    BY <1>3, <2>1, MemTyped
  <2> QED
    BY <2>1, <2>2, ToppedNats
<1>7. Settled(mem) \subseteq Settled(mem')
  BY <1>3 DEF Keeps
<1> QED
  BY <1>3, <1>4, <1>5, <1>6, <1>7

\* What is accepted stands on the first item: a list that is the only one begun, or
\* a node that stays.
LEMMA AcceptTakes ==
  ASSUME IInv, MemSound(mem), Begin, Accept, SimplifyAccept, NEW h, Marks(stack, data, mem, h)
  PROVE  /\ MemSound(mem')
         /\ Held(mem) /\ Begun(stack, data, mem, h) =>
              /\ Held(mem') /\ simplified' \in Settled(mem')
              /\ h[1] = 0 => mem'.lns = <<>>
<1> DEFINE x == data[2]
           t == Take(mem, x)
           b == h[1]
<1>1. Len(stack) = 2 /\ SymbolOf(stack[2]) = StartSymbol
  BY AcceptsWhole
<1>2. /\ stack \in Seq(StackItems) /\ mem \in Mems /\ mem.lns \in Seq(Buffers)
      /\ Len(mem.lns) \in Nat /\ Len(mem.heap) \in Nat
  BY MemTyped DEF IInv, TypeOK, MemSound
<1>3. /\ h \in Seq(Nat) /\ Len(h) = 2 /\ data \in Seq(Nat) /\ Len(data) = 2
      /\ h[1] <= Len(mem.lns) /\ h[2] <= Len(mem.lns) /\ x <= Len(mem.heap) /\ h[1] <= h[2]
      /\ x \notin Low(mem, h[1])
      /\ stack[2].production # NoProd => x # Null
      /\ stack[2].production = NoProd => stack[2].token.symbol \in Lexemes
  <2>1. 1 \in 1..2 /\ 2 \in 1..2 /\ 2 \in 2..2 /\ 2 - 1 = 1 /\ 1 <= 2
    OBVIOUS
  <2>2. /\ h \in Seq(Nat) /\ Len(h) = 2 /\ data \in Seq(Nat) /\ Len(data) = 2
        /\ \A i \in 1..2 : h[i] <= Len(mem.lns) /\ data[i] <= Len(mem.heap)
        /\ \A i, j \in 1..2 : i <= j => h[i] <= h[j]
        /\ \A i \in 2..2 : /\ data[i] \notin Low(mem, h[i - 1])
                           /\ stack[i].production # NoProd => data[i] # Null
                           /\ stack[i].production = NoProd => stack[i].token.symbol \in Lexemes
    BY <1>1 DEF Marks
  <2> QED
    BY <2>1, <2>2
<1>4. stack[2].production # NoProd
  <2>1. StartSymbol \in Symbols /\ SymbolType[StartSymbol] = "NonTerminal"
    BY StartTyped DEF OfType
  <2> QED
    BY <1>1, <1>3, <2>1 DEF SymbolOf, Lexemes
<1>5. mem' = t.mem /\ simplified' = t.pointer
  <2>1. Last(data) = x
    BY <1>3 DEF Last
  <2> QED
    BY <2>1 DEF SimplifyAccept
<1>6. x \in Nat /\ h[1] \in Nat /\ h[2] \in Nat
  <2>1. 1 \in 1..Len(h) /\ 2 \in 1..Len(h) /\ 2 \in 1..Len(data)
    BY <1>3
  <2> QED
    BY <1>3, <2>1, ElementOfSeq
<1> HIDE DEF x, t
<1>7. x \in 1..Len(mem.heap) /\ b \in 0..Len(mem.lns)
  BY <1>2, <1>3, <1>4, <1>6 DEF Null
<1>8. /\ MemSound(t.mem)
      /\ Held(mem) => Held(t.mem)
      /\ x = mem.ln_cn => /\ Len(t.mem.lns) = Len(mem.lns) - 1
                          /\ t.pointer \in Settled(t.mem)
      /\ x # mem.ln_cn => t.mem = mem /\ t.pointer = x
  BY <1>3, <1>7, TakeKeeps DEF t
<1>9. ASSUME Held(mem), Begun(stack, data, mem, h)
      PROVE  t.pointer \in Settled(t.mem) /\ (h[1] = 0 => t.mem.lns = <<>>)
  <2>1. /\ h[2] = Len(mem.lns)
        /\ IF IsList(stack[2]) THEN h[2] = h[1] + 1 /\ x = mem.lns[h[2]].node
           ELSE x # Null => x \in Settled(mem)
        /\ ~IsList(stack[2]) => h[1] = h[2]
    <3>1. 2 \in 2..2 /\ 2 - 1 = 1 /\ 1 \in 1..2 /\ 2 \in 1..2 /\ 1 <= 2
          /\ \A l \in 1 + 1..2 : l = 2
      OBVIOUS
    <3>2. /\ h[2] = Len(mem.lns)
          /\ \A i \in 2..2 : IF IsList(stack[i]) THEN /\ h[i] = h[i - 1] + 1
                                                      /\ data[i] = mem.lns[h[i]].node
                             ELSE data[i] # Null => data[i] \in Settled(mem)
          /\ \A i, j \in 1..2 : i <= j /\ (\A l \in i + 1..j : ~IsList(stack[l])) => h[i] = h[j]
      BY <1>1, <1>9 DEF Begun
    <3> QED
      BY <3>1, <3>2 DEF x
  <2>2. mem.lns # <<>> => mem.ln_cn = mem.lns[Len(mem.lns)].node
    BY DEF MemSound
  <2>3. mem.lns = <<>> => mem.ln_cn = Null
    BY DEF MemSound
  <2>4. Len(mem.lns) = 0 <=> mem.lns = <<>>
    BY <1>2, EmptySeq
  <2>5. CASE IsList(stack[2])
    <3>1. x = mem.ln_cn /\ Len(mem.lns) = h[1] + 1
      BY <1>6, <2>1, <2>2, <2>4, <2>5
    <3>2. t.pointer \in Settled(t.mem) /\ Len(t.mem.lns) = h[1]
      BY <1>6, <1>8, <3>1
    <3>3. t.mem.lns \in Seq(Buffers)
      BY <1>8, MemTyped DEF MemSound
    <3> QED
      BY <3>2, <3>3, EmptySeq
  <2>6. CASE ~IsList(stack[2])
    <3>1. x \in Settled(mem) /\ h[1] = Len(mem.lns)
      BY <1>3, <1>4, <2>1, <2>6
    <3>2. x # mem.ln_cn
      <4>1. CASE mem.lns = <<>>
        BY <1>7, <2>3, <4>1 DEF Null
      <4>2. CASE mem.lns # <<>>
        <5>1. mem.ln_cn \in Lists(mem)
          <6>1. Len(mem.lns) \in 1..Len(mem.lns)
            BY <1>2, <2>4, <4>2
          <6> QED
            BY <2>2, <4>2, <6>1 DEF Lists, Low
        <5> QED
          BY <3>1, <5>1 DEF Settled
      <4> QED
        BY <4>1, <4>2
    <3> QED
      BY <1>8, <2>4, <3>1, <3>2
  <2> QED
    BY <2>5, <2>6
<1> QED
  BY <1>5, <1>8, <1>9
-----------------------------------------------------------------------------
(* The steps.                                                              *)

\* What SimplifiedTreeBuilder does in each step of TreeNext.
LEMMA SimplifierBeside ==
  ASSUME IInv, SimplifierNext
  PROVE  /\ ParseStep => SimplifyStep /\ call # "idle" /\ resets' = resets
         /\ Call("ParseAll") => ret # "Accept" /\ UNCHANGED simplifier
         /\ Load \/ ResetCursor => ResetData
<1>1. resets \in Nat
  BY DEF IInv, TypeOK
<1>2. ParseStep => call # "idle" /\ resets' = resets
  BY DEF ParseStep, Begin
<1>3. Call("ParseAll") => call = "idle" /\ resets' = resets
  BY DEF Call
<1>4. Load \/ ResetCursor => call = "idle" /\ resets' # resets
  BY <1>1 DEF Load, ResetCursor
<1> QED
  BY <1>2, <1>3, <1>4 DEF SimplifierNext

\* The branches of the builder after a step of the engine.
LEMMA SimplifyCases ==
  ASSUME ListsInv, ParseStep, SimplifyStep, call # "idle", NEW h, Marks(stack, data, mem, h)
  PROVE  /\ IInv'
         /\ \/ ret' # "Accept" /\ PutOn(h) /\ simplified' = simplified
            \/ ret' # "Accept" /\ UNCHANGED <<stack, data, mem, simplified>>
            \/ ret' = "Accept" /\ call' = "idle" /\ Accept /\ SimplifyAccept
<1>1. /\ ret' = "Shift" => Shift
      /\ ret' = "Reduce" => Reduce
      /\ ret' = "Accept" => Accept
      /\ ret' \in {"Accept", "Error"} => stack' = stack
      /\ IInv'
  BY StepResults DEF ListsInv
<1>2. CASE SimplifyReduce
  BY <1>1, <1>2, ReducePuts DEF ListsInv, SimplifyReduce, ParseStep
<1>3. CASE SimplifyAccept
  <2>1. Accept /\ ret' = "Accept" /\ call \in Calls
    BY <1>1, <1>3 DEF SimplifyAccept, ListsInv, IInv, TypeOK
  <2>2. call' = "idle"
    BY <2>1 DEF Accept, Return, Calls, Returns, Results
  <2> QED
    BY <1>1, <1>3, <2>1, <2>2
<1>4. CASE SimplifyOther /\ ret' = "Shift"
  BY <1>1, <1>4, ShiftPuts DEF ListsInv, SimplifyOther, ParseStep
<1>5. CASE SimplifyOther /\ ret' # "Shift"
  <2>1. /\ ret' = "Error" /\ stack' = stack
        /\ data' = SubSeq(data, 1, Len(stack)) /\ UNCHANGED <<mem, simplified>>
    BY <1>1, <1>5 DEF SimplifyOther
  <2>2. data \in Seq(Nat) /\ Len(data) = Len(stack)
    BY DEF Marks
  <2>3. data' = data
    BY <2>1, <2>2, SubSeqFull
  <2> QED
    BY <1>1, <2>1, <2>3
<1> QED
  BY <1>2, <1>3, <1>4, <1>5 DEF SimplifyStep

\* One mark is enough on a stack that was emptied: all lists that are there lie below.
LEMMA FreshMarks ==
  ASSUME NEW m, MemSound(m)
  PROVE  /\ Marks(InitialStack, <<Null>>, m, <<Len(m.lns)>>)
         /\ Begun(InitialStack, <<Null>>, m, <<Len(m.lns)>>)
<1> DEFINE s == InitialStack
           d == <<Null>>
           h == <<Len(m.lns)>>
<1>1. Len(m.lns) \in Nat /\ Len(m.heap) \in Nat
  BY MemTyped DEF MemSound
<1>2. Len(s) = 1
  BY DEF InitialStack
<1>3. /\ h \in Seq(Nat) /\ Len(h) = 1 /\ h[1] = Len(m.lns)
      /\ d \in Seq(Nat) /\ Len(d) = 1 /\ d[1] = Null /\ Null \in Nat /\ Null <= Len(m.heap)
  BY <1>1 DEF Null
<1> HIDE DEF s, d, h
<1>4. \A i \in 1..1 : i = 1
  OBVIOUS
<1>5. \A i \in 2..1 : FALSE
  OBVIOUS
<1>6. Marks(s, d, m, h)
  BY <1>1, <1>2, <1>3, <1>4, <1>5 DEF Marks
<1>7. Begun(s, d, m, h)
  BY <1>2, <1>3, <1>4, <1>5 DEF Begun
<1> QED
  BY <1>6, <1>7 DEF s, d, h

\* What a reset leaves: the memory, an empty stack, and a count that is not 0.
LEMMA ResetLeaves ==
  ASSUME IInv, Load \/ ResetCursor, ResetData
  PROVE  /\ IInv' /\ stack' = InitialStack /\ data' = <<Null>> /\ ret' = "none"
         /\ UNCHANGED <<mem, simplified>> /\ resets' # 0
<1>1. resets \in Nat
  BY DEF IInv, TypeOK
<1>2. resets' = resets + 1
  BY DEF Load, ResetCursor
<1>3. IInv'
  BY ResetIInv
<1>4. resets' # 0
  BY <1>1, <1>2
<1> QED
  BY <1>3, <1>4 DEF Load, ResetCursor, ResetState, ResetData

LEMMA ListsNext == ListsInv /\ [TreeNext /\ SimplifierNext]_<<treeVars, simplifier>> => ListsInv'
<1> SUFFICES ASSUME ListsInv, [TreeNext /\ SimplifierNext]_<<treeVars, simplifier>>
             PROVE  ListsInv'
  OBVIOUS
<1>1. IInv /\ MemSound(mem) /\ (ret = "Accept" => call = "idle")
  BY DEF ListsInv
<1>2. CASE ParseStep /\ SimplifierNext
  <2>1. SimplifyStep /\ call # "idle"
    BY <1>1, <1>2, SimplifierBeside
  <2>2. PICK h : Marks(stack, data, mem, h)
    BY <1>1, <2>1 DEF ListsInv
  <2>3. /\ IInv'
        /\ \/ ret' # "Accept" /\ PutOn(h)
           \/ ret' # "Accept" /\ UNCHANGED <<stack, data, mem>>
           \/ ret' = "Accept" /\ call' = "idle" /\ Accept /\ SimplifyAccept
    BY <1>2, <2>1, <2>2, SimplifyCases
  <2>4. CASE ret' # "Accept" /\ PutOn(h)
    BY <1>1, <2>2, <2>3, <2>4, PutMarks DEF ListsInv
  <2>5. CASE ret' # "Accept" /\ UNCHANGED <<stack, data, mem>>
    BY <1>1, <2>2, <2>3, <2>5 DEF ListsInv
  <2>6. CASE ret' = "Accept" /\ call' = "idle" /\ Accept /\ SimplifyAccept
    BY <1>1, <1>2, <2>2, <2>3, <2>6, AcceptTakes DEF ListsInv, ParseStep
  <2> QED
    BY <2>3, <2>4, <2>5, <2>6
<1>3. CASE Call("ParseAll") /\ SimplifierNext
  <2>1. "ParseAll" \in Calls
    BY DEF Calls, Returns
  <2>2. IInv'
    BY <1>1, <1>3, <2>1, IdleIInv
  <2>3. ret # "Accept" /\ UNCHANGED <<stack, ret, data, mem>>
    BY <1>1, <1>3, SimplifierBeside DEF Call, engine, simplifier
  <2> QED
    BY <1>1, <2>2, <2>3 DEF ListsInv
<1>4. CASE (Load \/ ResetCursor) /\ SimplifierNext
  <2>1. ResetData
    BY <1>1, <1>4, SimplifierBeside
  <2>2. IInv' /\ stack' = InitialStack /\ data' = <<Null>> /\ ret' = "none" /\ mem' = mem
    BY <1>1, <1>4, <2>1, ResetLeaves
  <2>3. Marks(stack', data', mem', <<Len(mem.lns)>>)
    BY <1>1, <2>2, FreshMarks
  <2> QED
    BY <1>1, <2>2, <2>3 DEF ListsInv
<1>5. CASE UNCHANGED <<treeVars, simplifier>>
  <2>1. UNCHANGED vars /\ UNCHANGED <<stack, ret, call, data, mem>>
    BY <1>5 DEF treeVars, vars, simplifier
  <2>2. IInv'
    BY <1>1, <2>1, IdleIInv
  <2> QED
    BY <1>1, <2>1, <2>2 DEF ListsInv
<1> QED
  BY <1>2, <1>3, <1>4, <1>5 DEF TreeNext

LEMMA BegunNext ==
  ASSUME OneListEach, BegunInv, [TreeNext /\ SimplifierNext]_<<treeVars, simplifier>>
  PROVE  BegunInv'
<1>1. /\ ListsInv /\ IInv /\ MemSound(mem) /\ Held(mem)
      /\ simplified # Null => simplified \in Settled(mem)
      /\ ret = "Accept" => call = "idle"
      /\ ret = "Accept" /\ resets = 0 => mem.lns = <<>>
  BY DEF BegunInv, ListsInv
<1>2. ListsInv'
  BY <1>1, ListsNext
<1>3. CASE ParseStep /\ SimplifierNext
  <2>1. SimplifyStep /\ call # "idle" /\ resets' = resets
    BY <1>1, <1>3, SimplifierBeside
  <2>2. PICK h : /\ Marks(stack, data, mem, h) /\ Begun(stack, data, mem, h)
                 /\ resets = 0 => h[1] = 0
    BY <1>1, <2>1 DEF BegunInv
  <2>3. \/ ret' # "Accept" /\ PutOn(h) /\ simplified' = simplified
        \/ ret' # "Accept" /\ UNCHANGED <<stack, data, mem, simplified>>
        \/ ret' = "Accept" /\ Accept /\ SimplifyAccept
    BY <1>1, <1>3, <2>1, <2>2, SimplifyCases
  <2>4. CASE ret' # "Accept" /\ PutOn(h) /\ simplified' = simplified
    <3>1. /\ Settled(mem) \subseteq Settled(mem') /\ Held(mem')
          /\ \E g : Marks(stack', data', mem', g) /\ g[1] = h[1] /\ Begun(stack', data', mem', g)
      BY <1>1, <2>2, <2>4, PutMarks
    <3> QED
      BY <1>1, <1>2, <2>1, <2>2, <2>4, <3>1 DEF BegunInv
  <2>5. CASE ret' # "Accept" /\ UNCHANGED <<stack, data, mem, simplified>>
    BY <1>1, <1>2, <2>1, <2>2, <2>5 DEF BegunInv
  <2>6. CASE ret' = "Accept" /\ Accept /\ SimplifyAccept
    <3>1. Held(mem') /\ simplified' \in Settled(mem') /\ (h[1] = 0 => mem'.lns = <<>>)
      BY <1>1, <1>3, <2>2, <2>6, AcceptTakes DEF ParseStep
    <3> QED
      BY <1>2, <2>1, <2>2, <2>6, <3>1 DEF BegunInv
  <2> QED
    BY <2>3, <2>4, <2>5, <2>6
<1>4. CASE Call("ParseAll") /\ SimplifierNext
  <2>1. ret # "Accept" /\ UNCHANGED <<stack, ret, resets, data, mem, simplified>>
    BY <1>1, <1>4, SimplifierBeside DEF Call, engine, simplifier
  <2> QED
    BY <1>1, <1>2, <2>1 DEF BegunInv
<1>5. CASE (Load \/ ResetCursor) /\ SimplifierNext
  <2>1. ResetData
    BY <1>1, <1>5, SimplifierBeside
  <2>2. /\ stack' = InitialStack /\ data' = <<Null>> /\ ret' = "none"
        /\ UNCHANGED <<mem, simplified>> /\ resets' # 0
    BY <1>1, <1>5, <2>1, ResetLeaves
  <2>3. /\ Marks(stack', data', mem', <<Len(mem.lns)>>)
        /\ Begun(stack', data', mem', <<Len(mem.lns)>>)
    BY <1>1, <2>2, FreshMarks
  <2> QED
    BY <1>1, <1>2, <2>2, <2>3 DEF BegunInv
<1>6. CASE UNCHANGED <<treeVars, simplifier>>
  <2>1. UNCHANGED <<stack, ret, resets, data, mem, simplified>>
    BY <1>6 DEF treeVars, vars, simplifier
  <2> QED
    BY <1>1, <1>2, <2>1 DEF BegunInv
<1> QED
  BY <1>3, <1>4, <1>5, <1>6 DEF TreeNext

LEMMA ListsInit == TreeInit /\ SimplifierInit => ListsInv /\ BegunInv
<1> SUFFICES ASSUME TreeInit, SimplifierInit PROVE ListsInv /\ BegunInv
  OBVIOUS
<1>1. /\ IInv /\ stack = InitialStack /\ ret = "none"
      /\ mem = [heap |-> <<>>, lns |-> <<>>, ln_cn |-> Null]
      /\ data = <<Null>> /\ simplified = Null
  BY InitIInv DEF TreeInit, Init, SimplifierInit
<1>2. MemSound(mem) /\ Held(mem) /\ mem.lns = <<>>
  <2>1. /\ mem.heap = <<>> /\ mem.lns = <<>> /\ mem.ln_cn = Null
        /\ Len(mem.heap) = 0 /\ Len(mem.lns) = 0
    BY <1>1
  <2>2. mem \in Mems
    BY <1>1, EmptySeq DEF Mems, Null
  <2>3. \A i \in 1..0 : FALSE
    OBVIOUS
  <2> QED
    BY <2>1, <2>2, <2>3 DEF MemSound, Held
<1>3. Marks(stack, data, mem, <<Len(mem.lns)>>) /\ Begun(stack, data, mem, <<Len(mem.lns)>>)
  BY <1>1, <1>2, FreshMarks
<1>4. <<Len(mem.lns)>>[1] = 0
  BY <1>2
<1> HIDE DEF Marks, Begun
<1> QED
  BY <1>1, <1>2, <1>3, <1>4 DEF ListsInv, BegunInv
-----------------------------------------------------------------------------
(* The theorems.                                                           *)

\* The invariant holds in every reachable state of parser and builder.
THEOREM ListsInvariance == HandlersSpec => []ListsInv
<1>1. HandlersInit => ListsInv
  BY ListsInit DEF HandlersInit
<1>2. ListsInv /\ [HandlersNext]_handlerVars => ListsInv'
  BY ListsNext DEF HandlersNext, handlerVars
<1> QED
  BY <1>1, <1>2, PTL DEF HandlersSpec

LEMMA ListsSay == ListsInv => ListsSound
<1> SUFFICES ASSUME MemSound(mem) PROVE ListsSound
  BY DEF ListsInv
<1>1. mem \in Mems /\ mem.lns \in Seq(Buffers) /\ DOMAIN mem.lns = 1..Len(mem.lns)
  BY MemTyped, LenProperties DEF MemSound
<1>2. Last(mem.lns) = mem.lns[Len(mem.lns)]
  BY DEF Last
<1> QED
  BY <1>1, <1>2 DEF MemSound, HoldsList, ListsSound

\* Whatever the grammar, the lists the builder works on are live nodes with their
\* children within their buffers, and ln_cn is the top one.
THEOREM ListsAlwaysSound == HandlersSpec => []ListsSound
BY ListsInvariance, ListsSay, PTL

LEMMA BegunSays == BegunInv => NoDangling /\ ListsReturned
<1> SUFFICES ASSUME BegunInv PROVE NoDangling /\ ListsReturned
  OBVIOUS
<1>1. /\ MemSound(mem) /\ Held(mem) /\ IInv
      /\ simplified # Null => simplified \in Settled(mem)
      /\ ret # "Accept" => \E h : Marks(stack, data, mem, h) /\ Begun(stack, data, mem, h)
  BY DEF BegunInv, ListsInv
<1> DEFINE Live(n) == mem.heap[n].live
<1>2. \A n \in Settled(mem) : Live(n)
  BY DEF Settled
<1>3. ASSUME ret # "Accept", NEW i \in DOMAIN data, data[i] # Null PROVE Live(data[i])
  <2>1. PICK h : Marks(stack, data, mem, h) /\ Begun(stack, data, mem, h)
    BY <1>1, <1>3
  <2>2. /\ h \in Seq(Nat) /\ Len(h) = Len(stack) /\ data \in Seq(Nat) /\ Len(data) = Len(stack)
        /\ data[1] = Null
        /\ \A k \in 1..Len(stack) : h[k] <= Len(mem.lns)
    BY <2>1 DEF Marks
  <2>3. Len(stack) \in Nat /\ Len(mem.lns) \in Nat /\ DOMAIN data = 1..Len(stack)
    BY <1>1, <2>2, LenProperties, MemTyped DEF MemSound
  <2>4. i \in 2..Len(stack) /\ i \in 1..Len(stack) /\ i - 1 \in 1..Len(stack)
    BY <1>3, <2>2, <2>3
  <2>5. h[i] \in Nat /\ h[i - 1] \in Nat /\ h[i] <= Len(mem.lns)
    BY <2>2, <2>4, ElementOfSeq
  <2>6. IF IsList(stack[i]) THEN h[i] = h[i - 1] + 1 /\ data[i] = mem.lns[h[i]].node
        ELSE data[i] # Null => data[i] \in Settled(mem)
    BY <2>1, <2>4 DEF Begun
  <2>7. CASE IsList(stack[i])
    <3>1. h[i] \in 1..Len(mem.lns)
      BY <2>3, <2>5, <2>6, <2>7
    <3>2. HoldsList(mem.heap, mem.lns[h[i]])
      BY <1>1, <3>1 DEF MemSound
    <3> QED
      BY <2>6, <2>7, <3>2 DEF HoldsList
  <2>8. CASE ~IsList(stack[i])
    BY <1>2, <1>3, <2>6, <2>8
  <2> QED
    BY <2>7, <2>8
<1>4. ASSUME NEW m \in DOMAIN mem.heap, mem.heap[m].live,
             NEW i \in DOMAIN mem.heap[m].childs
      PROVE  Live(mem.heap[m].childs[i])
  <2>1. m \in 1..Len(mem.heap)
    BY <1>1, MemTyped, LenProperties DEF MemSound
  <2>2. mem.heap[m].childs \in Seq(Settled(mem))
    BY <1>1, <1>4, <2>1 DEF Held
  <2>3. mem.heap[m].childs[i] \in Settled(mem)
    BY <2>2, LenProperties, ElementOfSeq
  <2> QED
    BY <1>2, <2>3
<1>5. simplified # Null => Live(simplified)
  BY <1>1, <1>2
<1> HIDE DEF Live
<1>6. NoDangling
  BY <1>3, <1>4, <1>5 DEF NoDangling, Live
<1> QED
  BY <1>6 DEF BegunInv, ListsReturned

\* Where no production has two lists among its handles, or two productions that
\* begin a list the same head, every list of lns is found from the stack.
THEOREM BegunInvariance ==
  ASSUME OneListEach
  PROVE  HandlersSpec => []BegunInv
<1>1. HandlersInit => BegunInv
  BY ListsInit DEF HandlersInit
<1>2. BegunInv /\ [HandlersNext]_handlerVars => BegunInv'
  BY OneListEach, BegunNext DEF HandlersNext, handlerVars
<1> QED
  BY <1>1, <1>2, PTL DEF HandlersSpec

\* With such a grammar no pointer that is on the stack, in a live node or handed out
\* leads to a buffer that was freed or moved.
THEOREM NeverDangling ==
  ASSUME OneListEach
  PROVE  HandlersSpec => []NoDangling
BY BegunInvariance, BegunSays, PTL

\* With such a grammar the first text a builder accepts leaves no list behind.
THEOREM ListsAllReturned ==
  ASSUME OneListEach
  PROVE  HandlersSpec => []ListsReturned
BY BegunInvariance, BegunSays, PTL
=============================================================================
