--------------------------- MODULE SimplifiedTree ---------------------------
(***************************************************************************)
(* SimplifiedTreeBuilder of src/tree.cpp, a handler of ParseAll beside     *)
(* TreeBuilder: nothing on a shift, all the work on a reduction.  A left   *)
(* or right recursion becomes one list node that grows in a malloc'ed      *)
(* buffer; the builder keeps those buffers on a stack of its own (lns) and *)
(* moves a finished list into the allocator when another node takes it as  *)
(* a child.  Pointers are indices of heap; 0 is NULL.  A freed node stays  *)
(* in heap, marked, so that a pointer to it can be recognised.             *)
(***************************************************************************)
EXTENDS TreeBuilder, Simplification

CONSTANT MinChilds   \* the least capacity of a list buffer, 16 in the code

ASSUME CapacityTyped == MinChilds \in Nat \ {0}

\* A recursion takes a list on lns for granted, but one that forwards its only child has
\* begun none.  Only A -> A does, for which there is no table without conflicts, or a
\* production whose flag the client sets; nothing in the code sees to it.
ASSUME ListsNotForwarded == \A p \in ProdIdx : ListifyRecursion(p) => ~ForwardChild(p)

\* What lns.back() needs to be the recursion's own list: at most one handle of a
\* production can be a list, and no head has two productions that are.
ListHeads   == {Productions[p].head : p \in {q \in ProdIdx : ListifyRecursion(q)}}
OneListEach ==
  /\ \A p \in ProdIdx : \A i, j \in DOMAIN Productions[p].handles :
       Productions[p].handles[i] \in ListHeads /\ Productions[p].handles[j] \in ListHeads => i = j
  /\ \A p, q \in ProdIdx : ListifyRecursion(p) /\ ListifyRecursion(q)
                           /\ Productions[p].head = Productions[q].head => p = q

VARIABLES
  mem,        \* [heap, lns, ln_cn]: the nodes, the list stack, its current node
  data,       \* the data pointers of the items on stack_
  simplified  \* result

simplifier == <<mem, data, simplified>>

NodeOf(p, tok, chs) == [live |-> TRUE, production |-> p, token |-> tok, childs |-> chs]

\* allocator.Create and malloc: the new node is the last of the heap
Newest(m)       == Len(m.heap)
Create(m, node) == [m EXCEPT !.heap = Append(@, node)]
-----------------------------------------------------------------------------
(* The list stack.                                                         *)

PopListNode(m) ==
  LET below == Front(m.lns)
  IN [heap  |-> [m.heap EXCEPT ![Last(m.lns).node].live = FALSE],
      lns   |-> below,
      ln_cn |-> IF below = <<>> THEN Null ELSE Last(below).node]

\* the copy is the newest node
PopListNodeAndMove(m) == PopListNode(Create(m, m.heap[m.ln_cn]))

\* A new list node on the stack.
PushListNode(m, p, chs) ==
  LET new == Create(m, NodeOf(p, NoToken, chs))
      cap == IF Len(chs) > MinChilds THEN Len(chs) ELSE MinChilds
  IN [new EXCEPT !.lns   = Append(@, [node |-> Newest(new), max_childs |-> cap]),
                 !.ln_cn = Newest(new)]

\* mutants: ln_cn keeps the address from before; the buffer is not grown
ReserveKeepsPointer(m, n, moves) ==
  LET top == Last(m.lns)
      new == IF moves THEN Create(m, m.heap[top.node]) ELSE m
      at  == IF moves THEN Newest(new) ELSE top.node
  IN IF n <= top.max_childs THEN m
     ELSE [new EXCEPT !.heap[top.node].live = ~moves,
                      !.lns[Len(m.lns)] = [node |-> at, max_childs |-> 2 * n]]

ReserveNothing(m, n, moves) == m

\* The buffer of the top list made to hold n children; realloc may move it.
Reserve(m, n, moves) ==
  LET top == Last(m.lns)
      cap == IF n > 2 * top.max_childs THEN n ELSE 2 * top.max_childs
      new == IF moves THEN Create(m, m.heap[top.node]) ELSE m
      at  == IF moves THEN Newest(new) ELSE top.node
  IN IF n <= top.max_childs THEN m
     ELSE [new EXCEPT !.heap[top.node].live = ~moves,
                      !.lns[Len(m.lns)] = [node |-> at, max_childs |-> cap],
                      !.ln_cn = at]
-----------------------------------------------------------------------------
(* The child candidates of a reduction: ccs.                               *)

\* A handle with its data pointer becomes a candidate, a shifted token getting
\* its node only now, unless the production drops tokens of a single lexeme.
Candidate(acc, p, handle, pointer) ==
  IF /\ RemoveSingleLexeme(p)
     /\ handle.production = NoProd
     /\ handle.token.symbol \in SingleLexeme
  THEN acc
  ELSE IF pointer # Null
  THEN [acc EXCEPT !.ccs = Append(@, [item |-> handle, node |-> pointer])]
  ELSE LET new == Create(acc.mem, NodeOf(NoProd, handle.token, <<>>))
       IN [mem |-> new, ccs |-> Append(acc.ccs, [item |-> handle, node |-> Newest(new)])]

Candidates(p, handles, pointers) ==
  LET had[n \in 0..Len(handles)] ==
        IF n = 0 THEN [mem |-> mem, ccs |-> <<>>]
        ELSE Candidate(had[n - 1], p, handles[n], pointers[n])
  IN had[Len(handles)]
-----------------------------------------------------------------------------
(* operator() on a reduction by p with candidates ccs: the resulting mem   *)
(* and the pointer the head item gets.  Where the code tests and returns   *)
(* early the tests are repeated here as guards.                            *)

Settle(m, pointer) == [mem |-> m, pointer |-> pointer]

\* mutant: a list is taken without being moved out of its buffer
TakeInPlace(m, n) == Settle(m, n)

\* a candidate taken for good: the current list is moved out of its buffer
Take(m, n) == IF n = m.ln_cn THEN LET moved == PopListNodeAndMove(m)
                                  IN Settle(moved, Newest(moved))
              ELSE Settle(m, n)

Forwards(p, ccs) == ForwardChild(p) /\ Len(ccs) = 1

\* the first candidate that is a nonterminal of p's own head, 0 if there is none
Recursion(p, ccs) ==
  SelectInSeq(ccs, LAMBDA c : /\ c.item.production # NoProd
                              /\ Productions[c.item.production].head = Productions[p].head)

Pointers(ccs) == [i \in DOMAIN ccs |-> ccs[i].node]

\* mutant: the candidates before the recursion go behind the list
MergeBehind(m, ccs, fi, moves) ==
  LET old  == m.heap[Last(m.lns).node].childs
      chs  == old \o SubSeq(Pointers(ccs), 1, fi - 1) \o SubSeq(Pointers(ccs), fi + 1, Len(ccs))
      room == Reserve(m, Len(chs), moves)
  IN Settle([room EXCEPT !.heap[room.ln_cn].childs = chs], room.ln_cn)

\* The list on top of lns takes the other candidates, those before the recursion
\* in front.  That it is the recursion's own list is not looked at.
MergeIntoTop(m, ccs, fi, moves) ==
  LET old  == m.heap[Last(m.lns).node].childs
      chs  == SubSeq(Pointers(ccs), 1, fi - 1) \o old \o SubSeq(Pointers(ccs), fi + 1, Len(ccs))
      room == Reserve(m, Len(chs), moves)
  IN Settle([room EXCEPT !.heap[room.ln_cn].childs = chs], room.ln_cn)

\* mutant: the empty production that ends the recursion stays in the list
StartListKeepsEnd(m, p, ccs, fi) ==
  LET new == PushListNode(m, p, Pointers(ccs))
  IN Settle(new, new.ln_cn)

\* A new list; an empty production that ends the recursion leaves no child.
\* Other lists among the children are not moved and stay on lns.
StartList(m, p, ccs, fi) ==
  LET ends == fi # 0 /\ Productions[ccs[fi].item.production].handles = <<>>
      new  == PushListNode(m, p, Pointers(IF ends THEN RemoveAt(ccs, fi) ELSE ccs))
  IN Settle(new, new.ln_cn)

\* one more candidate as a child, or its children in its place
MergeChilds(acc, c) ==
  LET splice == /\ c.item.production # NoProd
                /\ c.item.production = acc.mem.heap[c.node].production
      taken  == Take(acc.mem, c.node)
  IN IF splice
     THEN [mem  |-> IF c.node = acc.mem.ln_cn THEN PopListNode(acc.mem) ELSE acc.mem,
           chs  |-> acc.chs \o acc.mem.heap[c.node].childs]
     ELSE [mem |-> taken.mem, chs |-> Append(acc.chs, taken.pointer)]

AddChild(acc, c) ==
  LET taken == Take(acc.mem, c.node)
  IN [mem |-> taken.mem, chs |-> Append(acc.chs, taken.pointer)]

Gathering(p, m, ccs) ==
  LET all[n \in 0..Len(ccs)] ==
        IF n = 0 THEN [mem |-> m, chs |-> <<>>]
        ELSE IF MergeChild(p) THEN MergeChilds(all[n - 1], ccs[n])
        ELSE AddChild(all[n - 1], ccs[n])
  IN all[Len(ccs)]

\* a node for the children that were gathered first
Gather(p, m, ccs) ==
  LET all == Gathering(p, m, ccs)
      new == Create(all.mem, NodeOf(p, NoToken, all.chs))
  IN Settle(new, Newest(new))

Simplify(p, m, ccs, moves) ==
  LET fi == Recursion(p, ccs)
  IN CASE Forwards(p, ccs) -> Take(m, ccs[1].node)
       [] ~Forwards(p, ccs) /\ ListifyRecursion(p) ->
            IF fi # 0 /\ ccs[fi].item.production = p THEN MergeIntoTop(m, ccs, fi, moves)
            ELSE StartList(m, p, ccs, fi)
       [] OTHER -> Gather(p, m, ccs)

SimplifyReduce ==
  /\ ret' = "Reduce"
  /\ \E moves \in BOOLEAN :
       LET p    == reduction'.production
           kept == Len(stack') - 1
           had  == Candidates(p, reduction'.handles, SubSeq(data, kept + 1, Len(data)))
           done == Simplify(p, had.mem, had.ccs, moves)
       IN /\ mem' = done.mem
          /\ data' = Append(SubSeq(data, 1, kept), done.pointer)
  /\ UNCHANGED simplified

SimplifyAccept ==
  /\ ret' = "Accept"
  /\ LET taken == Take(mem, Last(data))
     IN mem' = taken.mem /\ simplified' = taken.pointer
  /\ UNCHANGED data

\* A shift leaves the data pointer NULL.  After an error nothing is done either:
\* the loop meant to free the lists stands behind a second test for kAccept.
SimplifyOther ==
  /\ ret' \in {"Shift", "Error"}
  /\ data' = IF ret' = "Shift" THEN Append(data, Null) ELSE SubSeq(data, 1, Len(stack'))
  /\ UNCHANGED <<mem, simplified>>

SimplifyStep == SimplifyReduce \/ SimplifyAccept \/ SimplifyOther

\* mem stays: the builder does not hear of a reset
ResetData == data' = <<Null>> /\ UNCHANGED <<mem, simplified>>

SimplifierInit == /\ mem = [heap |-> <<>>, lns |-> <<>>, ln_cn |-> Null]
                  /\ data = <<Null>>
                  /\ simplified = Null

\* Beside each step of TreeNext: after a ParseStep, a call, a reset.  One call of
\* ParseAll for each text: a second one on an accepted text would take the list as
\* result that the first has moved and freed.
SimplifierNext == \/ call # "idle" /\ SimplifyStep
                  \/ call = "idle" /\ resets' = resets /\ ret # "Accept" /\ UNCHANGED simplifier
                  \/ resets' # resets /\ ResetData
-----------------------------------------------------------------------------
(* Properties.                                                             *)

\* The lists on lns are live nodes with their children within their buffers, and
\* ln_cn is the top one: what each use of ln_cn in operator() relies on.
ListsSound ==
  /\ mem.ln_cn = (IF mem.lns = <<>> THEN Null ELSE Last(mem.lns).node)
  /\ \A i \in DOMAIN mem.lns :
       /\ mem.heap[mem.lns[i].node].live
       /\ Len(mem.heap[mem.lns[i].node].childs) <= mem.lns[i].max_childs

\* No pointer on the stack, in a live node or handed out as result leads to a
\* buffer that was freed or that realloc has moved away.  Only the item of an
\* accepted list is left with the buffer its result was moved out of.
NoDangling ==
  LET held == {data[i] : i \in IF ret = "Accept" THEN {} ELSE DOMAIN data} \cup {simplified}
              \cup UNION {{mem.heap[n].childs[i] : i \in DOMAIN mem.heap[n].childs} :
                            n \in {m \in DOMAIN mem.heap : mem.heap[m].live}}
  IN \A n \in held \ {Null} : mem.heap[n].live

\* When a builder's first text is accepted every list was moved into the allocator:
\* the result does not hold on to a buffer of lns, which is lost with the builder.
\* After a refused text the lists begun in it stay on lns.
ListsReturned == ret = "Accept" /\ resets = 0 => mem.lns = <<>>
=============================================================================
