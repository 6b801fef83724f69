-------------------------- MODULE ProductionHandler --------------------------
(***************************************************************************)
(* ProductionHandler of src/parser.cpp, the handler of ParseAll that       *)
(* evaluates a text while it is parsed: each reduction calls the function  *)
(* the client has set for its production, which sees the handles and       *)
(* returns the value of the new item.  The function is modelled by the     *)
(* term it builds, from which all it saw can be read back.  It runs beside *)
(* TreeBuilder, whose parse tree is what a value is compared with.         *)
(***************************************************************************)
EXTENDS TreeBuilder

CONSTANT Handled   \* the productions with a handler: SetHandler was called

\* operator() reads the first handle of a production without a handler, so an empty
\* production needs one; nothing in the code sees to it
ASSUME HandlersSet == /\ Handled \subseteq ProdIdx
                      /\ \A p \in ProdIdx \ Handled : Productions[p].handles # <<>>

VARIABLES
  values,   \* the data pointers of the items on stack_, as the values they lead to
  result_,  \* result_
  called    \* history: the productions whose handlers were called for this text

evaluator == <<values, result_, called>>

Term(p, args) == [production |-> p, token |-> NoToken, args |-> args]
Seen(tok)     == [production |-> NoProd, token |-> tok, args |-> <<>>]
NullValue     == Seen(NoToken)

\* mutant: the handles' values are taken from one item too low
ArgumentsTooLow(handles) ==
  [i \in DOMAIN handles |->
     IF handles[i].production = NoProd THEN Seen(handles[i].token)
     ELSE values[Len(values) - Len(handles) + i - 1]]

\* what a handler sees: the tokens of the terminals, the values of the others
Arguments(handles) ==
  [i \in DOMAIN handles |->
     IF handles[i].production = NoProd THEN Seen(handles[i].token)
     ELSE values[Len(values) - Len(handles) + i]]

\* the value of the new item; without a handler that of its first handle is kept,
\* NULL if that is a terminal
ResultOf(p, handles) == IF p \in Handled THEN Term(p, Arguments(handles))
                        ELSE values[Len(values) - Len(handles) + 1]

\* a shift is not looked at: the new item has no value
ValueShift == /\ ret' = "Shift"
              /\ values' = Append(values, NullValue)
              /\ UNCHANGED <<result_, called>>

\* mutant: a reduction without handles is passed over
ReduceSkipsEmpty ==
  /\ ret' = "Reduce"
  /\ LET p    == reduction'.production
         kept == Len(stack') - 1
     IN IF reduction'.handles = <<>>
        THEN values' = Append(values, NullValue) /\ called' = called
        ELSE /\ values' = Append(SubSeq(values, 1, kept), ResultOf(p, reduction'.handles))
             /\ called' = IF p \in Handled THEN Append(called, p) ELSE called
  /\ UNCHANGED result_

ValueReduce ==
  /\ ret' = "Reduce"
  /\ LET p    == reduction'.production
         kept == Len(stack') - 1
     IN /\ values' = Append(SubSeq(values, 1, kept), ResultOf(p, reduction'.handles))
        /\ called' = IF p \in Handled THEN Append(called, p) ELSE called
  /\ UNCHANGED result_

ValueAccept == ret' = "Accept" /\ result_' = values[Len(values)] /\ UNCHANGED <<values, called>>

\* nor is an error, but ParseStep may have popped handles before it
ValueError == /\ ret' = "Error"
              /\ values' = SubSeq(values, 1, Len(stack'))
              /\ UNCHANGED <<result_, called>>

Evaluate == ValueShift \/ ValueReduce \/ ValueAccept \/ ValueError

\* result_ stays
ResetValues == values' = <<NullValue>> /\ called' = <<>> /\ UNCHANGED result_

ValuesInit == values = <<NullValue>> /\ result_ = NullValue /\ called = <<>>

\* beside each step of TreeNext: after a ParseStep, a call, a reset
ValuesNext == \/ call # "idle" /\ Evaluate
              \/ call = "idle" /\ resets' = resets /\ UNCHANGED evaluator
              \/ resets' # resets /\ ResetValues
-----------------------------------------------------------------------------
(* Properties.                                                             *)

\* the value of each node of the parse tree, by its definition
Eval(tree) ==
  LET eval[n \in DOMAIN tree] ==
        LET p   == tree[n].production
            chs == tree[n].childs
        IN IF p = NoProd THEN NullValue
           ELSE IF p \in Handled
           THEN Term(p, [i \in DOMAIN chs |-> IF tree[chs[i]].production = NoProd
                                              THEN Seen(tree[chs[i]].token) ELSE eval[chs[i]]])
           ELSE eval[chs[1]]
  IN eval

\* the productions with a handler under each node, children before their parent
Postorder(tree) ==
  LET post[n \in DOMAIN tree] ==
        FlattenSeq([i \in DOMAIN tree[n].childs |-> post[tree[n].childs[i]]])
        \o (IF tree[n].production \in Handled THEN <<tree[n].production>> ELSE <<>>)
  IN post

\* The values on the stack are those of the subtrees beside them, and the result
\* that of the tree, whatever was evaluated before: each handler was given the
\* tokens and the values of its own handles and of no other item.
ValuesFollowTree ==
  /\ \A i \in 2..Len(stack) : values[i] = Eval(nodes)[node_of[i]]
  /\ ret = "Accept" => result_ = Eval(nodes)[result]

\* The handlers were called once for each node, the children's before the parent's
\* and from left to right: what a handler with side effects relies on.  After an
\* error the calls for the subtrees found so far have been made.
CallsInPostorder == ret # "Error" => called = Along(Postorder(nodes))
=============================================================================
