------------------------------ MODULE Handlers ------------------------------
(***************************************************************************)
(* Parser::ParseAll(handler) of include/cppauparser/parser.h with the      *)
(* library's three handlers: TreeBuilder, ProductionHandler and            *)
(* SimplifiedTreeBuilder.  A program passes one of them to ParseAll; each  *)
(* has data pointers of its own here and reads nothing of the others, so   *)
(* that they can be called one after the other for the same ParseStep and  *)
(* what they made of a text be compared.                                   *)
(***************************************************************************)
EXTENDS ProductionHandler, SimplifiedTree

handlerVars == <<treeVars, evaluator, simplifier>>

HandlersInit == TreeInit /\ ValuesInit /\ SimplifierInit

HandlersNext == TreeNext /\ ValuesNext /\ SimplifierNext

HandlersSpec == HandlersInit /\ [][HandlersNext]_handlerVars
=============================================================================
