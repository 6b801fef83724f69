-------------------------- MODULE ParserImplements --------------------------
(***************************************************************************)
(* The engine as an implementation of the abstract bottom-up parser.  The  *)
(* stack above its first item is the sentential form; what was shifted is  *)
(* what was read; a result that is no accept and no error leaves the       *)
(* verdict open.                                                           *)
(***************************************************************************)
EXTENDS Parser, LalrItems

Form == [i \in 1..Len(stack) - 1 |-> SymbolOf(stack[i + 1])]

Verdict == CASE ret = "Accept" -> "accept"
             [] ret = "Error"  -> "reject"
             [] OTHER          -> "open"

Abstract == INSTANCE Derivation
  WITH form <- Form, consumed <- shifted, verdict <- Verdict,
       Terminals <- Lexemes \ Eofs

\* Each shift, reduction, acceptance and error of the engine is the step of the
\* same name of the abstract parser; loading and resetting restart it, and a call
\* repeated after the verdict changes nothing.
ImplementsDerivation == Abstract!Spec
=============================================================================
