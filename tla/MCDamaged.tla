----------------------------- MODULE MCDamaged -----------------------------
(***************************************************************************)
(* The engine on a table that Grammar::LoadBuffer takes and that is no     *)
(* LALR table: the operator grammar without the goto on M behind a +, with *)
(* a reduction for the goto on V behind a unary minus and with a goto for  *)
(* the action on Num there.  Nothing in the loader looks for such damage.  *)
(* ParseStep reports it, and a client may call again all the same: behind  *)
(* a + the calls pop what is left until there is a goto again, behind      *)
(* -(Num the second one pops more than the stack holds.  Texts that stay   *)
(* clear of the damage are parsed as before.                               *)
(***************************************************************************)
EXTENDS Parser, SampleGrammars

DamagedRows ==
  [OpRows EXCEPT ![11] = Restrict(@, DOMAIN @ \ {"M"}),
                 ![1]["V"].type = "Reduce",
                 ![1]["Num"].type = "Goto"]

DamagedLalrStates == DamagedRows
=============================================================================
