---------------------------- MODULE MCOwnership ----------------------------
(***************************************************************************)
(* Two strings of the client's, three texts and three trees.               *)
(***************************************************************************)
EXTENDS Ownership

ClientStrings == {-1, -2}
=============================================================================
