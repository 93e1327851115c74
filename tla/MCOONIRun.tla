------------------------------ MODULE MCOONIRun ------------------------------
(***************************************************************************)
(* A small instance of OONIRun: the first version of the descriptor has one  *)
(* nettest with two inputs, the second one three nettests.                   *)
(***************************************************************************)
EXTENDS OONIRun

N(b, n) == [named |-> b, inputs |-> n]
MCNettests == << <<N(TRUE, 2)>>, <<N(TRUE, 1), N(FALSE, 1), N(TRUE, 1)>> >>
=============================================================================
