-------------------------- MODULE MCCategoryWrites --------------------------
(***************************************************************************)
(* An instance of CategoryWrites for TLC on a four-bit machine, with both  *)
(* extreme integers among the amounts.                                     *)
(***************************************************************************)
EXTENDS CategoryWrites, TLC

SomeAmounts == {-8, 1, 2, 7}
=============================================================================
