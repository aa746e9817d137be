------------------------ MODULE MCTransactionCreates ------------------------
(***************************************************************************)
(* Instances of TransactionCreates for TLC.                                *)
(***************************************************************************)
EXTENDS TransactionCreates, TLC

Symmetry == Permutations(Calls)
=============================================================================
