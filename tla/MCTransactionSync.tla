-------------------------- MODULE MCTransactionSync -------------------------
(***************************************************************************)
(* Instances of TransactionSync for TLC.                                   *)
(***************************************************************************)
EXTENDS TransactionSync, TLC

Symmetry == Permutations(Ids) \cup Permutations(Readers)
=============================================================================
