------------------------ MODULE MCTransactionUpdates ------------------------
(***************************************************************************)
(* Instances of TransactionUpdates for TLC: two fields with two values.    *)
(***************************************************************************)
EXTENDS TransactionUpdates, TLC

Symmetry == Permutations(Calls)

TwoFields == {"approved", "memo"}
=============================================================================
