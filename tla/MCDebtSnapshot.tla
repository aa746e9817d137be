--------------------------- MODULE MCDebtSnapshot ---------------------------
(***************************************************************************)
(* Instances of DebtSnapshot for TLC.                                      *)
(***************************************************************************)
EXTENDS DebtSnapshot, TLC

Symmetry == Permutations(Accounts)
=============================================================================
