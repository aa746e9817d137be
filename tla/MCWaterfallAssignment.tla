----------------------- MODULE MCWaterfallAssignment ------------------------
(***************************************************************************)
(* Instances of WaterfallAssignment for TLC.                               *)
(***************************************************************************)
EXTENDS WaterfallAssignment, TLC

Symmetry == Permutations(Categories)
=============================================================================
