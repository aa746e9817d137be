----------------------------- MODULE MCDeltaSync ----------------------------
(***************************************************************************)
(* Instances of DeltaSync for TLC.  Identifiers and readers are            *)
(* interchangeable; plans are not (NoReply picks one).                     *)
(***************************************************************************)
EXTENDS DeltaSync, TLC

Symmetry == Permutations(Ids) \cup Permutations(Readers)
=============================================================================
