----------------------------- MODULE DeltaCache -----------------------------
(***************************************************************************)
(* The data of the delta-sync cache (delta.go) and the two operations a    *)
(* read handler performs on an entry: `knowledge' and `merge'.  The Go type *)
(* is generic in the row type T, and so is this module: a row is any       *)
(* record with a boolean field `deleted'.                                  *)
(*                                                                         *)
(* An entry holds the server_knowledge last seen and the rows by id.  An   *)
(* absent map entry and one with knowledge 0 and no rows are the same      *)
(* thing to every operation, so EmptyEntry stands for both.                *)
(*                                                                         *)
(* Rows with an empty id are skipped by the code (delta.go:167-172); no    *)
(* such row is modelled, Ids being the non-empty identifiers.  The nil     *)
(* cache (delta.go:120-129) is only built by tests and is not modelled.    *)
(***************************************************************************)
EXTENDS Integers, FiniteSets

CONSTANTS
  Ids,        \* identifiers of the entities of one endpoint
  NoRow,      \* "no row under this id"
  MaxItems    \* maxItemsPerPlanEntry

ASSUME MaxItemsAssumption == MaxItems \in Nat

NoItems == [i \in Ids |-> NoRow]

EmptyEntry == [knowledge |-> 0, items |-> NoItems]

Held(items) == {i \in Ids : items[i] # NoRow}

-----------------------------------------------------------------------------
(* Mutated forms of the operators below, for mutation testing.             *)

KeepTombstones(items, deltas) ==
  [i \in Ids |-> IF deltas[i] = NoRow THEN items[i] ELSE deltas[i]]

NeverRegresses(entry, k) == FALSE

-----------------------------------------------------------------------------
(* The monotonicity guard of merge.                                        *)
Regresses(entry, k) == entry.knowledge > 0 /\ k < entry.knowledge

(* The merge loop: a delivered tombstone removes the row, any other        *)
(* delivered row replaces it, an undelivered row stays.                    *)
Apply(items, deltas) ==
  [i \in Ids |->
     IF deltas[i] = NoRow THEN items[i]
     ELSE IF deltas[i].deleted THEN NoRow
     ELSE deltas[i]]

Overflows(items) == Cardinality(Held(items)) > MaxItems

-----------------------------------------------------------------------------
(* Mutated forms of the two results of merge.                              *)

UnguardedItems(entry, k, deltas) == Apply(entry.items, deltas)

OverflowReturnsDeltas(entry, k, deltas) ==
  IF Regresses(entry, k) THEN entry.items
  ELSE IF Overflows(Apply(entry.items, deltas)) THEN Apply(NoItems, deltas)
  ELSE Apply(entry.items, deltas)

-----------------------------------------------------------------------------
(* What merge returns to the handler.                                      *)
MergedItems(entry, k, deltas) ==
  IF Regresses(entry, k) THEN entry.items ELSE Apply(entry.items, deltas)

(* What merge leaves in the cache; an overflowing entry is flushed.        *)
MergedEntry(entry, k, deltas) ==
  LET items == Apply(entry.items, deltas)
  IN  IF Regresses(entry, k) THEN entry
      ELSE IF Overflows(items) THEN EmptyEntry
      ELSE [knowledge |-> k, items |-> items]
=============================================================================
