----------------------------- MODULE YnabServer -----------------------------
(***************************************************************************)
(* The YNAB service as this program relies on it.  It is external: the     *)
(* definitions say what delta.go and tools.go assume of the API.           *)
(*                                                                         *)
(* One endpoint of one plan is the sequence of its states, one for each    *)
(* server_knowledge value 1, 2, ...  A state gives every id its row, or    *)
(* NoRow while the entity has never existed.  `at' is the knowledge value  *)
(* at which the row last changed and stands for the row's content.         *)
(***************************************************************************)
EXTENDS Integers, Sequences

CONSTANTS
  Ids,
  NoRow,
  FullListsTombstones   \* does a response without a cursor list deletions?

Row == [at : Nat \ {0}, deleted : BOOLEAN]

LiveRow == {x \in Row : ~ x.deleted}

State == [Ids -> Row \cup {NoRow}]

InitialStates == [Ids -> {[at |-> 1, deleted |-> FALSE], NoRow}]

(* What a reader of the whole endpoint should see of a state.              *)
Visible(s) ==
  [i \in Ids |-> IF s[i] # NoRow /\ s[i].deleted THEN NoRow ELSE s[i]]

Live(s, i) == s[i] # NoRow /\ ~ s[i].deleted

(* The states that one change at knowledge k can lead to: any non-empty    *)
(* set of rows is created, edited or deleted; a deleted row stays deleted. *)
Successors(s, k) ==
  {t \in [Ids -> {s[i] : i \in Ids} \cup [at : {k}, deleted : BOOLEAN]] :
     /\ t # s
     /\ \A i \in Ids :
          \/ t[i] = s[i]
          \/ t[i] = [at |-> k, deleted |-> FALSE] /\ (s[i] = NoRow \/ Live(s, i))
          \/ t[i] = [at |-> k, deleted |-> TRUE] /\ Live(s, i)}

(* A response: every row changed after the cursor.  Cursor 0 means that    *)
(* last_knowledge_of_server was not sent and asks for everything.          *)
Delivered(s, i, cursor) ==
  /\ s[i] # NoRow
  /\ s[i].at > cursor
  /\ s[i].deleted => cursor > 0 \/ FullListsTombstones

Response(s, cursor) ==
  [i \in Ids |-> IF Delivered(s, i, cursor) THEN s[i] ELSE NoRow]
=============================================================================
