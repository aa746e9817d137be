-------------------------- MODULE YnabTransactions --------------------------
(***************************************************************************)
(* The /transactions endpoint of the YNAB service, external like           *)
(* YnabServer: its rows carry a date, and a request may bound the dates.   *)
(* How a cursor and a since_date compose is what tools.go:465-469 says:    *)
(* YNAB returns the rows matching since_date that changed since the cursor.*)
(***************************************************************************)
EXTENDS Integers, Sequences

CONSTANTS
  Ids,
  NoRow,
  Dates,                \* transaction dates
  FullListsTombstones   \* does a response without a cursor list deletions?

NoSince == 0

Row == [at : Nat \ {0}, date : Dates, deleted : BOOLEAN]

LiveRow == {x \in Row : ~ x.deleted}

State == [Ids -> Row \cup {NoRow}]

InitialStates == [Ids -> [at : {1}, date : Dates, deleted : {FALSE}] \cup {NoRow}]

Live(s, i) == s[i] # NoRow /\ ~ s[i].deleted

(* One change at knowledge k: a row is entered, edited -- its date may be  *)
(* part of the edit -- or deleted.                                         *)
Successors(s, k) ==
  UNION {
    {[s EXCEPT ![i] = [at |-> k, date |-> d, deleted |-> FALSE]] :
       d \in IF s[i] = NoRow \/ Live(s, i) THEN Dates ELSE {}}
    \cup (IF Live(s, i)
            THEN {[s EXCEPT ![i] = [at |-> k, date |-> s[i].date, deleted |-> TRUE]]}
            ELSE {})
    : i \in Ids}

Delivered(s, i, cursor, since) ==
  /\ s[i] # NoRow
  /\ s[i].at > cursor
  /\ s[i].date >= since
  /\ s[i].deleted => cursor > 0 \/ FullListsTombstones

Response(s, cursor, since) ==
  [i \in Ids |-> IF Delivered(s, i, cursor, since) THEN s[i] ELSE NoRow]
=============================================================================
