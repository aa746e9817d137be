-------------------------- MODULE TransactionCreates ------------------------
(***************************************************************************)
(* create_transaction: post a transaction to an account, with an optional  *)
(* import_id on which YNAB refuses duplicates, so that a caller may retry  *)
(* a call whose outcome it does not know.                                  *)
(*                                                                         *)
(*   Begin     the call passes the env gate, the field checks and the cap  *)
(*             (Refuse: it does not);                                      *)
(*   Prefetch  the account is fetched for the prompt; a failure is ignored;*)
(*   Answer    the user answers;                                           *)
(*   Post      YNAB carries the POST out, also when the call has given up; *)
(*   Settle    the response is examined for a transaction or a duplicate;  *)
(*   Balance   the account is fetched again; a failure is ignored;         *)
(*   Fail      the POST ends in an error.                                  *)
(*                                                                         *)
(* The account is the sequence of its transactions: a balance is known by  *)
(* how many of them it covers.  The amount and the other fields are left   *)
(* out; the cap is applied to an argument only and is in Begin and Refuse. *)
(***************************************************************************)
EXTENDS WriteGuards, Sequences

CONSTANTS
  Calls,        \* invocations of the tool; a retry is another call
  Other,        \* any other client of YNAB
  ImportIds,    \* import ids callers pass
  NoImport,     \* no import id
  MaxLedger     \* bound on the number of transactions

ASSUME CreateAssumption ==
  Other \notin Calls /\ NoImport \notin ImportIds /\ MaxLedger \in Nat

VARIABLES
  ledger,    \* the server: the account's transactions, in order of insertion
  wire,      \* calls whose POST YNAB may still carry out
  pc,        \* where each call is
  import,    \* in.ImportID
  seen,      \* transactions the prefetched balance covers
  answer,    \* how the elicitation ended
  reply,     \* the response to the POST
  after      \* out.After: transactions the balance covers, None if absent

vars == <<ledger, wire, pc, import, seen, answer, reply, after>>

None == -1

NoReply == [transaction |-> 0, duplicate |-> FALSE]

Init ==
  /\ ledger = <<>>
  /\ wire = {}
  /\ pc = [c \in Calls |-> "new"]
  /\ import = [c \in Calls |-> NoImport]
  /\ seen = [c \in Calls |-> None]
  /\ answer = [c \in Calls |-> "none"]
  /\ reply = [c \in Calls |-> NoReply]
  /\ after = [c \in Calls |-> None]

Goto(c, there) == pc' = [pc EXCEPT ![c] = there]

-----------------------------------------------------------------------------
(* Mutated forms, for mutation testing.                                    *)

BodyWithoutImport(c) == NoImport

SendsFirst(c, a) ==
  /\ pc[c] = "confirming"
  /\ answer' = [answer EXCEPT ![c] = a]
  /\ Goto(c, IF Proceeds(a) THEN "posting" ELSE "rejected")
  /\ wire' = wire \cup {c}
  /\ UNCHANGED <<ledger, import, seen, reply, after>>

AnyReplyIsSuccess(c) == "created"

BlankIsDuplicate(c) ==
  IF reply[c].transaction # 0 THEN "created" ELSE "duplicate"

PrefetchedBalance(c) == seen[c]

-----------------------------------------------------------------------------
(* The server's steps.                                                     *)

Change ==
  /\ Len(ledger) < MaxLedger
  /\ ledger' = Append(ledger, [by |-> Other, import |-> NoImport])
  /\ UNCHANGED <<wire, pc, import, seen, answer, reply, after>>

(* The import_id of the request's body.                                    *)
BodyImport(c) == import[c]

Known(id) == {i \in DOMAIN ledger : id # NoImport /\ ledger[i].import = id}

Waiting(c) == pc[c] = "posting"

(* A fresh import_id, or none: the transaction is inserted.  The response  *)
(* names it, or is one without a transaction.                              *)
Post(c) ==
  /\ c \in wire /\ Known(BodyImport(c)) = {}
  /\ Len(ledger) < MaxLedger
  /\ ledger' = Append(ledger, [by |-> c, import |-> BodyImport(c)])
  /\ wire' = wire \ {c}
  /\ IF Waiting(c)
       THEN /\ \E i \in {0, Len(ledger')} :
                 reply' = [reply EXCEPT ![c] = [transaction |-> i, duplicate |-> FALSE]]
            /\ Goto(c, "posted")
       ELSE UNCHANGED <<reply, pc>>
  /\ UNCHANGED <<import, seen, answer, after>>

(* A known import_id: nothing is inserted.  The response names the         *)
(* duplicate and may carry the earlier transaction.                        *)
PostAgain(c) ==
  /\ c \in wire /\ Known(BodyImport(c)) # {}
  /\ wire' = wire \ {c}
  /\ IF Waiting(c)
       THEN /\ \E i \in {0} \cup Known(BodyImport(c)) :
                 reply' = [reply EXCEPT ![c] = [transaction |-> i, duplicate |-> TRUE]]
            /\ Goto(c, "posted")
       ELSE UNCHANGED <<reply, pc>>
  /\ UNCHANGED <<ledger, import, seen, answer, after>>

Drop(c) ==
  /\ c \in wire
  /\ wire' = wire \ {c}
  /\ UNCHANGED <<ledger, pc, import, seen, answer, reply, after>>

-----------------------------------------------------------------------------
(* The handler's steps.                                                    *)

Begin(c, id) ==
  /\ pc[c] = "new"
  /\ Goto(c, "prefetching")
  /\ import' = [import EXCEPT ![c] = id]
  /\ UNCHANGED <<ledger, wire, seen, answer, reply, after>>

Refuse(c) ==
  /\ pc[c] = "new"
  /\ Goto(c, "rejected")
  /\ UNCHANGED <<ledger, wire, import, seen, answer, reply, after>>

Prefetch(c) ==
  /\ pc[c] = "prefetching"
  /\ Goto(c, "confirming")
  /\ \E n \in {Len(ledger), None} : seen' = [seen EXCEPT ![c] = n]
  /\ UNCHANGED <<ledger, wire, import, answer, reply, after>>

Answer(c, a) ==
  /\ pc[c] = "confirming"
  /\ answer' = [answer EXCEPT ![c] = a]
  /\ IF Proceeds(a)
       THEN Goto(c, "posting") /\ wire' = wire \cup {c}
       ELSE Goto(c, "rejected") /\ UNCHANGED wire
  /\ UNCHANGED <<ledger, import, seen, reply, after>>

(* A response without a transaction is an error, even with status 2xx.     *)
Outcome(c) ==
  IF reply[c].transaction # 0 THEN "created"
  ELSE IF reply[c].duplicate THEN "duplicate"
  ELSE "failed"

Settle(c) ==
  /\ pc[c] = "posted"
  /\ Goto(c, Outcome(c))
  /\ UNCHANGED <<ledger, wire, import, seen, answer, reply, after>>

FetchedBalance(c) == Len(ledger)

Balance(c) ==
  /\ pc[c] = "created"
  /\ Goto(c, "done")
  /\ \E n \in {FetchedBalance(c), None} : after' = [after EXCEPT ![c] = n]
  /\ UNCHANGED <<ledger, wire, import, seen, answer, reply>>

Fail(c) ==
  /\ pc[c] \in {"posting", "posted"}
  /\ Goto(c, "failed")
  /\ UNCHANGED <<ledger, wire, import, seen, answer, reply, after>>

-----------------------------------------------------------------------------
Next ==
  \/ Change
  \/ \E c \in Calls :
       \/ \E id \in ImportIds \cup {NoImport} : Begin(c, id)
       \/ \E a \in Answers : Answer(c, a)
       \/ Post(c) \/ PostAgain(c) \/ Drop(c)
       \/ Refuse(c) \/ Prefetch(c) \/ Settle(c) \/ Balance(c) \/ Fail(c)

Spec == Init /\ [][Next]_vars

-----------------------------------------------------------------------------
(* Properties                                                              *)

(* The variables have their types.                                         *)
TypeOK ==
  /\ ledger \in Seq([by : Calls \cup {Other}, import : ImportIds \cup {NoImport}])
  /\ wire \subseteq Calls
  /\ pc \in [Calls -> {"new", "prefetching", "confirming", "posting", "posted",
                       "created", "done", "duplicate", "rejected", "failed"}]
  /\ import \in [Calls -> ImportIds \cup {NoImport}]
  /\ seen \in [Calls -> Nat \cup {None}]
  /\ answer \in [Calls -> Answers \cup {"none"}]
  /\ reply \in [Calls -> [transaction : Nat, duplicate : BOOLEAN]]
  /\ after \in [Calls -> Nat \cup {None}]

Entries(c) == {i \in DOMAIN ledger : ledger[i].by = c}

(* However often a create is retried with one import_id, and however late  *)
(* an abandoned POST arrives, the account gets one transaction.            *)
OncePerImportId ==
  \A c, d \in Calls : \A i \in Entries(c), j \in Entries(d) :
    import[c] = import[d] /\ import[c] # NoImport => i = j

(* A successful call names a transaction of the account: its own, or the   *)
(* earlier one with its import_id.                                         *)
SuccessNamesTransaction ==
  \A c \in Calls :
    pc[c] = "done" =>
      /\ reply[c].transaction \in DOMAIN ledger
      /\ Entries(c) = {reply[c].transaction} \/ reply[c].transaction \in Known(import[c])

(* A call reported as a duplicate inserted nothing, and a transaction with *)
(* its import_id is there.                                                 *)
DuplicateExists ==
  \A c \in Calls : pc[c] = "duplicate" => Entries(c) = {} /\ Known(import[c]) # {}

(* Nothing is or will be inserted for a rejected call, nor before the user *)
(* answered.                                                               *)
NothingUnconfirmed ==
  \A c \in Calls :
    c \in wire \/ Entries(c) # {} =>
      pc[c] # "rejected" /\ answer[c] \in {"accept", "error"}

(* The balance returned after a create covers the transaction it reports.  *)
BalanceCoversInsert ==
  \A c \in Calls :
    pc[c] = "done" /\ after[c] # None => after[c] >= reply[c].transaction

(* What a call reports is so, whatever was lost or late.                   *)
OutcomesTell == SuccessNamesTransaction /\ DuplicateExists /\ BalanceCoversInsert
=============================================================================
