-------------------------- MODULE TransactionUpdates ------------------------
(***************************************************************************)
(* update_transaction and approve_transaction: set some fields of one      *)
(* transaction, which other calls and other YNAB clients edit and may      *)
(* delete.                                                                 *)
(*                                                                         *)
(*   Begin    the call passes the env gate and the field checks, at least  *)
(*            one field being set (Refuse: it does not);                   *)
(*   Read     the GET of the transaction is answered;                      *)
(*   Check    a deleted transaction or an update without effect ends the   *)
(*            call; an approval goes on without asking the user;           *)
(*   Answer   the user answers;                                            *)
(*   Apply    YNAB carries the PUT out, also when the call has given up;   *)
(*   Report   its response arrives and the call returns both snapshots;    *)
(*   Fail     a request ends in an error.                                  *)
(*                                                                         *)
(* Fields and values are abstract, save that `approved' is a field.        *)
(***************************************************************************)
EXTENDS WriteGuards, Sequences, FiniteSets

CONSTANTS
  Calls,        \* invocations of either tool
  Other,        \* any other client of YNAB
  Fields,       \* the fields of a transaction a call may set
  Values,       \* their values
  Keep,         \* not set: the field is left alone
  MaxChanges    \* bound on the changes made by others

ASSUME UpdateAssumption ==
  /\ Other \notin Calls /\ Keep \notin Values
  /\ "approved" \in Fields /\ TRUE \in Values
  /\ MaxChanges \in Nat

Transaction == [deleted : BOOLEAN, fields : [Fields -> Values]]

VARIABLES
  transaction,   \* the server: the transaction
  log,           \* history: its changes, with their author
  wire,          \* calls whose PUT YNAB may still carry out
  pc,            \* where each call is
  elicit,        \* the parameter of doUpdateTransaction: FALSE to approve
  set,           \* the input: a value for each field to set
  before,        \* beforeWire.Data.Transaction
  readAt,        \* history: the length of log when `before' was read
  answer,        \* how the elicitation ended
  after,         \* afterWire.Data.Transaction
  result         \* the snapshots returned

server == <<transaction, log, wire>>
input == <<elicit, set>>
vars == <<server, pc, input, before, readAt, answer, after, result>>

NoFields == [f \in Fields |-> Keep]

NoResult == [before |-> NoFields, after |-> NoFields]

Init ==
  /\ transaction \in Transaction
  /\ log = <<>>
  /\ wire = {}
  /\ pc = [c \in Calls |-> "new"]
  /\ elicit = [c \in Calls |-> TRUE]
  /\ set = [c \in Calls |-> NoFields]
  /\ before = [c \in Calls |-> transaction]
  /\ readAt = [c \in Calls |-> 0]
  /\ answer = [c \in Calls |-> "none"]
  /\ after = [c \in Calls |-> transaction]
  /\ result = [c \in Calls |-> NoResult]

Goto(c, there) == pc' = [pc EXCEPT ![c] = there]

Record(who, t) ==
  /\ log' = Append(log, [by |-> who, from |-> transaction, to |-> t])
  /\ transaction' = t

-----------------------------------------------------------------------------
(* Mutated forms, for mutation testing.                                    *)

WholeTransaction(c) ==
  [f \in Fields |-> IF set[c][f] = Keep THEN before[c].fields[f] ELSE set[c][f]]

NeverAsks(c) == FALSE

AfterSnapshot(c) ==
  [f \in Fields |-> IF set[c][f] = Keep THEN Keep ELSE after[c].fields[f]]

-----------------------------------------------------------------------------
(* The server's steps.                                                     *)

ChangedByOthers == {i \in DOMAIN log : log[i].by = Other}

Change ==
  /\ Cardinality(ChangedByOthers) < MaxChanges
  /\ ~ transaction.deleted
  /\ \/ Record(Other, [transaction EXCEPT !.deleted = TRUE])
     \/ \E f \in Fields : \E v \in Values \ {transaction.fields[f]} :
          Record(Other, [transaction EXCEPT !.fields[f] = v])
  /\ UNCHANGED <<wire, pc, input, before, readAt, answer, after, result>>

(* The fields in the body of the PUT; YNAB leaves the others alone.        *)
Body(c) == set[c]

Updated(t, body) ==
  [t EXCEPT !.fields = [f \in Fields |-> IF body[f] = Keep THEN @[f] ELSE body[f]]]

Apply(c) ==
  /\ c \in wire
  /\ ~ transaction.deleted
  /\ Record(c, Updated(transaction, Body(c)))
  /\ wire' = wire \ {c}
  /\ IF pc[c] = "putting"
       THEN Goto(c, "put") /\ after' = [after EXCEPT ![c] = transaction']
       ELSE UNCHANGED <<pc, after>>
  /\ UNCHANGED <<input, before, readAt, answer, result>>

(* It never arrives, or YNAB refuses it (the transaction is deleted).      *)
Drop(c) ==
  /\ c \in wire
  /\ wire' = wire \ {c}
  /\ UNCHANGED <<transaction, log, pc, input, before, readAt, answer, after, result>>

-----------------------------------------------------------------------------
(* The handler's steps.                                                    *)

Begin(c, asks, fields) ==
  /\ pc[c] = "new"
  /\ Goto(c, "reading")
  /\ elicit' = [elicit EXCEPT ![c] = asks]
  /\ set' = [set EXCEPT ![c] = fields]
  /\ UNCHANGED <<server, before, readAt, answer, after, result>>

UpdateTransaction(c) ==
  \E fields \in [Fields -> Values \cup {Keep}] \ {NoFields} : Begin(c, TRUE, fields)

ApproveTransaction(c) == Begin(c, FALSE, [NoFields EXCEPT !["approved"] = TRUE])

Refuse(c) ==
  /\ pc[c] = "new"
  /\ Goto(c, "rejected")
  /\ UNCHANGED <<server, input, before, readAt, answer, after, result>>

Read(c) ==
  /\ pc[c] = "reading"
  /\ Goto(c, "checking")
  /\ before' = [before EXCEPT ![c] = transaction]
  /\ readAt' = [readAt EXCEPT ![c] = Len(log)]
  /\ UNCHANGED <<server, input, answer, after, result>>

IsUpdateNoOp(c) ==
  \A f \in Fields : set[c][f] \in {Keep, before[c].fields[f]}

Pointless(c) == before[c].deleted \/ IsUpdateNoOp(c)

Asks(c) == elicit[c]

Check(c) ==
  /\ pc[c] = "checking"
  /\ IF Pointless(c) THEN Goto(c, "rejected") /\ UNCHANGED wire
     ELSE IF Asks(c) THEN Goto(c, "confirming") /\ UNCHANGED wire
     ELSE Goto(c, "putting") /\ wire' = wire \cup {c}
  /\ UNCHANGED <<transaction, log, input, before, readAt, answer, after, result>>

Answer(c, a) ==
  /\ pc[c] = "confirming"
  /\ answer' = [answer EXCEPT ![c] = a]
  /\ IF Proceeds(a)
       THEN Goto(c, "putting") /\ wire' = wire \cup {c}
       ELSE Goto(c, "rejected") /\ UNCHANGED wire
  /\ UNCHANGED <<transaction, log, input, before, readAt, after, result>>

(* buildTransactionSnapshotBefore and -After: the fields the caller set.   *)
SnapshotOf(c, t) ==
  [f \in Fields |-> IF set[c][f] = Keep THEN Keep ELSE t.fields[f]]

SnapshotBefore(c) == SnapshotOf(c, before[c])

Report(c) ==
  /\ pc[c] = "put"
  /\ Goto(c, "done")
  /\ result' = [result EXCEPT ![c] =
                  [before |-> SnapshotBefore(c), after |-> SnapshotOf(c, after[c])]]
  /\ UNCHANGED <<server, input, before, readAt, answer, after>>

Fail(c) ==
  /\ pc[c] \in {"reading", "putting", "put"}
  /\ Goto(c, IF pc[c] = "reading" THEN "rejected" ELSE "failed")
  /\ UNCHANGED <<server, input, before, readAt, answer, after, result>>

-----------------------------------------------------------------------------
Next ==
  \/ Change
  \/ \E c \in Calls :
       \/ UpdateTransaction(c) \/ ApproveTransaction(c) \/ Refuse(c)
       \/ \E a \in Answers : Answer(c, a)
       \/ Apply(c) \/ Drop(c)
       \/ Read(c) \/ Check(c) \/ Report(c) \/ Fail(c)

Spec == Init /\ [][Next]_vars

-----------------------------------------------------------------------------
(* Properties                                                              *)

(* The variables have their types.                                         *)
TypeOK ==
  /\ transaction \in Transaction
  /\ log \in Seq([by : Calls \cup {Other}, from : Transaction, to : Transaction])
  /\ wire \subseteq Calls
  /\ pc \in [Calls -> {"new", "reading", "checking", "confirming", "putting", "put",
                       "done", "rejected", "failed"}]
  /\ elicit \in [Calls -> BOOLEAN]
  /\ set \in [Calls -> [Fields -> Values \cup {Keep}]]
  /\ before \in [Calls -> Transaction]
  /\ readAt \in [Calls -> Nat]
  /\ answer \in [Calls -> Answers \cup {"none"}]
  /\ after \in [Calls -> Transaction]
  /\ result \in [Calls -> [before : [Fields -> Values \cup {Keep}],
                           after : [Fields -> Values \cup {Keep}]]]

Entries(c) == {i \in DOMAIN log : log[i].by = c}

(* A call changes only fields it was given: what another call or client    *)
(* wrote to the others since the call's read is not lost.                  *)
OtherFieldsSurvive ==
  \A c \in Calls : \A i \in Entries(c), f \in Fields :
    log[i].from.fields[f] # log[i].to.fields[f] => set[c][f] = log[i].to.fields[f]

(* What YNAB does or may do without the user having been asked is to       *)
(* approve, and nothing else.                                              *)
UnaskedOnlyApproves ==
  \A c \in Calls :
    (c \in wire \/ Entries(c) # {}) /\ answer[c] \notin {"accept", "error"} =>
      set[c] = [NoFields EXCEPT !["approved"] = TRUE]

(* A rejected call changed nothing and never will; a successful one made   *)
(* one change, and if no other came between its read and its PUT, the      *)
(* snapshots are the fields' values before and after it, and it had an     *)
(* effect.                                                                 *)
AuditUnlessDisturbed ==
  \A c \in Calls :
    /\ pc[c] = "rejected" => c \notin wire /\ Entries(c) = {}
    /\ pc[c] = "done" => Cardinality(Entries(c)) = 1
    /\ \A i \in Entries(c) :
         pc[c] = "done" /\ readAt[c] + 1 = i =>
           /\ log[i].from # log[i].to
           /\ \A f \in Fields : set[c][f] # Keep =>
                /\ result[c].before[f] = log[i].from.fields[f]
                /\ result[c].after[f] = log[i].to.fields[f]

-----------------------------------------------------------------------------
(* What the documentation says of the tool.                                *)

(* The snapshots contain only the fields that changed.                     *)
SnapshotsOnlyOfChanges ==
  \A c \in Calls, f \in Fields :
    pc[c] = "done" /\ result[c].before[f] # Keep =>
      result[c].before[f] # result[c].after[f]
=============================================================================
