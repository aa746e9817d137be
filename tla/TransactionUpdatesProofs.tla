----------------------- MODULE TransactionUpdatesProofs ---------------------
(***************************************************************************)
(* Theorems about TransactionUpdates: for any number of concurrent updates *)
(* and approvals, any fields and values and any loss or delay of requests, *)
(* fields a call was not given survive it, only approvals go unasked, and  *)
(* undisturbed snapshots are the truth.                                    *)
(***************************************************************************)
EXTENDS TransactionUpdates, FiniteSetTheorems, TLAPS

Entry == [by : Calls \cup {Other}, from : Transaction, to : Transaction]

FieldSet == [Fields -> Values \cup {Keep}]

Places == {"new", "reading", "checking", "confirming", "putting", "put",
           "done", "rejected", "failed"}

Approval == [NoFields EXCEPT !["approved"] = TRUE]

-----------------------------------------------------------------------------
(* The inductive invariant                                                 *)

Unsent == {"new", "reading", "checking", "confirming", "rejected"}

Sent == {"putting", "put", "done", "failed"}

(* A call that has touched the transaction passed its checks.              *)
Checked(c) ==
  /\ pc[c] \in Unsent => c \notin wire /\ Entries(c) = {}
  /\ pc[c] \in Sent =>
       answer[c] \in {"accept", "error"} \/ ~ elicit[c]
  /\ pc[c] \in Sent \cup {"confirming"} => ~ IsUpdateNoOp(c)
  /\ ~ elicit[c] => set[c] = Approval

(* It touched it once at most, with its own fields.                        *)
Once(c) ==
  /\ \A i \in Entries(c) : Entries(c) = {i} /\ log[i].to = Updated(log[i].from, set[c])
  /\ c \in wire => Entries(c) = {}
  /\ pc[c] \in {"put", "done"} => \E i \in Entries(c) : log[i].to = after[c]

(* Its before snapshot is the state that the log had reached when it was   *)
(* read.                                                                   *)
Anchored(c) ==
  /\ readAt[c] <= Len(log)
  /\ readAt[c] = Len(log) => transaction = before[c]
  /\ readAt[c] < Len(log) => log[readAt[c] + 1].from = before[c]
  /\ pc[c] = "done" =>
       result[c] = [before |-> SnapshotBefore(c), after |-> SnapshotOf(c, after[c])]

Inv == TypeOK /\ \A c \in Calls : Checked(c) /\ Once(c) /\ Anchored(c)

-----------------------------------------------------------------------------
(* The parts of a call                                                     *)

LEMMA UpdatedType ==
  ASSUME NEW t \in Transaction, NEW body \in FieldSet
  PROVE  Updated(t, body) \in Transaction
<1>1. [f \in Fields |-> IF body[f] = Keep THEN t.fields[f] ELSE body[f]] \in [Fields -> Values]
  BY UpdateAssumption DEF Transaction, FieldSet
<1> QED
  BY <1>1 DEF Updated, Transaction

LEMMA SnapshotType ==
  ASSUME NEW c \in Calls, set \in [Calls -> FieldSet], NEW t \in Transaction
  PROVE  SnapshotOf(c, t) \in FieldSet
BY DEF SnapshotOf, FieldSet, Transaction

(* A change appends an entry to the log.                                   *)
LEMMA RecordEntries ==
  ASSUME log \in Seq(Entry), transaction \in Transaction,
         NEW who \in Calls \cup {Other}, NEW t \in Transaction, Record(who, t)
  PROVE  /\ log' \in Seq(Entry) /\ transaction' = t
         /\ Len(log) \in Nat /\ Len(log') = Len(log) + 1
         /\ DOMAIN log = 1..Len(log) /\ DOMAIN log' = 1..Len(log) + 1
         /\ log'[Len(log) + 1] = [by |-> who, from |-> transaction, to |-> t]
         /\ \A i \in 1..Len(log) : log'[i] = log[i]
         /\ \A d \in Calls : Entries(d)' =
              IF d = who THEN Entries(d) \cup {Len(log) + 1} ELSE Entries(d)
<1> DEFINE e == [by |-> who, from |-> transaction, to |-> t]
<1>1. e \in Entry /\ log' = Append(log, e) /\ transaction' = t /\ e.by = who
  BY DEF Record, Entry
<1> HIDE DEF e
<1>2. /\ log' \in Seq(Entry)
      /\ Len(log) \in Nat /\ Len(log') = Len(log) + 1
      /\ DOMAIN log = 1..Len(log) /\ DOMAIN log' = 1..Len(log) + 1
      /\ log'[Len(log) + 1] = e
      /\ \A i \in 1..Len(log) : log'[i] = log[i]
  <2> DEFINE E == Entry
  <2>1. log \in Seq(E) /\ e \in E
    BY <1>1
  <2> HIDE DEF E
  <2>2. /\ log' \in Seq(E)
        /\ Len(log) \in Nat /\ Len(log') = Len(log) + 1
        /\ DOMAIN log = 1..Len(log) /\ DOMAIN log' = 1..Len(log) + 1
        /\ log'[Len(log) + 1] = e
        /\ \A i \in 1..Len(log) : log'[i] = log[i]
    BY <1>1, <2>1
  <2> QED
    BY <2>2 DEF E
<1>3. ASSUME NEW d \in Calls
      PROVE  Entries(d)' = IF d = who THEN Entries(d) \cup {Len(log) + 1} ELSE Entries(d)
  BY <1>1, <1>2 DEF Entries
<1> QED
  BY <1>1, <1>2, <1>3 DEF e

(* The entries of the log have their types.                                *)
LEMMA EntryType ==
  ASSUME TypeOK, NEW c \in Calls, NEW i \in Entries(c)
  PROVE  i \in 1..Len(log) /\ log[i].from \in Transaction /\ log[i].to \in Transaction
<1>1. log \in Seq(Entry) /\ i \in DOMAIN log
  BY DEF TypeOK, Entry, Entries
<1>2. i \in 1..Len(log) /\ log[i] \in Entry
  <2> DEFINE E == Entry
  <2>1. log \in Seq(E)
    BY <1>1
  <2> HIDE DEF E
  <2>2. i \in 1..Len(log) /\ log[i] \in E
    BY <1>1, <2>1
  <2> QED
    BY <2>2 DEF E
<1> QED
  BY <1>2 DEF Entry

LEMMA TypeInit == Init => TypeOK
<1> SUFFICES ASSUME Init PROVE TypeOK
  OBVIOUS
<1>1. NoFields \in FieldSet /\ NoResult \in [before : FieldSet, after : FieldSet]
  BY DEF NoFields, NoResult, FieldSet
<1>2. transaction \in Transaction
  BY DEF Init
<1> QED
  BY <1>1, <1>2 DEF Init, TypeOK, FieldSet

LEMMA TypeStep == TypeOK /\ [Next]_vars => TypeOK'
<1> SUFFICES ASSUME TypeOK, [Next]_vars PROVE TypeOK'
  OBVIOUS
<1> USE UpdateAssumption
<1>0. /\ log \in Seq(Entry) /\ transaction \in Transaction /\ set \in [Calls -> FieldSet]
      /\ Len(log) \in Nat /\ pc \in [Calls -> Places]
      /\ result \in [Calls -> [before : FieldSet, after : FieldSet]]
  BY DEF TypeOK, Entry, FieldSet, Places
<1>1. CASE Change
  <2>1. PICK t \in Transaction : Record(Other, t)
    <3>1. CASE Record(Other, [transaction EXCEPT !.deleted = TRUE])
      <4>1. [transaction EXCEPT !.deleted = TRUE] \in Transaction
        BY <1>0 DEF Transaction
      <4> QED
        BY <3>1, <4>1
    <3>2. CASE \E f \in Fields : \E v \in Values \ {transaction.fields[f]} :
                 Record(Other, [transaction EXCEPT !.fields[f] = v])
      <4>1. PICK f \in Fields, v \in Values : Record(Other, [transaction EXCEPT !.fields[f] = v])
        BY <3>2
      <4>2. [transaction EXCEPT !.fields[f] = v] \in Transaction
        BY <1>0 DEF Transaction
      <4> QED
        BY <4>1, <4>2
    <3> QED
      BY <1>1, <3>1, <3>2 DEF Change
  <2>2. log' \in Seq(Entry) /\ transaction' \in Transaction
    BY <1>0, <2>1, RecordEntries
  <2> QED
    BY <1>1, <2>2 DEF Change, input, TypeOK, Entry
<1>2. ASSUME NEW c \in Calls, NEW asks \in BOOLEAN, NEW fields \in FieldSet, Begin(c, asks, fields)
      PROVE  TypeOK'
  BY <1>2 DEF Begin, Goto, server, TypeOK, FieldSet
<1>3. ASSUME NEW c \in Calls, Apply(c) PROVE TypeOK'
  <2>1. Updated(transaction, Body(c)) \in Transaction
    BY <1>0, UpdatedType DEF Body
  <2>2. log' \in Seq(Entry) /\ transaction' \in Transaction
    BY <1>0, <1>3, <2>1, RecordEntries DEF Apply
  <2>3. pc' \in [Calls -> Places] /\ after' \in [Calls -> Transaction]
    <3>1. after \in [Calls -> Transaction]
      BY DEF TypeOK
    <3>2. CASE pc[c] = "putting"
      <4>1. pc' = [pc EXCEPT ![c] = "put"] /\ after' = [after EXCEPT ![c] = transaction']
        BY <1>3, <3>2 DEF Apply, Goto
      <4>2. pc' \in [Calls -> Places]
        BY <1>0, <4>1 DEF Places
      <4> QED
        BY <2>2, <3>1, <4>1, <4>2
    <3>3. CASE pc[c] # "putting"
      BY <1>0, <1>3, <3>1, <3>3 DEF Apply
    <3> QED
      BY <3>2, <3>3
  <2> QED
    BY <1>3, <2>2, <2>3 DEF Apply, input, TypeOK, Entry, Places
<1>4. ASSUME NEW c \in Calls, NEW a \in Answers, Answer(c, a) PROVE TypeOK'
  BY <1>4 DEF Answer, Goto, input, TypeOK
<1>5. ASSUME NEW c \in Calls, Drop(c) \/ Refuse(c) \/ Check(c) \/ Fail(c) PROVE TypeOK'
  <2>1. pc' \in [Calls -> Places]
    BY <1>0, <1>5 DEF Drop, Refuse, Check, Fail, Goto, Places
  <2>2. wire' \subseteq Calls
    BY <1>5 DEF Drop, Refuse, Check, Fail, server, TypeOK
  <2>3. UNCHANGED <<transaction, log, input, before, readAt, answer, after, result>>
    BY <1>5 DEF Drop, Refuse, Check, Fail, server
  <2> QED
    BY <2>1, <2>2, <2>3 DEF input, TypeOK, Places
<1>6. ASSUME NEW c \in Calls, Read(c) PROVE TypeOK'
  BY <1>0, <1>6 DEF Read, Goto, server, input, TypeOK
<1>7. ASSUME NEW c \in Calls, Report(c) PROVE TypeOK'
  <2>1. SnapshotBefore(c) \in FieldSet /\ SnapshotOf(c, after[c]) \in FieldSet
    BY <1>0, SnapshotType DEF SnapshotBefore, TypeOK
  <2>2. result' \in [Calls -> [before : FieldSet, after : FieldSet]]
    BY <1>0, <1>7, <2>1 DEF Report
  <2> QED
    BY <1>7, <2>2 DEF Report, Goto, server, input, TypeOK, FieldSet
<1>8. CASE UNCHANGED vars
  BY <1>8 DEF vars, server, input, TypeOK
<1>9. ASSUME NEW c \in Calls, UpdateTransaction(c) \/ ApproveTransaction(c) PROVE TypeOK'
  <2>1. Approval \in FieldSet
    BY DEF Approval, NoFields, FieldSet
  <2> QED
    BY <1>2, <1>9, <2>1 DEF UpdateTransaction, ApproveTransaction, FieldSet, Approval
<1> QED
  BY <1>1, <1>3, <1>4, <1>5, <1>6, <1>7, <1>8, <1>9 DEF Next

(* The transaction and every copy of it have their types.                  *)
THEOREM TypeCorrectness == Spec => []TypeOK
  BY TypeInit, TypeStep, PTL DEF Spec

-----------------------------------------------------------------------------
(* Every step keeps the invariant                                          *)

(* A change leaves the calls that did not make it alone.                   *)
LEMMA Undisturbed ==
  ASSUME TypeOK, NEW who \in Calls \cup {Other}, NEW t \in Transaction, Record(who, t),
         NEW d \in Calls, d # who, Checked(d), Once(d), Anchored(d),
         pc'[d] = pc[d], d \in wire' => d \in wire,
         UNCHANGED <<elicit, set, before, readAt, answer, result>>, after'[d] = after[d]
  PROVE  Checked(d)' /\ Once(d)' /\ Anchored(d)'
<1>0. log \in Seq(Entry) /\ transaction \in Transaction /\ readAt[d] \in Nat
  BY DEF TypeOK, Entry
<1>1. /\ transaction' = t /\ Len(log) \in Nat /\ Len(log') = Len(log) + 1
      /\ DOMAIN log = 1..Len(log)
      /\ log'[Len(log) + 1] = [by |-> who, from |-> transaction, to |-> t]
      /\ \A i \in 1..Len(log) : log'[i] = log[i]
      /\ Entries(d)' = Entries(d)
  BY <1>0, RecordEntries
<1>2. IsUpdateNoOp(d)' = IsUpdateNoOp(d) /\ SnapshotBefore(d)' = SnapshotBefore(d)
      /\ SnapshotOf(d, after[d])' = SnapshotOf(d, after[d])
  BY DEF IsUpdateNoOp, SnapshotBefore, SnapshotOf
<1>3. Checked(d)'
  BY <1>1, <1>2 DEF Checked
<1>4. \A i \in Entries(d) : log'[i] = log[i]
  BY <1>1 DEF Entries
<1>5. Once(d)'
  <2>1. \A i \in Entries(d) : Entries(d) = {i} /\ log'[i].to = Updated(log'[i].from, set[d])
    BY <1>4 DEF Once
  <2>2. (\A i \in Entries(d) : Entries(d) = {i} /\ log[i].to = Updated(log[i].from, set[d]))'
    BY <1>1, <2>1 DEF Updated
  <2>3. (d \in wire => Entries(d) = {})'
    BY <1>1 DEF Once
  <2>4. (pc[d] \in {"put", "done"} => \E i \in Entries(d) : log[i].to = after[d])'
    BY <1>1, <1>4 DEF Once
  <2> QED
    BY <2>2, <2>3, <2>4 DEF Once
<1>6. Anchored(d)'
  <2>1. readAt[d] < Len(log) => log'[readAt[d] + 1] = log[readAt[d] + 1]
    BY <1>0, <1>1
  <2>2. log'[Len(log) + 1].from = transaction
    BY <1>1
  <2>3. readAt[d] < Len(log') => log'[readAt[d] + 1].from = before[d]
    BY <1>0, <1>1, <2>1, <2>2 DEF Anchored
  <2>4. readAt[d] <= Len(log') /\ ~ (readAt[d] = Len(log'))
    BY <1>0, <1>1 DEF Anchored
  <2> QED
    BY <1>2, <2>3, <2>4 DEF Anchored
<1> QED
  BY <1>3, <1>5, <1>6

(* So does a step of a call that leaves the transaction alone.             *)
LEMMA Untouched ==
  ASSUME NEW d \in Calls, Checked(d), Once(d), Anchored(d), UNCHANGED <<transaction, log>>,
         pc'[d] = pc[d], d \in wire' => d \in wire, elicit'[d] = elicit[d], set'[d] = set[d],
         before'[d] = before[d], readAt'[d] = readAt[d], answer'[d] = answer[d],
         after'[d] = after[d], result'[d] = result[d]
  PROVE  Checked(d)' /\ Once(d)' /\ Anchored(d)'
<1>1. Entries(d)' = Entries(d)
  BY DEF Entries
<1>2. IsUpdateNoOp(d)' = IsUpdateNoOp(d) /\ SnapshotBefore(d)' = SnapshotBefore(d)
      /\ SnapshotOf(d, after[d])' = SnapshotOf(d, after[d])
  BY DEF IsUpdateNoOp, SnapshotBefore, SnapshotOf
<1>3. Checked(d)'
  BY <1>1, <1>2 DEF Checked
<1>4. Once(d)'
  BY <1>1 DEF Once, Updated
<1>5. Anchored(d)'
  BY <1>2 DEF Anchored
<1> QED
  BY <1>3, <1>4, <1>5

(* The PUT of a call.                                                      *)
LEMMA ApplyStep ==
  ASSUME Inv, NEW c \in Calls, Apply(c)
  PROVE  \A d \in Calls : Checked(d)' /\ Once(d)' /\ Anchored(d)'
<1> DEFINE t == Updated(transaction, Body(c))
<1>0. /\ TypeOK /\ Checked(c) /\ Once(c) /\ Anchored(c) /\ readAt[c] \in Nat
      /\ log \in Seq(Entry) /\ transaction \in Transaction /\ set[c] \in FieldSet
  BY DEF Inv, TypeOK, Entry, FieldSet
<1>1. t \in Transaction /\ Record(c, t) /\ c \in wire /\ c \notin wire'
      /\ UNCHANGED <<elicit, set, before, readAt, answer, result>>
  BY <1>0, UpdatedType DEF Apply, Body, input
<1>2. Entries(c) = {} /\ pc[c] \in Sent
  BY <1>0, <1>1 DEF Once, Checked, Unsent, Sent, TypeOK
<1>3. /\ pc'[c] = IF pc[c] = "putting" THEN "put" ELSE pc[c]
      /\ pc[c] = "putting" => after'[c] = transaction'
      /\ pc[c] # "putting" => after' = after
      /\ \A d \in Calls \ {c} : pc'[d] = pc[d] /\ after'[d] = after[d] /\ (d \in wire' => d \in wire)
  BY <1>0 DEF Apply, Goto, TypeOK
<1>s. t = Updated(transaction, set[c])
  BY DEF Body
<1> HIDE DEF t
<1>4. /\ transaction' = t /\ Len(log) \in Nat /\ Len(log') = Len(log) + 1
      /\ DOMAIN log = 1..Len(log)
      /\ log'[Len(log) + 1] = [by |-> c, from |-> transaction, to |-> t]
      /\ \A i \in 1..Len(log) : log'[i] = log[i]
      /\ Entries(c)' = {Len(log) + 1}
  BY <1>0, <1>1, <1>2, RecordEntries
<1>5. log'[Len(log) + 1].from = transaction /\ log'[Len(log) + 1].to = t
  BY <1>4
<1>6. IsUpdateNoOp(c)' = IsUpdateNoOp(c)
  BY <1>1 DEF IsUpdateNoOp
<1>7. Checked(c)'
  BY <1>0, <1>1, <1>2, <1>3, <1>6 DEF Checked, Unsent, Sent
<1>8. pc[c] \notin {"put", "done"}
  BY <1>0, <1>2 DEF Once
<1>9. Once(c)'
  <2>1. pc'[c] \in {"put", "done"} => after'[c] = t
    BY <1>3, <1>4, <1>8
  <2>2. \A i \in Entries(c)' : i = Len(log) + 1
    BY <1>4
  <2>3. \A i \in Entries(c)' :
          Entries(c)' = {i} /\ log'[i].to = t /\ Updated(log'[i].from, set'[c]) = t
    <3>1. log'[Len(log) + 1].from = transaction /\ set' = set
      BY <1>1, <1>5
    <3> QED
      BY <1>4, <1>5, <1>s, <2>2, <3>1
  <2>4. \A i \in Entries(c)' : log'[i].to = (Updated(log[i].from, set[c]))'
    BY <2>3 DEF Updated
  <2>5. pc'[c] \in {"put", "done"} => \E i \in Entries(c)' : log'[i].to = after'[c]
    BY <1>4, <2>1, <2>3
  <2> QED
    BY <1>1, <2>3, <2>4, <2>5 DEF Once
<1>10. Anchored(c)'
  <2>1. readAt[c] < Len(log) => log'[readAt[c] + 1] = log[readAt[c] + 1]
    BY <1>0, <1>4
  <2>2. readAt[c] < Len(log') => log'[readAt[c] + 1].from = before[c]
    BY <1>0, <1>4, <1>5, <2>1 DEF Anchored
  <2>3. readAt[c] <= Len(log') /\ ~ (readAt[c] = Len(log')) /\ pc'[c] # "done"
    BY <1>0, <1>3, <1>4, <1>8 DEF Anchored
  <2> QED
    BY <1>1, <2>2, <2>3 DEF Anchored
<1>11. ASSUME NEW d \in Calls \ {c} PROVE Checked(d)' /\ Once(d)' /\ Anchored(d)'
  BY <1>0, <1>1, <1>3, Undisturbed DEF Inv
<1> QED
  BY <1>7, <1>9, <1>10, <1>11

(* The handler's own steps.                                                *)
LEMMA OwnStep ==
  ASSUME Inv, NEW c \in Calls,
         \/ UpdateTransaction(c) \/ ApproveTransaction(c) \/ Refuse(c)
         \/ \E a \in Answers : Answer(c, a)
         \/ Drop(c) \/ Read(c) \/ Check(c) \/ Report(c) \/ Fail(c)
  PROVE  Checked(c)' /\ Once(c)' /\ Anchored(c)'
<1>0. TypeOK /\ Checked(c) /\ Once(c) /\ Anchored(c) /\ Len(log) \in Nat
  BY DEF Inv, TypeOK
<1>1. UNCHANGED <<transaction, log>> /\ Entries(c)' = Entries(c)
  BY DEF UpdateTransaction, ApproveTransaction, Begin, Refuse, Answer, Drop, Read, Check,
     Report, Fail, server, Entries
<1>2. ASSUME NEW asks \in BOOLEAN, NEW fields \in FieldSet, Begin(c, asks, fields),
             asks \/ fields = Approval
      PROVE  Checked(c)' /\ Once(c)' /\ Anchored(c)'
  <2>1. /\ pc[c] = "new" /\ pc'[c] = "reading" /\ elicit'[c] = asks /\ set'[c] = fields
        /\ UNCHANGED <<wire, before, readAt, answer, after, result>>
    BY <1>0, <1>2 DEF Begin, Goto, server, TypeOK
  <2>2. Entries(c) = {} /\ c \notin wire
    BY <1>0, <2>1 DEF Checked, Unsent
  <2>3. Checked(c)' /\ Once(c)'
    BY <1>1, <1>2, <2>1, <2>2 DEF Checked, Once, Unsent, Sent
  <2>4. Anchored(c)'
    BY <1>0, <1>1, <2>1 DEF Anchored
  <2> QED
    BY <2>3, <2>4
<1>3. CASE UpdateTransaction(c) \/ ApproveTransaction(c)
  <2>1. Approval \in FieldSet
    BY UpdateAssumption DEF Approval, NoFields, FieldSet
  <2> QED
    BY <1>2, <1>3, <2>1 DEF UpdateTransaction, ApproveTransaction, FieldSet, Approval
<1>4. ASSUME NEW a \in Answers, Answer(c, a) PROVE Checked(c)' /\ Once(c)' /\ Anchored(c)'
  <2>1. /\ pc[c] = "confirming" /\ answer'[c] = a
        /\ \/ Proceeds(a) /\ pc'[c] = "putting"
           \/ pc'[c] = "rejected" /\ wire' = wire
        /\ UNCHANGED <<input, before, readAt, after, result>>
    BY <1>0, <1>4 DEF Answer, Goto, TypeOK
  <2>2. Entries(c) = {} /\ c \notin wire /\ ~ IsUpdateNoOp(c)
    BY <1>0, <2>1 DEF Checked, Unsent
  <2>3. IsUpdateNoOp(c)' = IsUpdateNoOp(c)
    BY <2>1 DEF IsUpdateNoOp, input
  <2>4. Checked(c)' /\ Once(c)'
    BY <1>0, <1>1, <2>1, <2>2, <2>3 DEF Checked, Once, Unsent, Sent, Proceeds, input
  <2>5. Anchored(c)'
    BY <1>0, <1>1, <2>1 DEF Anchored
  <2> QED
    BY <2>4, <2>5
<1>5. CASE Drop(c)
  <2>1. (c \in wire' => c \in wire)
        /\ UNCHANGED <<transaction, log, pc, input, before, readAt, answer, after, result>>
    BY <1>5 DEF Drop
  <2> QED
    BY <1>0, <2>1, Untouched DEF input
<1>6. CASE Refuse(c) \/ Fail(c)
  <2>1. /\ \/ pc[c] \in Unsent /\ pc'[c] = "rejected"
           \/ pc[c] \in Sent /\ pc'[c] = "failed"
        /\ UNCHANGED <<wire, input, before, readAt, answer, after, result>>
    BY <1>0, <1>6 DEF Refuse, Fail, Goto, server, TypeOK, Unsent, Sent
  <2>2. IsUpdateNoOp(c)' = IsUpdateNoOp(c) /\ UNCHANGED <<elicit, set>>
    BY <2>1 DEF IsUpdateNoOp, input
  <2>3. Once(c)'
    <3>1. pc'[c] \notin {"put", "done"} /\ wire' = wire
      BY <2>1
    <3>2. (\A i \in Entries(c) : Entries(c) = {i} /\ log[i].to = Updated(log[i].from, set[c]))'
      <4>1. \A i \in Entries(c) : Entries(c) = {i} /\ log[i].to = Updated(log[i].from, set[c])
        BY <1>0 DEF Once
      <4>2. log' = log /\ set' = set /\ Entries(c)' = Entries(c)
        BY <1>0, <1>1, <2>2
      <4> QED
        BY <4>1, <4>2 DEF Updated
    <3>3. (c \in wire => Entries(c) = {})'
      BY <1>0, <1>1, <3>1 DEF Once
    <3> QED
      BY <3>1, <3>2, <3>3 DEF Once
  <2>4. Checked(c)'
    BY <1>0, <1>1, <2>1, <2>2 DEF Checked, Unsent, Sent
  <2>5. Anchored(c)'
    BY <1>0, <1>1, <2>1 DEF Anchored
  <2> QED
    BY <2>3, <2>4, <2>5
<1>7. CASE Read(c)
  <2>1. /\ pc[c] = "reading" /\ pc'[c] = "checking" /\ before'[c] = transaction
        /\ readAt'[c] = Len(log) /\ UNCHANGED <<wire, elicit, set, answer, after, result>>
    BY <1>0, <1>7 DEF Read, Goto, server, input, TypeOK
  <2>2. Entries(c) = {} /\ c \notin wire
    BY <1>0, <2>1 DEF Checked, Unsent
  <2>3. Checked(c)' /\ Once(c)'
    BY <1>0, <1>1, <2>1, <2>2 DEF Checked, Once, Unsent, Sent
  <2>4. Anchored(c)'
    BY <1>0, <1>1, <2>1 DEF Anchored
  <2> QED
    BY <2>3, <2>4
<1>8. CASE Check(c)
  <2>1. /\ pc[c] = "checking"
        /\ \/ pc'[c] = "rejected" /\ wire' = wire
           \/ ~ IsUpdateNoOp(c) /\ pc'[c] = "confirming" /\ wire' = wire
           \/ ~ IsUpdateNoOp(c) /\ ~ elicit[c] /\ pc'[c] = "putting"
        /\ UNCHANGED <<input, before, readAt, answer, after, result>>
    BY <1>0, <1>8 DEF Check, Pointless, Asks, Goto, TypeOK
  <2>2. Entries(c) = {} /\ c \notin wire
    BY <1>0, <2>1 DEF Checked, Unsent
  <2>3. IsUpdateNoOp(c)' = IsUpdateNoOp(c) /\ UNCHANGED <<elicit, set>>
    BY <2>1 DEF IsUpdateNoOp, input
  <2>4. Checked(c)' /\ Once(c)'
    BY <1>0, <1>1, <2>1, <2>2, <2>3 DEF Checked, Once, Unsent, Sent
  <2>5. Anchored(c)'
    BY <1>0, <1>1, <2>1 DEF Anchored
  <2> QED
    BY <2>4, <2>5
<1>9. CASE Report(c)
  <2>1. /\ pc[c] = "put" /\ pc'[c] = "done"
        /\ result'[c] = [before |-> SnapshotBefore(c), after |-> SnapshotOf(c, after[c])]
        /\ UNCHANGED <<wire, elicit, set, before, readAt, answer, after>>
    BY <1>0, <1>9 DEF Report, Goto, server, input, TypeOK
  <2>2. IsUpdateNoOp(c)' = IsUpdateNoOp(c) /\ SnapshotBefore(c)' = SnapshotBefore(c)
        /\ SnapshotOf(c, after[c])' = SnapshotOf(c, after[c])
    BY <2>1 DEF IsUpdateNoOp, SnapshotBefore, SnapshotOf
  <2>3. Checked(c)'
    BY <1>0, <1>1, <2>1, <2>2 DEF Checked, Unsent, Sent
  <2>4. Once(c)'
    BY <1>0, <1>1, <2>1 DEF Once, Updated
  <2>5. Anchored(c)'
    BY <1>0, <1>1, <2>1, <2>2 DEF Anchored
  <2> QED
    BY <2>3, <2>4, <2>5
<1> QED
  BY <1>3, <1>4, <1>5, <1>6, <1>7, <1>8, <1>9

LEMMA InvInit == Init => Inv
<1> SUFFICES ASSUME Init PROVE Inv
  OBVIOUS
<1>1. ASSUME NEW c \in Calls PROVE Checked(c) /\ Once(c) /\ Anchored(c)
  BY DEF Init, Checked, Once, Anchored, Entries, Unsent, Sent
<1> QED
  BY <1>1, TypeInit DEF Inv

LEMMA InvStep == Inv /\ [Next]_vars => Inv'
<1> SUFFICES ASSUME Inv, [Next]_vars PROVE Inv'
  OBVIOUS
<1>0. /\ TypeOK /\ TypeOK' /\ transaction \in Transaction
  BY TypeStep DEF Inv, TypeOK
<1> DEFINE Own(c) ==
             \/ UpdateTransaction(c) \/ ApproveTransaction(c) \/ Refuse(c)
             \/ \E a \in Answers : Answer(c, a)
             \/ Drop(c) \/ Read(c) \/ Check(c) \/ Report(c) \/ Fail(c)
<1>1. ASSUME Change, NEW d \in Calls PROVE Checked(d)' /\ Once(d)' /\ Anchored(d)'
  <2>1. PICK t : Record(Other, t)
    BY <1>1 DEF Change
  <2>2. t \in Transaction
    BY <1>0, <2>1 DEF Record, TypeOK
  <2> QED
    BY <1>0, <1>1, <2>1, <2>2, UpdateAssumption, Undisturbed DEF Inv, Change, input
<1>2. ASSUME NEW c \in Calls, Apply(c), NEW d \in Calls
      PROVE  Checked(d)' /\ Once(d)' /\ Anchored(d)'
  BY <1>2, ApplyStep
<1>3. ASSUME NEW c \in Calls, Own(c), NEW d \in Calls
      PROVE  Checked(d)' /\ Once(d)' /\ Anchored(d)'
  <2>1. CASE d = c
    BY <1>3, <2>1, OwnStep
  <2>2. CASE d # c
    <3>1. /\ UNCHANGED <<transaction, log>> /\ pc'[d] = pc[d] /\ (d \in wire' => d \in wire)
          /\ elicit'[d] = elicit[d] /\ set'[d] = set[d] /\ before'[d] = before[d]
          /\ readAt'[d] = readAt[d] /\ answer'[d] = answer[d] /\ after'[d] = after[d]
          /\ result'[d] = result[d]
      BY <1>0, <1>3, <2>2 DEF TypeOK, Goto, UpdateTransaction, ApproveTransaction, Begin, Refuse,
         Answer, Drop, Read, Check, Report, Fail, server, input
    <3> QED
      BY <3>1, Untouched DEF Inv
  <2> QED
    BY <2>1, <2>2
<1>4. ASSUME UNCHANGED vars, NEW d \in Calls PROVE Checked(d)' /\ Once(d)' /\ Anchored(d)'
  BY <1>4, Untouched DEF Inv, vars, server, input
<1>5. Change \/ (\E c \in Calls : Apply(c) \/ Own(c)) \/ UNCHANGED vars
  BY DEF Next
<1>6. \A d \in Calls : Checked(d)' /\ Once(d)' /\ Anchored(d)'
  <2> HIDE DEF Own
  <2> QED
    BY <1>1, <1>2, <1>3, <1>4, <1>5
<1> QED
  BY <1>0, <1>6 DEF Inv

LEMMA Invariance == Spec => []Inv
  BY InvInit, InvStep, PTL DEF Spec

-----------------------------------------------------------------------------
(* What others wrote to the fields a call was not given survives the call, *)
(* however late its PUT arrives.                                           *)
THEOREM NothingOverwritten == Spec => []OtherFieldsSurvive
<1>1. Inv => OtherFieldsSurvive
  <2> SUFFICES ASSUME Inv, NEW c \in Calls, NEW i \in Entries(c), NEW f \in Fields,
                      log[i].from.fields[f] # log[i].to.fields[f]
               PROVE  set[c][f] = log[i].to.fields[f]
    BY DEF OtherFieldsSurvive
  <2>1. log[i].from \in Transaction
    BY EntryType DEF Inv
  <2>2. log[i].to = Updated(log[i].from, set[c])
    BY DEF Inv, Once
  <2>3. log[i].to.fields[f] =
          IF set[c][f] = Keep THEN log[i].from.fields[f] ELSE set[c][f]
    BY <2>1, <2>2 DEF Updated, Transaction
  <2> QED
    BY <2>3
<1> QED
  BY <1>1, Invariance, PTL

(* The only thing YNAB is asked to do behind the user's back is to approve.*)
THEOREM OnlyApprovalsUnasked == Spec => []UnaskedOnlyApproves
<1>1. Inv => UnaskedOnlyApproves
  <2> SUFFICES ASSUME Inv, NEW c \in Calls, c \in wire \/ Entries(c) # {},
                      answer[c] \notin {"accept", "error"}
               PROVE  set[c] = Approval
    BY DEF UnaskedOnlyApproves, Approval
  <2>1. pc[c] \in Sent
    BY DEF Inv, TypeOK, Checked, Unsent, Sent
  <2> QED
    BY <2>1 DEF Inv, Checked
<1> QED
  BY <1>1, Invariance, PTL

(* Undisturbed snapshots say what the call did, and it did something.      *)
THEOREM AuditsAreTrue == Spec => []AuditUnlessDisturbed
<1>1. ASSUME Inv, NEW c \in Calls, pc[c] = "done" PROVE Cardinality(Entries(c)) = 1
  <2>1. PICK i \in Entries(c) : Entries(c) = {i}
    BY <1>1 DEF Inv, Once
  <2> QED
    BY <2>1, FS_Singleton
<1>2. ASSUME Inv, NEW c \in Calls, NEW i \in Entries(c), pc[c] = "done", readAt[c] + 1 = i
      PROVE  /\ log[i].from # log[i].to
             /\ \A f \in Fields : set[c][f] # Keep =>
                  /\ result[c].before[f] = log[i].from.fields[f]
                  /\ result[c].after[f] = log[i].to.fields[f]
  <2>1. /\ i \in 1..Len(log) /\ readAt[c] \in Nat /\ Len(log) \in Nat
        /\ log[i].from \in Transaction /\ before[c] \in Transaction
    <3>1. readAt[c] \in Nat /\ Len(log) \in Nat /\ before[c] \in Transaction
      BY <1>2 DEF Inv, TypeOK
    <3> QED
      BY <1>2, <3>1, EntryType DEF Inv
  <2>2. log[i].from = before[c]
    <3>1. readAt[c] < Len(log)
      BY <1>2, <2>1
    <3> QED
      BY <1>2, <3>1 DEF Inv, Anchored
  <2>3. log[i].to = after[c] /\ log[i].to = Updated(log[i].from, set[c])
    BY <1>2 DEF Inv, Once
  <2>4. result[c].before = SnapshotOf(c, before[c]) /\ result[c].after = SnapshotOf(c, after[c])
    <3>1. result[c] = [before |-> SnapshotBefore(c), after |-> SnapshotOf(c, after[c])]
      BY <1>2 DEF Inv, Anchored
    <3> QED
      BY <3>1 DEF SnapshotBefore
  <2>5. PICK f \in Fields : set[c][f] # Keep /\ set[c][f] # before[c].fields[f]
    BY <1>2 DEF Inv, Checked, Sent, IsUpdateNoOp
  <2>6. log[i].to.fields[f] = set[c][f]
    BY <2>1, <2>3, <2>5 DEF Updated, Transaction
  <2>7. log[i].from # log[i].to
    BY <2>2, <2>5, <2>6
  <2>8. ASSUME NEW g \in Fields, set[c][g] # Keep
        PROVE  /\ result[c].before[g] = log[i].from.fields[g]
               /\ result[c].after[g] = log[i].to.fields[g]
    <3>1. /\ SnapshotOf(c, before[c])[g] = before[c].fields[g]
          /\ SnapshotOf(c, after[c])[g] = after[c].fields[g]
      BY <2>8 DEF SnapshotOf
    <3> QED
      BY <2>2, <2>3, <2>4, <3>1
  <2> QED
    BY <2>7, <2>8
<1>3. ASSUME Inv, NEW c \in Calls, pc[c] = "rejected" PROVE c \notin wire /\ Entries(c) = {}
  BY <1>3 DEF Inv, Checked, Unsent
<1>4. Inv => AuditUnlessDisturbed
  BY <1>1, <1>2, <1>3 DEF AuditUnlessDisturbed
<1> QED
  BY <1>4, Invariance, PTL
=============================================================================
