----------------------- MODULE TransactionCreatesProofs ---------------------
(***************************************************************************)
(* Theorems about TransactionCreates: for any number of calls and retries, *)
(* any import ids and any loss or delay of requests, an import id enters   *)
(* one transaction, nothing unconfirmed is entered, and what a call        *)
(* reports is so.                                                          *)
(***************************************************************************)
EXTENDS TransactionCreates, TLAPS

Transaction == [by : Calls \cup {Other}, import : ImportIds \cup {NoImport}]

Reply == [transaction : Nat, duplicate : BOOLEAN]

-----------------------------------------------------------------------------
(* The inductive invariant                                                 *)

Unsent == {"new", "prefetching", "confirming", "rejected"}

(* A call that has touched the account was confirmed.                      *)
Confirmed(c) ==
  /\ pc[c] \in Unsent => c \notin wire /\ Entries(c) = {}
  /\ pc[c] \notin Unsent => answer[c] \in {"accept", "error"}

(* It inserts once at most, under its import id.                           *)
Once(c) ==
  /\ \A i, j \in Entries(c) : i = j
  /\ \A i \in Entries(c) : ledger[i].import = import[c]
  /\ c \in wire => Entries(c) = {} /\ pc[c] \in {"posting", "failed"}

(* What it was told is still so when it returns.                           *)
Told(c) ==
  /\ pc[c] \in {"posted", "created", "done"} /\ reply[c].transaction # 0 =>
       /\ reply[c].transaction \in DOMAIN ledger
       /\ Entries(c) = {reply[c].transaction} \/ reply[c].transaction \in Known(import[c])
  /\ pc[c] \in {"created", "done"} => reply[c].transaction # 0
  /\ pc[c] = "duplicate" \/ (pc[c] = "posted" /\ reply[c].duplicate) =>
       Entries(c) = {} /\ Known(import[c]) # {}
  /\ pc[c] = "done" /\ after[c] # None => after[c] >= reply[c].transaction

(* YNAB's side of the bargain.                                             *)
Distinct ==
  \A i, j \in DOMAIN ledger :
    ledger[i].import = ledger[j].import /\ ledger[i].import # NoImport => i = j

Inv ==
  /\ TypeOK
  /\ Distinct
  /\ \A c \in Calls : Confirmed(c) /\ Once(c) /\ Told(c)

-----------------------------------------------------------------------------
(* Inserting a transaction: what was in the account stays where it is.     *)
LEMMA Inserted ==
  ASSUME ledger \in Seq(Transaction), NEW e \in Transaction, ledger' = Append(ledger, e)
  PROVE  /\ ledger' \in Seq(Transaction)
         /\ Len(ledger) \in Nat /\ Len(ledger') = Len(ledger) + 1
         /\ DOMAIN ledger = 1..Len(ledger) /\ DOMAIN ledger' = 1..Len(ledger) + 1
         /\ ledger'[Len(ledger) + 1] = e
         /\ \A i \in 1..Len(ledger) : ledger'[i] = ledger[i]
<1> DEFINE T == Transaction
<1>1. ledger \in Seq(T) /\ e \in T
  OBVIOUS
<1> HIDE DEF T
<1>2. /\ ledger' \in Seq(T)
      /\ Len(ledger) \in Nat /\ Len(ledger') = Len(ledger) + 1
      /\ DOMAIN ledger = 1..Len(ledger) /\ DOMAIN ledger' = 1..Len(ledger) + 1
      /\ ledger'[Len(ledger) + 1] = e
      /\ \A i \in 1..Len(ledger) : ledger'[i] = ledger[i]
  BY <1>1
<1> QED
  BY <1>2 DEF T

(* The entries of a call, and of an import id, after an insertion.         *)
LEMMA InsertedEntries ==
  ASSUME ledger \in Seq(Transaction), NEW e \in Transaction, ledger' = Append(ledger, e)
  PROVE  /\ \A c \in Calls : Entries(c)' =
              IF e.by = c THEN Entries(c) \cup {Len(ledger) + 1} ELSE Entries(c)
         /\ \A id : Known(id) \subseteq {i \in DOMAIN ledger' : id # NoImport /\ ledger'[i].import = id}
<1>1. /\ Len(ledger) \in Nat
      /\ DOMAIN ledger = 1..Len(ledger) /\ DOMAIN ledger' = 1..Len(ledger) + 1
      /\ ledger'[Len(ledger) + 1] = e
      /\ \A i \in 1..Len(ledger) : ledger'[i] = ledger[i]
  BY Inserted
<1>2. ASSUME NEW c \in Calls
      PROVE  Entries(c)' = IF e.by = c THEN Entries(c) \cup {Len(ledger) + 1} ELSE Entries(c)
  BY <1>1 DEF Entries
<1> QED
  BY <1>1, <1>2 DEF Known

(* An insertion does not disturb the calls that did not make it.           *)
LEMMA Undisturbed ==
  ASSUME TypeOK, NEW e \in Transaction, ledger' = Append(ledger, e),
         NEW d \in Calls, e.by # d, Confirmed(d), Once(d), Told(d),
         pc'[d] = pc[d], answer'[d] = answer[d], import'[d] = import[d],
         reply'[d] = reply[d], after'[d] = after[d], d \in wire' => d \in wire
  PROVE  Confirmed(d)' /\ Once(d)' /\ Told(d)'
<1>0. ledger \in Seq(Transaction)
  BY DEF TypeOK, Transaction
<1>1. /\ Len(ledger) \in Nat
      /\ DOMAIN ledger = 1..Len(ledger) /\ DOMAIN ledger' = 1..Len(ledger) + 1
      /\ \A i \in 1..Len(ledger) : ledger'[i] = ledger[i]
  BY <1>0, Inserted
<1>2. Entries(d)' = Entries(d)
  BY <1>0, InsertedEntries
<1>3. Known(import[d]) \subseteq Known(import[d])'
  BY <1>1 DEF Known
<1>4. Known(import[d])' = {i \in DOMAIN ledger' : import'[d] # NoImport /\ ledger'[i].import = import'[d]}
  BY DEF Known
<1>5. Confirmed(d)'
  BY <1>2 DEF Confirmed
<1>6. Once(d)'
  <2>1. \A i \in Entries(d) : i \in DOMAIN ledger
    BY DEF Entries
  <2> QED
    BY <1>1, <1>2, <2>1 DEF Once
<1>7. Told(d)'
  BY <1>1, <1>2, <1>3, <1>4 DEF Told
<1> QED
  BY <1>5, <1>6, <1>7
-----------------------------------------------------------------------------
(* Every step                                                              *)

LEMMA InvInit == Init => Inv
<1> SUFFICES ASSUME Init PROVE Inv
  OBVIOUS
<1> USE GuardAssumption, CreateAssumption
<1>1. TypeOK
  BY DEF Init, TypeOK, NoReply
<1>2. Distinct
  BY DEF Init, Distinct
<1>3. ASSUME NEW c \in Calls PROVE Confirmed(c) /\ Once(c) /\ Told(c)
  BY DEF Init, Confirmed, Once, Told, Entries, Unsent
<1> QED
  BY <1>1, <1>2, <1>3 DEF Inv

LEMMA TypeStep == TypeOK /\ [Next]_vars => TypeOK'
<1> SUFFICES ASSUME TypeOK, [Next]_vars PROVE TypeOK'
  OBVIOUS
<1> USE GuardAssumption, CreateAssumption
<1>0. ledger \in Seq(Transaction) /\ Len(ledger) \in Nat /\ None = -1
  BY DEF TypeOK, Transaction, None
<1>1. ASSUME Change PROVE TypeOK'
  <2>1. [by |-> Other, import |-> NoImport] \in Transaction
    BY DEF Transaction
  <2>2. ledger' \in Seq(Transaction)
    BY <1>0, <1>1, <2>1, Inserted DEF Change
  <2> QED
    BY <1>1, <2>2 DEF Change, TypeOK, Transaction
<1>2. ASSUME NEW c \in Calls, NEW id \in ImportIds \cup {NoImport}, Begin(c, id) PROVE TypeOK'
  BY <1>2 DEF Begin, Goto, TypeOK
<1>3. ASSUME NEW c \in Calls, NEW a \in Answers, Answer(c, a) PROVE TypeOK'
  BY <1>3 DEF Answer, Goto, TypeOK
<1>4. ASSUME NEW c \in Calls, Post(c) PROVE TypeOK'
  <2>1. [by |-> c, import |-> BodyImport(c)] \in Transaction
    BY DEF Transaction, BodyImport, TypeOK
  <2>2. ledger' \in Seq(Transaction) /\ Len(ledger') \in Nat
    BY <1>0, <1>4, <2>1, Inserted DEF Post
  <2>3. pc' \in [Calls -> {"new", "prefetching", "confirming", "posting", "posted",
                           "created", "done", "duplicate", "rejected", "failed"}]
    BY <1>4 DEF Post, Goto, TypeOK
  <2>4. reply' \in [Calls -> Reply]
    <3>1. reply \in [Calls -> Reply]
      BY DEF TypeOK, Reply
    <3>2. \A i \in {0, Len(ledger')} : [transaction |-> i, duplicate |-> FALSE] \in Reply
      BY <2>2 DEF Reply
    <3> QED
      BY <1>4, <3>1, <3>2 DEF Post
  <2> QED
    BY <1>4, <2>2, <2>3, <2>4 DEF Post, TypeOK, Transaction, Reply
<1>5. ASSUME NEW c \in Calls, PostAgain(c) PROVE TypeOK'
  <2>1. Known(BodyImport(c)) \subseteq Nat
    BY <1>0 DEF Known
  <2>2. reply' \in [Calls -> Reply]
    <3>1. reply \in [Calls -> Reply]
      BY DEF TypeOK, Reply
    <3>2. \A i \in {0} \cup Known(BodyImport(c)) :
            [transaction |-> i, duplicate |-> TRUE] \in Reply
      BY <2>1 DEF Reply
    <3> QED
      BY <1>5, <3>1, <3>2 DEF PostAgain
  <2>3. pc' \in [Calls -> {"new", "prefetching", "confirming", "posting", "posted",
                           "created", "done", "duplicate", "rejected", "failed"}]
    BY <1>5 DEF PostAgain, Goto, TypeOK
  <2> QED
    BY <1>5, <2>2, <2>3 DEF PostAgain, TypeOK, Reply
<1>6. ASSUME NEW c \in Calls, Drop(c) PROVE TypeOK'
  BY <1>6 DEF Drop, TypeOK
<1>7. ASSUME NEW c \in Calls, Refuse(c) PROVE TypeOK'
  BY <1>7 DEF Refuse, Goto, TypeOK
<1>8. ASSUME NEW c \in Calls, Prefetch(c) PROVE TypeOK'
  BY <1>0, <1>8 DEF Prefetch, Goto, TypeOK
<1>9. ASSUME NEW c \in Calls, Settle(c) PROVE TypeOK'
  BY <1>9 DEF Settle, Goto, Outcome, TypeOK
<1>10. ASSUME NEW c \in Calls, Balance(c) PROVE TypeOK'
  BY <1>0, <1>10 DEF Balance, FetchedBalance, Goto, TypeOK
<1>11. ASSUME NEW c \in Calls, Fail(c) PROVE TypeOK'
  BY <1>11 DEF Fail, Goto, TypeOK
<1>12. CASE UNCHANGED vars
  BY <1>12 DEF vars, TypeOK
<1> QED
  BY <1>1, <1>2, <1>3, <1>4, <1>5, <1>6, <1>7, <1>8, <1>9, <1>10, <1>11, <1>12 DEF Next

(* Type correctness, for any set of calls.                                 *)
THEOREM TypeCorrectness == Spec => []TypeOK
<1>1. Init => TypeOK
  BY InvInit DEF Inv
<1> QED
  BY <1>1, TypeStep, PTL DEF Spec

(* A step of one call that leaves the account alone leaves the others so.  *)
LEMMA Untouched ==
  ASSUME NEW d \in Calls, Confirmed(d), Once(d), Told(d), UNCHANGED ledger,
         pc'[d] = pc[d], answer'[d] = answer[d], import'[d] = import[d],
         reply'[d] = reply[d], after'[d] = after[d], d \in wire' => d \in wire
  PROVE  Confirmed(d)' /\ Once(d)' /\ Told(d)'
<1>1. Entries(d)' = Entries(d) /\ Known(import[d])' = Known(import[d])
  BY DEF Entries, Known
<1>2. Confirmed(d)'
  BY <1>1 DEF Confirmed
<1>3. Once(d)'
  BY <1>1 DEF Once
<1>4. Told(d)'
  BY <1>1 DEF Told, Known
<1> QED
  BY <1>2, <1>3, <1>4

LEMMA DistinctStep == Inv /\ [Next]_vars => Distinct'
<1> SUFFICES ASSUME Inv, [Next]_vars PROVE Distinct'
  OBVIOUS
<1> USE CreateAssumption
<1>0. ledger \in Seq(Transaction) /\ Distinct
  BY DEF Inv, TypeOK, Transaction
<1>1. ASSUME NEW e \in Transaction, ledger' = Append(ledger, e), Known(e.import) = {}
      PROVE  Distinct'
  <2>1. /\ Len(ledger) \in Nat
        /\ DOMAIN ledger = 1..Len(ledger) /\ DOMAIN ledger' = 1..Len(ledger) + 1
        /\ ledger'[Len(ledger) + 1] = e
        /\ \A i \in 1..Len(ledger) : ledger'[i] = ledger[i]
    BY <1>0, <1>1, Inserted
  <2>2. \A i \in 1..Len(ledger) : e.import # NoImport => ledger[i].import # e.import
    BY <1>1, <2>1 DEF Known
  <2>3. \A i \in 1..Len(ledger) + 1 : i \in 1..Len(ledger) \/ i = Len(ledger) + 1
    BY <2>1
  <2> HIDE DEF Transaction
  <2> QED
    BY <1>0, <2>1, <2>2, <2>3 DEF Distinct
<1>2. CASE Change
  <2>1. [by |-> Other, import |-> NoImport] \in Transaction
    BY DEF Transaction
  <2>2. Known(NoImport) = {}
    BY DEF Known
  <2> QED
    BY <1>1, <1>2, <2>1, <2>2 DEF Change
<1>3. ASSUME NEW c \in Calls, Post(c) PROVE Distinct'
  <2>1. [by |-> c, import |-> BodyImport(c)] \in Transaction
    BY DEF Transaction, BodyImport, Inv, TypeOK
  <2> QED
    BY <1>1, <1>3, <2>1 DEF Post
<1>4. CASE UNCHANGED ledger
  BY <1>0, <1>4 DEF Distinct
<1> QED
  BY <1>2, <1>3, <1>4 DEF Next, vars, Begin, Answer, PostAgain, Drop, Refuse, Prefetch,
     Settle, Balance, Fail

(* A step of a call that leaves the account alone keeps its own part of    *)
(* the invariant.                                                          *)
LEMMA OwnStep ==
  ASSUME Inv, NEW c \in Calls, UNCHANGED ledger,
         \/ \E id \in ImportIds \cup {NoImport} : Begin(c, id)
         \/ \E a \in Answers : Answer(c, a)
         \/ PostAgain(c) \/ Drop(c)
         \/ Refuse(c) \/ Prefetch(c) \/ Settle(c) \/ Balance(c) \/ Fail(c)
  PROVE  Confirmed(c)' /\ Once(c)' /\ Told(c)'
<1> USE CreateAssumption
<1>0. TypeOK /\ Confirmed(c) /\ Once(c) /\ Told(c)
  BY DEF Inv
<1>1. Entries(c)' = Entries(c)
  BY DEF Entries
<1>2. \A id : Known(id) = {i \in DOMAIN ledger' : id # NoImport /\ ledger'[i].import = id}
  BY DEF Known
<1>3. Known(import[c])' = {i \in DOMAIN ledger' : import'[c] # NoImport /\ ledger'[i].import = import'[c]}
  BY DEF Known
<1>4. \A i \in Entries(c) : ledger'[i] = ledger[i]
  OBVIOUS
<1>5. ASSUME NEW id \in ImportIds \cup {NoImport}, Begin(c, id)
      PROVE  Confirmed(c)' /\ Once(c)' /\ Told(c)'
  <2>1. pc[c] = "new" /\ pc'[c] = "prefetching" /\ wire' = wire
    BY <1>0, <1>5 DEF Begin, Goto, TypeOK
  <2>2. Entries(c) = {} /\ c \notin wire
    BY <1>0, <2>1 DEF Confirmed, Unsent
  <2> QED
    BY <1>1, <2>1, <2>2 DEF Confirmed, Once, Told, Unsent
<1>6. ASSUME NEW a \in Answers, Answer(c, a)
      PROVE  Confirmed(c)' /\ Once(c)' /\ Told(c)'
  <2>1. /\ pc[c] = "confirming" /\ answer'[c] = a
        /\ \/ Proceeds(a) /\ pc'[c] = "posting"
           \/ pc'[c] = "rejected" /\ wire' = wire
    BY <1>0, <1>6 DEF Answer, Goto, TypeOK
  <2>2. Entries(c) = {} /\ c \notin wire
    BY <1>0, <2>1 DEF Confirmed, Unsent
  <2> QED
    BY <1>1, <2>1, <2>2 DEF Confirmed, Once, Told, Unsent, Proceeds
<1>7. ASSUME PostAgain(c) PROVE Confirmed(c)' /\ Once(c)' /\ Told(c)'
  <2>1. /\ Entries(c) = {} /\ pc[c] \in {"posting", "failed"} /\ c \notin wire'
        /\ Known(import[c]) # {}
    BY <1>0, <1>7 DEF PostAgain, Once, BodyImport
  <2>2. /\ answer'[c] = answer[c] /\ import'[c] = import[c] /\ after'[c] = after[c]
        /\ pc'[c] \in {"posted", "failed"}
        /\ pc'[c] = "posted" => reply'[c].transaction \in {0} \cup Known(import[c])
    BY <1>0, <1>7, <2>1 DEF PostAgain, BodyImport, Waiting, Goto, TypeOK
  <2>3. Known(import[c])' = Known(import[c])
    BY <1>2, <1>3, <2>2
  <2>4. \A i \in Known(import[c]) : i \in DOMAIN ledger'
    BY DEF Known
  <2>5. Confirmed(c)' /\ Once(c)'
    BY <1>0, <1>1, <2>1, <2>2 DEF Confirmed, Once, Unsent
  <2> QED
    BY <1>1, <2>1, <2>2, <2>3, <2>4, <2>5 DEF Told
<1>8. ASSUME Drop(c) PROVE Confirmed(c)' /\ Once(c)' /\ Told(c)'
  <2>1. UNCHANGED <<ledger, pc, import, answer, reply, after>> /\ (c \in wire' => c \in wire)
    BY <1>8 DEF Drop
  <2> QED
    BY <1>0, <2>1, Untouched
<1>9. ASSUME Refuse(c) \/ Prefetch(c)
      PROVE  Confirmed(c)' /\ Once(c)' /\ Told(c)'
  <2>1. /\ pc[c] \in Unsent /\ pc'[c] \in {"confirming", "rejected"} /\ wire' = wire
    BY <1>0, <1>9 DEF Refuse, Prefetch, Goto, TypeOK, Unsent
  <2>2. Entries(c) = {} /\ c \notin wire
    BY <1>0, <2>1 DEF Confirmed
  <2> QED
    BY <1>1, <2>1, <2>2 DEF Confirmed, Once, Told, Unsent
<1>10. ASSUME Settle(c) PROVE Confirmed(c)' /\ Once(c)' /\ Told(c)'
  <2>1. /\ pc[c] = "posted" /\ pc'[c] = Outcome(c)
        /\ UNCHANGED <<wire, import, answer, reply, after>>
    BY <1>0, <1>10 DEF Settle, Goto, TypeOK
  <2>2. Known(import[c])' = Known(import[c])
    BY <1>2, <1>3, <2>1
  <2>3. c \notin wire
    BY <1>0, <2>1 DEF Once
  <2>4. Confirmed(c)' /\ Once(c)'
    BY <1>0, <1>1, <2>1, <2>3 DEF Confirmed, Once, Unsent, Outcome
  <2>5. reply[c].transaction # 0 =>
          /\ reply[c].transaction \in DOMAIN ledger'
          /\ Entries(c)' = {reply[c].transaction} \/ reply[c].transaction \in Known(import[c])'
    BY <1>0, <1>1, <2>1, <2>2 DEF Told
  <2>6. reply[c].duplicate => Entries(c)' = {} /\ Known(import[c])' # {}
    BY <1>0, <1>1, <2>1, <2>2 DEF Told
  <2>7. /\ pc'[c] \in {"created", "duplicate", "failed"}
        /\ pc'[c] = "created" => reply'[c].transaction # 0
        /\ pc'[c] = "duplicate" => reply'[c].duplicate
    BY <2>1 DEF Outcome
  <2>8. Told(c)'
    BY <2>1, <2>5, <2>6, <2>7 DEF Told
  <2> QED
    BY <2>4, <2>8
<1>11. ASSUME Balance(c) PROVE Confirmed(c)' /\ Once(c)' /\ Told(c)'
  <2>1. /\ pc[c] = "created" /\ pc'[c] = "done" /\ after'[c] \in {Len(ledger), None}
        /\ UNCHANGED <<wire, import, answer, reply>>
    BY <1>0, <1>11 DEF Balance, FetchedBalance, Goto, TypeOK
  <2>2. Known(import[c])' = Known(import[c])
    BY <1>2, <1>3, <2>1
  <2>3. c \notin wire
    BY <1>0, <2>1 DEF Once
  <2>4. Confirmed(c)' /\ Once(c)'
    BY <1>0, <1>1, <2>1, <2>3 DEF Confirmed, Once, Unsent
  <2>5. DOMAIN ledger = 1..Len(ledger) /\ Len(ledger) \in Nat
    BY <1>0 DEF TypeOK
  <2>6. reply[c].transaction # 0 /\ reply[c].transaction \in DOMAIN ledger
        /\ (Entries(c) = {reply[c].transaction} \/ reply[c].transaction \in Known(import[c]))
    BY <1>0, <2>1 DEF Told
  <2>7. after'[c] # None => after'[c] >= reply[c].transaction
    BY <2>1, <2>5, <2>6
  <2> QED
    BY <1>1, <2>1, <2>2, <2>4, <2>6, <2>7 DEF Told
<1>12. ASSUME Fail(c) PROVE Confirmed(c)' /\ Once(c)' /\ Told(c)'
  <2>1. /\ pc[c] \in {"posting", "posted"} /\ pc'[c] = "failed"
        /\ UNCHANGED <<wire, import, answer, reply, after>>
    BY <1>0, <1>12 DEF Fail, Goto, TypeOK
  <2> QED
    BY <1>0, <1>1, <2>1 DEF Confirmed, Once, Told, Unsent
<1> QED
  BY <1>5, <1>6, <1>7, <1>8, <1>9, <1>10, <1>11, <1>12

(* The insertion of a call's transaction.                                  *)
LEMMA PostStep ==
  ASSUME Inv, NEW c \in Calls, Post(c)
  PROVE  \A d \in Calls : Confirmed(d)' /\ Once(d)' /\ Told(d)'
<1> USE CreateAssumption
<1> DEFINE e == [by |-> c, import |-> BodyImport(c)]
<1>0. TypeOK /\ Confirmed(c) /\ Once(c) /\ Told(c)
  BY DEF Inv
<1>1. ledger \in Seq(Transaction) /\ e \in Transaction /\ ledger' = Append(ledger, e)
  BY <1>0 DEF Post, Transaction, TypeOK, BodyImport
<1>2. /\ Len(ledger) \in Nat /\ Len(ledger') = Len(ledger) + 1
      /\ DOMAIN ledger' = 1..Len(ledger) + 1
      /\ ledger'[Len(ledger) + 1] = e
  BY <1>1, Inserted
<1>3. e.by = c /\ e.import = import[c]
  BY DEF BodyImport
<1>4. Entries(c) = {} /\ pc[c] \in {"posting", "failed"}
  BY <1>0 DEF Post, Once
<1>5. Entries(c)' = {Len(ledger) + 1}
  <2>1. Entries(c)' = Entries(c) \cup {Len(ledger) + 1}
    BY <1>1, <1>3, InsertedEntries
  <2> QED
    BY <1>4, <2>1
<1>6. /\ UNCHANGED <<import, answer, after>> /\ c \notin wire'
      /\ pc'[c] \in {"posted", "failed"}
      /\ pc'[c] = "posted" => /\ reply'[c].transaction \in {0, Len(ledger')}
                              /\ ~ reply'[c].duplicate
  BY <1>0, <1>4 DEF Post, Waiting, Goto, TypeOK
<1>7. Confirmed(c)'
  BY <1>0, <1>4, <1>6 DEF Confirmed, Unsent
<1> HIDE DEF e
<1>8. Once(c)'
  BY <1>2, <1>3, <1>5, <1>6 DEF Once
<1>9. Told(c)'
  BY <1>2, <1>5, <1>6 DEF Told
<1>10. ASSUME NEW d \in Calls, d # c PROVE Confirmed(d)' /\ Once(d)' /\ Told(d)'
  <2>1. /\ pc'[d] = pc[d] /\ answer'[d] = answer[d] /\ import'[d] = import[d]
        /\ reply'[d] = reply[d] /\ after'[d] = after[d] /\ (d \in wire' => d \in wire)
    BY <1>0, <1>10 DEF Post, Goto, TypeOK
  <2> QED
    BY <1>0, <1>1, <1>3, <1>10, <2>1, Undisturbed DEF Inv
<1> QED
  BY <1>7, <1>8, <1>9, <1>10

LEMMA InvStep == Inv /\ [Next]_vars => Inv'
<1> SUFFICES ASSUME Inv, [Next]_vars PROVE Inv'
  OBVIOUS
<1>0. TypeOK /\ TypeOK' /\ Distinct'
  BY TypeStep, DistinctStep DEF Inv
<1> DEFINE Quiet(c) ==
             \/ \E id \in ImportIds \cup {NoImport} : Begin(c, id)
             \/ \E a \in Answers : Answer(c, a)
             \/ PostAgain(c) \/ Drop(c)
             \/ Refuse(c) \/ Prefetch(c) \/ Settle(c) \/ Balance(c) \/ Fail(c)
<1>1. ASSUME Change, NEW d \in Calls PROVE Confirmed(d)' /\ Once(d)' /\ Told(d)'
  <2> DEFINE e == [by |-> Other, import |-> NoImport]
  <2>1. e \in Transaction /\ e.by # d /\ ledger' = Append(ledger, e)
    BY <1>1, CreateAssumption DEF Change, Transaction
  <2> HIDE DEF e
  <2> QED
    BY <1>0, <1>1, <2>1, Undisturbed DEF Inv, Change
<1>2. ASSUME NEW c \in Calls, Post(c), NEW d \in Calls
      PROVE  Confirmed(d)' /\ Once(d)' /\ Told(d)'
  BY <1>2, PostStep
<1>3. ASSUME NEW c \in Calls, Quiet(c), NEW d \in Calls
      PROVE  Confirmed(d)' /\ Once(d)' /\ Told(d)'
  <2>1. UNCHANGED ledger
    BY <1>3 DEF Begin, Answer, PostAgain, Drop, Refuse, Prefetch, Settle, Balance, Fail
  <2>2. CASE d = c
    BY <1>3, <2>1, <2>2, OwnStep
  <2>3. CASE d # c
    <3>1. /\ pc'[d] = pc[d] /\ answer'[d] = answer[d] /\ import'[d] = import[d]
          /\ reply'[d] = reply[d] /\ after'[d] = after[d] /\ (d \in wire' => d \in wire)
      BY <1>0, <1>3, <2>3 DEF TypeOK, Goto, Begin, Answer, PostAgain, Drop, Refuse, Prefetch,
         Settle, Balance, Fail
    <3> QED
      BY <2>1, <3>1, Untouched DEF Inv
  <2> QED
    BY <2>2, <2>3
<1>4. ASSUME UNCHANGED vars, NEW d \in Calls PROVE Confirmed(d)' /\ Once(d)' /\ Told(d)'
  BY <1>4, Untouched DEF Inv, vars
<1>5. Change \/ (\E c \in Calls : Post(c) \/ Quiet(c)) \/ UNCHANGED vars
  BY DEF Next
<1>6. \A d \in Calls : Confirmed(d)' /\ Once(d)' /\ Told(d)'
  <2> HIDE DEF Quiet
  <2> QED
    BY <1>1, <1>2, <1>3, <1>4, <1>5
<1> QED
  BY <1>0, <1>6 DEF Inv

LEMMA Invariance == Spec => []Inv
  BY InvInit, InvStep, PTL DEF Spec

-----------------------------------------------------------------------------
(* However often a create is retried and however late a POST arrives, one  *)
(* import id enters one transaction.                                       *)
THEOREM OneTransactionPerImportId == Spec => []OncePerImportId
<1>1. Inv => OncePerImportId
  <2> SUFFICES ASSUME Inv, NEW c \in Calls, NEW d \in Calls,
                      NEW i \in Entries(c), NEW j \in Entries(d),
                      import[c] = import[d], import[c] # NoImport
               PROVE  i = j
    BY DEF OncePerImportId
  <2>1. i \in DOMAIN ledger /\ j \in DOMAIN ledger
    BY DEF Entries
  <2>2. ledger[i].import = import[c] /\ ledger[j].import = import[d]
    BY DEF Inv, Once
  <2> QED
    BY <2>1, <2>2 DEF Inv, Distinct
<1> QED
  BY <1>1, Invariance, PTL

(* A success names a transaction of the account that is the call's own or  *)
(* carries its import id, and its balance covers it; a call reported as a  *)
(* duplicate inserted nothing.                                             *)
THEOREM OutcomesAreTrue == Spec => []OutcomesTell
<1>1. Inv => OutcomesTell
  <2>1. Inv => SuccessNamesTransaction
    BY DEF Inv, Told, SuccessNamesTransaction
  <2>2. Inv => DuplicateExists
    BY DEF Inv, Told, DuplicateExists
  <2>3. Inv => BalanceCoversInsert
    BY DEF Inv, Told, BalanceCoversInsert
  <2> QED
    BY <2>1, <2>2, <2>3 DEF OutcomesTell
<1> QED
  BY <1>1, Invariance, PTL

(* Nothing enters the account that the guard did not let through.          *)
THEOREM ConfirmedFirst == Spec => []NothingUnconfirmed
<1>1. Inv => NothingUnconfirmed
  BY DEF Inv, Confirmed, Unsent, NothingUnconfirmed
<1> QED
  BY <1>1, Invariance, PTL
=============================================================================
