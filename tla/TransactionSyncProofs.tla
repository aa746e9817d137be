------------------------ MODULE TransactionSyncProofs -----------------------
(***************************************************************************)
(* Proofs about TransactionSync, for any number of concurrent calls, any   *)
(* dates and any length of the plan's history: what the shared cache may   *)
(* never do, and which calls it answers exactly.                           *)
(***************************************************************************)
EXTENDS TransactionSync, FiniteSetTheorems, TLAPS

Items == [Ids -> LiveRow \cup {NoRow}]

Entry == [knowledge : Nat, items : Items]

Version == 1..Len(hist)

Busy == {"windowed", "asking", "served"}

-----------------------------------------------------------------------------
(* Operators                                                               *)

(* A response is made of rows of the state.                                *)
LEMMA ResponseType ==
  ASSUME NEW s \in State, NEW c, NEW w
  PROVE  Response(s, c, w) \in State
BY DEF Response, State

(* Merging a response into live rows, or dropping its deleted rows, gives  *)
(* live rows.                                                              *)
LEMMA LiveRows ==
  ASSUME NEW d \in State
  PROVE  /\ WithoutDeleted(d) \in Items
         /\ \A items \in Items : Apply(items, d) \in Items
BY DEF Apply, WithoutDeleted, State, Items, LiveRow

LEMMA EmptyEntryType == EmptyEntry \in Entry
BY DEF EmptyEntry, Entry, NoItems, Items

(* merge keeps the types of the entry and of what it returns.              *)
LEMMA MergedType ==
  ASSUME NEW e \in Entry, NEW k \in Nat, NEW d \in State
  PROVE  /\ MergedItems(e, k, d) \in Items
         /\ MergedEntry(e, k, d) \in Entry
<1>1. Apply(e.items, d) \in Items
  BY LiveRows DEF Entry
<1> QED
  BY <1>1, EmptyEntryType DEF MergedItems, MergedEntry, Entry

(* One change of the plan touches one row and stamps it.                   *)
LEMMA SuccessorsType ==
  ASSUME NEW s \in State, NEW k \in Nat \ {0}, NEW t \in Successors(s, k)
  PROVE  /\ t \in State
         /\ \A i \in Ids : t[i] = s[i] \/ (t[i] # NoRow /\ t[i].at = k)
<1>1. PICK i \in Ids, x \in Row : x.at = k /\ t = [s EXCEPT ![i] = x]
  <2>1. PICK i \in Ids :
          \/ \E d \in Dates : t = [s EXCEPT ![i] = [at |-> k, date |-> d, deleted |-> FALSE]]
          \/ Live(s, i) /\ t = [s EXCEPT ![i] = [at |-> k, date |-> s[i].date, deleted |-> TRUE]]
    BY DEF Successors
  <2>2. CASE \E d \in Dates : t = [s EXCEPT ![i] = [at |-> k, date |-> d, deleted |-> FALSE]]
    BY <2>2 DEF Row
  <2>3. CASE Live(s, i) /\ t = [s EXCEPT ![i] = [at |-> k, date |-> s[i].date, deleted |-> TRUE]]
    <3>1. s[i].date \in Dates
      BY <2>3 DEF Live, State, Row
    <3> QED
      BY <2>3, <3>1 DEF Row
  <2> QED
    BY <2>1, <2>2, <2>3
<1>2. x # NoRow
  BY TransactionAssumption
<1> QED
  BY <1>1, <1>2 DEF State

-----------------------------------------------------------------------------
(* The history of the plan                                                 *)

(* A row is stamped no later than the states that show it, and changes     *)
(* only to a row with a later stamp.                                       *)
HistoryOK ==
  /\ \A k \in Version, i \in Ids : hist[k][i] # NoRow => hist[k][i].at <= k
  /\ \A k, l \in Version, i \in Ids :
       k <= l => hist[l][i] = hist[k][i] \/ (hist[l][i] # NoRow /\ hist[l][i].at > k)

(* A served response shows a state of the plan.                            *)
RepliesExist == \A r \in Readers : pc[r] = "served" => reply[r] \in Version

TypeInv == TypeOK /\ Len(hist) >= 1 /\ RepliesExist

LEMMA ChangeAppends ==
  ASSUME TypeInv, Change
  PROVE  \E s \in State :
           /\ \A i \in Ids : s[i] = hist[Len(hist)][i]
                             \/ (s[i] # NoRow /\ s[i].at = Len(hist) + 1)
           /\ hist' \in Seq(State) /\ Len(hist') = Len(hist) + 1
           /\ hist'[Len(hist) + 1] = s
           /\ \A k \in Version : hist'[k] = hist[k]
<1>1. PICK s \in Successors(hist[Len(hist)], Len(hist) + 1) : hist' = Append(hist, s)
  BY DEF Change
<1>2. hist \in Seq(State) /\ Len(hist) \in Nat \ {0} /\ hist[Len(hist)] \in State
  BY DEF TypeInv, TypeOK
<1>3. /\ s \in State
      /\ \A i \in Ids : s[i] = hist[Len(hist)][i] \/ (s[i] # NoRow /\ s[i].at = Len(hist) + 1)
  BY <1>2, SuccessorsType
<1> QED
  BY <1>1, <1>2, <1>3 DEF Version

LEMMA HistoryInit == Init => HistoryOK
<1> SUFFICES ASSUME Init PROVE HistoryOK
  OBVIOUS
<1>1. PICK s \in InitialStates : hist = <<s>>
  BY DEF Init
<1>2. \A k \in Version : k = 1 /\ hist[k] = s
  BY <1>1 DEF Version
<1>3. \A i \in Ids : s[i] # NoRow => s[i].at = 1
  BY DEF InitialStates
<1> QED
  BY <1>2, <1>3 DEF HistoryOK

LEMMA HistoryStep ==
  ASSUME TypeInv, HistoryOK, Change
  PROVE  HistoryOK'
<1> DEFINE n == Len(hist)
<1>1. PICK s \in State :
        /\ \A i \in Ids : s[i] = hist[n][i] \/ (s[i] # NoRow /\ s[i].at = n + 1)
        /\ Len(hist') = n + 1 /\ hist'[n + 1] = s
        /\ \A k \in Version : hist'[k] = hist[k]
  BY ChangeAppends
<1>2. n \in Nat \ {0} /\ n \in Version
  BY DEF TypeInv, TypeOK, Version
<1>3. ASSUME NEW k \in Version', NEW i \in Ids, hist'[k][i] # NoRow
      PROVE  hist'[k][i].at <= k
  <2>1. CASE k \in Version
    BY <1>1, <1>3, <2>1 DEF HistoryOK
  <2>2. CASE k = n + 1
    <3>1. hist[n][i] # NoRow => hist[n][i].at \in Nat /\ hist[n][i].at <= n
      BY <1>2 DEF HistoryOK, TypeInv, TypeOK, State, Row
    <3> QED
      BY <1>1, <1>2, <1>3, <2>2, <3>1
  <2> QED
    BY <1>1, <1>2, <2>1, <2>2 DEF Version
<1>4. ASSUME NEW k \in Version', NEW l \in Version', NEW i \in Ids, k <= l
      PROVE  hist'[l][i] = hist'[k][i] \/ (hist'[l][i] # NoRow /\ hist'[l][i].at > k)
  <2>1. CASE l \in Version
    <3>1. k \in Version
      BY <1>1, <1>2, <1>4, <2>1 DEF Version
    <3> QED
      BY <1>1, <1>4, <2>1, <3>1 DEF HistoryOK
  <2>2. CASE l = n + 1 /\ k \in Version
    <3>1. hist[n][i] = hist[k][i] \/ (hist[n][i] # NoRow /\ hist[n][i].at > k)
      BY <1>2, <2>2 DEF HistoryOK, Version
    <3>2. k <= n /\ k \in Nat
      BY <2>2, <1>2 DEF Version
    <3> QED
      BY <1>1, <1>2, <2>2, <3>1, <3>2
  <2>3. CASE l = n + 1 /\ k = n + 1
    BY <2>3
  <2> QED
    BY <1>1, <1>2, <2>1, <2>2, <2>3 DEF Version
<1> QED
  BY <1>3, <1>4 DEF HistoryOK

-----------------------------------------------------------------------------
(* Type correctness                                                        *)

LEMMA TypeInit == Init => TypeInv
<1> SUFFICES ASSUME Init PROVE TypeInv
  OBVIOUS
<1>1. PICK s \in InitialStates : hist = <<s>>
  BY DEF Init
<1>2. s \in State
  <2> DEFINE First == [at : {1}, date : Dates, deleted : {FALSE}]
  <2>1. First \subseteq Row
    <3> SUFFICES ASSUME NEW x \in First PROVE x \in Row
      OBVIOUS
    <3>1. PICK d \in Dates : x = [at |-> 1, date |-> d, deleted |-> FALSE]
      OBVIOUS
    <3>2. [at |-> 1, date |-> d, deleted |-> FALSE] \in Row
      BY DEF Row
    <3> HIDE DEF First
    <3> QED
      BY <3>1, <3>2
  <2>2. s \in [Ids -> First \cup {NoRow}]
    BY <1>1 DEF InitialStates
  <2> HIDE DEF First
  <2> QED
    BY <2>1, <2>2 DEF State
<1>3. hist \in Seq(State) /\ Len(hist) = 1
  BY <1>1, <1>2
<1>4. entry \in Entry /\ NoItems \in Items
  BY EmptyEntryType DEF Init, NoItems, Items
<1>5. view \in [Readers -> Items] /\ TypeOK
  <2>1. view \in [Readers -> Items]
    BY <1>4 DEF Init
  <2> QED
    BY <1>3, <1>4, <2>1, TransactionAssumption DEF Init, TypeOK, Entry, Items, NoSince
<1> QED
  BY <1>3, <1>5 DEF Init, TypeInv, RepliesExist

(* What a call that finishes merges and returns.                           *)
LEMMA FinishType ==
  ASSUME TypeInv, NEW r \in Readers, pc[r] = "served"
  PROVE  /\ reply[r] \in Version /\ reply[r] \in Nat \ {0} /\ hist[reply[r]] \in State
         /\ Deltas(r) \in State
         /\ entry \in Entry
         /\ MergedItems(entry, reply[r], Deltas(r)) \in Items
         /\ MergedEntry(entry, reply[r], Deltas(r)) \in Entry
         /\ WithoutDeleted(Deltas(r)) \in Items
<1>1. reply[r] \in Version /\ reply[r] \in Nat \ {0} /\ hist[reply[r]] \in State
  BY DEF TypeInv, TypeOK, RepliesExist, Version
<1>2. Deltas(r) \in State
  BY <1>1, ResponseType DEF Deltas
<1>3. entry \in Entry
  BY DEF TypeInv, TypeOK, Entry, Items
<1> QED
  BY <1>1, <1>2, <1>3, MergedType, LiveRows

(* What the two kinds of call have in common: the window sent is not       *)
(* narrower than the one owed, and a call whose window list_transactions   *)
(* dropped is unfiltered and found the entry filled.                       *)
LEMMA BeginCases ==
  ASSUME TypeInv, NEW r \in Readers, NEW s \in Sinces \cup {NoSince}, NEW f \in BOOLEAN,
         ListTransactions(r, s, f) \/ Aggregate(r, s, f)
  PROVE  \E w, p \in Dates \cup {NoSince} :
           /\ Begin(r, s, f, w, p)
           /\ w <= p
           /\ f => w = p
           /\ w = NoSince /\ p # NoSince => ~ f /\ entry.knowledge > 0
           /\ ~ f /\ s = NoSince /\ entry.knowledge # 0 => w = NoSince
<1>1. /\ Sinces \subseteq Dates /\ DefaultSince \in Dates /\ Dates \subseteq Nat \ {0}
      /\ entry.knowledge \in Nat
  BY TransactionAssumption DEF TypeInv, TypeOK
<1>2. CASE Aggregate(r, s, f)
  <2>1. Begin(r, s, f, s, s) /\ (s # NoSince \/ f)
    BY <1>2 DEF Aggregate
  <2>2. s \in Dates \cup {NoSince} /\ s <= s
    BY <1>1 DEF NoSince
  <2> QED
    BY <2>1, <2>2
<1>3. CASE ListTransactions(r, s, f)
  <2> DEFINE w == Window(s, f)
             p == IF s = NoSince THEN DefaultSince ELSE s
  <2>1. Begin(r, s, f, w, p)
    BY <1>3 DEF ListTransactions
  <2>2. w \in Dates \cup {NoSince} /\ p \in Dates /\ w \in {NoSince, p}
    BY <1>1 DEF Window
  <2>3. /\ f => w = p
        /\ w = NoSince => ~ f /\ entry.knowledge > 0
        /\ ~ f /\ s = NoSince /\ entry.knowledge # 0 => w = NoSince
    BY <1>1 DEF Window, NoSince
  <2> HIDE DEF w, p
  <2>4. w <= p
    BY <1>1, <2>2 DEF NoSince
  <2> QED
    BY <2>1, <2>2, <2>3, <2>4
<1> QED
  BY <1>2, <1>3

LEMMA TypeStep == TypeInv /\ [Next]_vars => TypeInv'
<1> SUFFICES ASSUME TypeInv, [Next]_vars PROVE TypeInv'
  OBVIOUS
<1> USE TransactionAssumption
<1>0. TypeOK /\ Len(hist) \in Nat \ {0} /\ entry \in Entry /\ view \in [Readers -> Items]
      /\ NoItems \in Items
  BY DEF TypeInv, TypeOK, Entry, Items, NoItems
<1>1. CASE Change
  <2>1. hist' \in Seq(State) /\ Len(hist') = Len(hist) + 1
    BY <1>1, ChangeAppends
  <2>2. RepliesExist'
    BY <1>0, <1>1, <2>1 DEF Change, locals, RepliesExist, Version, TypeInv
  <2> QED
    BY <1>0, <1>1, <2>1, <2>2 DEF Change, locals, request, history, merged, TypeInv, TypeOK
<1>2. ASSUME NEW r \in Readers, NEW s \in Sinces \cup {NoSince}, NEW f \in BOOLEAN,
             ListTransactions(r, s, f) \/ Aggregate(r, s, f)
      PROVE  TypeInv'
  <2>1. PICK w, p \in Dates \cup {NoSince} : Begin(r, s, f, w, p)
    BY <1>2, BeginCases
  <2>2. view' \in [Readers -> Items]
    BY <1>0, <2>1 DEF Begin
  <2>3. RepliesExist'
    BY <1>0, <2>1 DEF Begin, TypeInv, TypeOK, RepliesExist, Version
  <2> QED
    BY <1>0, <2>1, <2>2, <2>3 DEF Begin, merged, TypeInv, TypeOK, Items
<1>3. ASSUME NEW r \in Readers, Build(r) PROVE TypeInv'
  <2>1. Cursor(filtered[r]) \in Nat
    BY <1>0 DEF Cursor, TypeOK
  <2>2. RepliesExist'
    BY <1>0, <1>3 DEF Build, TypeInv, TypeOK, RepliesExist, Version
  <2> QED
    BY <1>0, <1>3, <2>1, <2>2 DEF Build, history, merged, TypeInv, TypeOK
<1>4. ASSUME NEW r \in Readers, Serve(r) PROVE TypeInv'
  <2>1. RepliesExist'
    BY <1>0, <1>4 DEF Serve, TypeInv, TypeOK, RepliesExist, Version
  <2> QED
    BY <1>0, <1>4, <2>1 DEF Serve, request, history, merged, TypeInv, TypeOK
<1>5. ASSUME NEW r \in Readers, Finish(r) PROVE TypeInv'
  <2>1. pc[r] = "served"
    BY <1>5 DEF Finish
  <2>2. view' \in [Readers -> Items] /\ entry' \in Entry
    BY <1>0, <1>5, <2>1, FinishType DEF Finish
  <2>3. /\ primedFrom' \in Dates \cup {NoSince} /\ mixed' \in BOOLEAN
        /\ fit' \in [Readers -> BOOLEAN]
    <3>1. CASE UNCHANGED <<fit, merged>>
      BY <1>0, <3>1 DEF merged, TypeOK
    <3>2. CASE Record(r)
      <4>1. primedFrom' \in Dates \cup {NoSince}
        BY <1>0, <3>2 DEF Record, Covers, TypeOK
      <4>2. mixed' \in BOOLEAN
        BY <3>2 DEF Record
      <4>3. fit' \in [Readers -> BOOLEAN]
        BY <1>0, <3>2 DEF Record, TypeOK
      <4> QED
        BY <4>1, <4>2, <4>3
    <3> QED
      BY <1>5, <3>1, <3>2 DEF Finish
  <2>4. RepliesExist'
    BY <1>0, <1>5 DEF Finish, Return, TypeInv, TypeOK, RepliesExist, Version
  <2>5. pc' \in [Readers -> {"idle", "windowed", "asking", "served", "done", "failed"}]
    BY <1>0, <1>5 DEF Finish, TypeOK
  <2> QED
    BY <1>0, <1>5, <2>2, <2>3, <2>4, <2>5 DEF Finish, Return, TypeInv, TypeOK, Entry, Items
<1>6. ASSUME NEW r \in Readers, Fail(r) PROVE TypeInv'
  <2>1. RepliesExist'
    BY <1>0, <1>6 DEF Fail, Return, TypeInv, TypeOK, RepliesExist, Version
  <2> QED
    BY <1>0, <1>6, <2>1 DEF Fail, Return, merged, TypeInv, TypeOK
<1>7. CASE UNCHANGED vars
  BY <1>7 DEF vars, locals, request, history, merged, TypeInv, TypeOK, RepliesExist, Version
<1> QED
  BY <1>1, <1>2, <1>3, <1>4, <1>5, <1>6, <1>7 DEF Next

LEMMA TypeInvariance == Spec => []TypeInv
  BY TypeInit, TypeStep, PTL DEF Spec

(* Type correctness: in particular the cache holds live rows under their   *)
(* own ids, whatever calls do to each other.                               *)
THEOREM TypeCorrectness == Spec => []TypeOK
<1>1. TypeInv => TypeOK
  BY DEF TypeInv
<1> QED
  BY <1>1, TypeInvariance, PTL

-----------------------------------------------------------------------------
(* No revival                                                              *)

(* Every cached row was the plan's, no later than the entry's knowledge.   *)
EntryOK ==
  /\ entry.knowledge <= Len(hist)
  /\ entry.knowledge = 0 => entry.items = NoItems
  /\ \A i \in Ids : entry.items[i] # NoRow =>
       \E k \in Version : k <= entry.knowledge /\ entry.items[i] = hist[k][i]

HistInv == TypeInv /\ HistoryOK /\ EntryOK

(* The three ways a merge can go.                                          *)
LEMMA MergeCases ==
  ASSUME NEW e, NEW k, NEW d
  PROVE  \/ Regresses(e, k) /\ MergedEntry(e, k, d) = e
         \/ ~ Regresses(e, k) /\ Overflows(Apply(e.items, d)) /\ MergedEntry(e, k, d) = EmptyEntry
         \/ /\ ~ Regresses(e, k) /\ ~ Overflows(Apply(e.items, d))
            /\ MergedEntry(e, k, d) = [knowledge |-> k, items |-> Apply(e.items, d)]
BY DEF MergedEntry

(* What a merge that neither regresses nor overflows does to a row.        *)
LEMMA MergedRow ==
  ASSUME TypeInv, NEW r \in Readers, pc[r] = "served", NEW i \in Ids
  PROVE  LET x == hist[reply[r]][i]  y == Apply(entry.items, Deltas(r))[i]
         IN  \/ y = entry.items[i]
             \/ y = NoRow
             \/ y = x /\ x # NoRow
BY FinishType DEF Apply, Deltas, Response

LEMMA HistStep == HistInv /\ [Next]_vars => HistInv'
<1> SUFFICES ASSUME HistInv, [Next]_vars PROVE HistInv'
  OBVIOUS
<1>0. TypeInv /\ TypeInv' /\ Len(hist) \in Nat \ {0} /\ entry \in Entry
  BY TypeStep DEF HistInv, TypeInv, TypeOK, Entry, Items
<1>1. CASE Change
  <2>1. Len(hist') = Len(hist) + 1 /\ \A k \in Version : hist'[k] = hist[k]
    BY <1>0, <1>1, ChangeAppends
  <2>2. entry' = entry /\ \A k \in Version : k \in Version'
    BY <1>0, <1>1, <2>1 DEF Change, Version
  <2>3. EntryOK'
    <3>1. entry.knowledge \in Nat
      BY <1>0 DEF Entry
    <3>2. entry.knowledge <= Len(hist) + 1
      BY <1>0, <3>1 DEF HistInv, EntryOK
    <3> QED
      BY <2>1, <2>2, <3>2 DEF HistInv, EntryOK
  <2> QED
    BY <1>0, <1>1, <2>3, HistoryStep DEF HistInv
<1>2. ASSUME NEW r \in Readers, Finish(r), CanDeltaSync(filtered[r]) PROVE HistInv'
  <2>0. /\ pc[r] = "served" /\ hist' = hist
        /\ entry' = MergedEntry(entry, reply[r], Deltas(r))
    BY <1>2 DEF Finish, Return
  <2>1. reply[r] \in Version /\ reply[r] \in Nat \ {0} /\ entry.knowledge \in Nat
    BY <1>0, <2>0, FinishType DEF Entry
  <2>2. EntryOK'
    <3>1. CASE entry' = entry
      BY <2>0, <3>1 DEF HistInv, EntryOK, Version
    <3>2. CASE entry' = EmptyEntry
      BY <1>0, <2>0, <3>2 DEF EmptyEntry, NoItems, EntryOK
    <3>3. CASE ~ Regresses(entry, reply[r])
               /\ entry' = [knowledge |-> reply[r], items |-> Apply(entry.items, Deltas(r))]
      <4>1. entry.knowledge <= reply[r] /\ reply[r] <= Len(hist)
        BY <2>1, <3>3 DEF Regresses, Version
      <4>2. ASSUME NEW i \in Ids, entry'.items[i] # NoRow
            PROVE  \E k \in Version : k <= reply[r] /\ entry'.items[i] = hist[k][i]
        <5>1. entry'.items[i] = entry.items[i] \/ entry'.items[i] = hist[reply[r]][i]
          BY <1>0, <2>0, <3>3, <4>2, MergedRow
        <5>2. CASE entry'.items[i] = entry.items[i]
          <6>1. PICK k \in Version : k <= entry.knowledge /\ entry.items[i] = hist[k][i]
            BY <4>2, <5>2 DEF HistInv, EntryOK
          <6>2. k <= reply[r]
            BY <2>1, <4>1, <6>1 DEF Version
          <6> QED
            BY <5>2, <6>1, <6>2
        <5>3. CASE entry'.items[i] = hist[reply[r]][i]
          BY <2>1, <5>3
        <5> QED
          BY <5>1, <5>2, <5>3
      <4> QED
        BY <2>0, <2>1, <3>3, <4>1, <4>2 DEF EntryOK, Version
    <3> QED
      BY <2>0, <3>1, <3>2, <3>3, MergeCases
  <2> QED
    BY <1>0, <2>0, <2>2 DEF HistInv, HistoryOK, Version
<1>3. CASE UNCHANGED <<hist, entry>>
  BY <1>0, <1>3 DEF HistInv, HistoryOK, EntryOK, Version
<1> QED
  BY <1>1, <1>2, <1>3 DEF Next, vars, ListTransactions, Aggregate, Begin, Build, Serve, Finish,
     Fail, Return

LEMMA HistInit == Init => HistInv
<1> SUFFICES ASSUME Init PROVE HistInv
  OBVIOUS
<1>1. TypeInv /\ HistoryOK
  BY TypeInit, HistoryInit
<1>2. Len(hist) \in Nat
  BY <1>1 DEF TypeInv, TypeOK
<1>3. EntryOK
  BY <1>2 DEF Init, EntryOK, EmptyEntry, NoItems
<1> QED
  BY <1>1, <1>3 DEF HistInv

LEMMA HistInvariance == Spec => []HistInv
  BY HistInit, HistStep, PTL DEF Spec

(* No late response brings back an older version of a transaction, nor a   *)
(* deleted one.                                                            *)
THEOREM NothingRevived == Spec => NoRevival
<1> DEFINE Moves ==
      \A i \in Ids :
        entry.items[i] # entry'.items[i] /\ entry'.items[i] # NoRow =>
          /\ entry.items[i] # NoRow => entry'.items[i].at > entry.items[i].at
          /\ hist[entry'.knowledge][i] = entry'.items[i]
<1>1. HistInv /\ [Next]_vars => [Moves]_vars
  <2> SUFFICES ASSUME HistInv, [Next]_vars, NEW i \in Ids,
                      entry.items[i] # entry'.items[i], entry'.items[i] # NoRow
               PROVE  /\ entry.items[i] # NoRow => entry'.items[i].at > entry.items[i].at
                      /\ hist[entry'.knowledge][i] = entry'.items[i]
    OBVIOUS
  <2>0. PICK r \in Readers : Finish(r) /\ CanDeltaSync(filtered[r])
    BY DEF Next, vars, Change, ListTransactions, Aggregate, Begin, Build, Serve, Finish, Fail
  <2>1. /\ pc[r] = "served"
        /\ entry' = MergedEntry(entry, reply[r], Deltas(r))
    BY <2>0 DEF Finish
  <2>2. reply[r] \in Version /\ reply[r] \in Nat \ {0} /\ entry.knowledge \in Nat
    BY <2>1, FinishType DEF Entry, HistInv
  <2>3. /\ ~ Regresses(entry, reply[r])
        /\ entry' = [knowledge |-> reply[r], items |-> Apply(entry.items, Deltas(r))]
    BY <2>1, MergeCases DEF EmptyEntry, NoItems
  <2>4. entry'.items[i] = hist[reply[r]][i] /\ entry'.knowledge = reply[r]
    BY <2>1, <2>3, MergedRow DEF HistInv
  <2>5. ASSUME entry.items[i] # NoRow
        PROVE  entry'.items[i].at > entry.items[i].at
    <3>1. PICK k \in Version : k <= entry.knowledge /\ entry.items[i] = hist[k][i]
      BY <2>5 DEF HistInv, EntryOK
    <3>2. k <= reply[r]
      BY <2>2, <2>3, <3>1 DEF Regresses, Version
    <3>3. hist[reply[r]][i].at > k /\ hist[k][i].at <= k
      BY <2>2, <2>4, <2>5, <3>1, <3>2 DEF HistInv, HistoryOK
    <3>4. hist[k][i] \in Row /\ hist[reply[r]][i] \in Row
      BY <2>2, <2>4, <2>5, <3>1 DEF HistInv, TypeInv, TypeOK, State, Version
    <3> QED
      BY <2>4, <3>1, <3>3, <3>4 DEF Row, Version
  <2> QED
    BY <2>4, <2>5
<1> QED
  BY <1>1, HistInvariance, PTL DEF Spec, NoRevival

-----------------------------------------------------------------------------
(* What a response is to a window and to the entry                         *)

(* The live rows of a full response for a window are the window's.         *)
LEMMA FullResponse ==
  ASSUME NEW s \in State, NEW w
  PROVE  LET rows == WithoutDeleted(Response(s, 0, w))
         IN  From(rows, w) = From(WithoutDeleted(s), w) /\ rows = From(rows, w)
<1> DEFINE rows == WithoutDeleted(Response(s, 0, w))
<1>1. ASSUME NEW i \in Ids
      PROVE  /\ From(rows, w)[i] = From(WithoutDeleted(s), w)[i]
             /\ rows[i] = From(rows, w)[i]
  <2>1. s[i] \in Row \cup {NoRow}
    BY DEF State
  <2>2. s[i] \in Row => s[i].at > 0 /\ s[i] # NoRow
    BY TransactionAssumption DEF Row
  <2> QED
    BY <2>1, <2>2 DEF From, WithoutDeleted, Response, Delivered
<1>2. /\ From(rows, w) = [i \in Ids |-> From(rows, w)[i]]
      /\ From(WithoutDeleted(s), w) = [i \in Ids |-> From(WithoutDeleted(s), w)[i]]
      /\ rows = [i \in Ids |-> rows[i]]
  BY DEF From, WithoutDeleted
<1> HIDE DEF rows
<1>3. From(rows, w) = From(WithoutDeleted(s), w) /\ rows = From(rows, w)
  BY <1>1, <1>2, Zenon
<1> QED
  BY <1>3 DEF rows

(* What a call read stays so while the plan goes on.                       *)
LEMMA ShownForever ==
  ASSUME TypeInv, NEW r \in Readers, start[r] >= 1, NEW w, ShowsWindow(r, w),
         view'[r] = view[r], start'[r] = start[r],
         hist' = hist \/ Change
  PROVE  ShowsWindow(r, w)'
<1>1. PICK k \in start[r]..Len(hist) : From(view[r], w) = From(WithoutDeleted(hist[k]), w)
  BY DEF ShowsWindow
<1>2. CASE hist' = hist
  BY <1>1, <1>2 DEF ShowsWindow
<1>3. CASE Change
  <2>1. Len(hist) \in Nat \ {0} /\ start[r] \in Nat
    BY DEF TypeInv, TypeOK
  <2>2. k \in start[r]..Len(hist') /\ hist'[k] = hist[k]
    BY <1>3, <2>1, ChangeAppends DEF Version
  <2> QED
    BY <1>1, <2>2 DEF ShowsWindow
<1> QED
  BY <1>2, <1>3

(* The fields of a row are numbers.                                        *)
LEMMA RowFields ==
  ASSUME NEW x \in Row
  PROVE  x # NoRow /\ x.at \in Nat \ {0} /\ x.date \in Nat /\ x.date >= NoSince
<1>1. x.at \in Nat \ {0} /\ x.date \in Dates
  BY DEF Row
<1>2. x # NoRow
  BY TransactionAssumption
<1>3. x.date \in Nat
  BY <1>1, TransactionAssumption
<1> QED
  BY <1>1, <1>2, <1>3 DEF NoSince

(* Two sets of rows that agree from w on agree from any later date on.     *)
LEMMA Narrower ==
  ASSUME NEW a, NEW b, NEW w \in Nat, NEW v \in Nat, w <= v,
         \A i \in Ids : a[i] # NoRow => a[i].date \in Nat,
         \A i \in Ids : b[i] # NoRow => b[i].date \in Nat,
         From(a, w) = From(b, w)
  PROVE  From(a, v) = From(b, v)
<1>1. ASSUME NEW i \in Ids PROVE From(a, v)[i] = From(b, v)[i]
  <2>1. From(a, w)[i] = From(b, w)[i]
    OBVIOUS
  <2>2. /\ From(a, w)[i] = IF a[i] # NoRow /\ a[i].date >= w THEN a[i] ELSE NoRow
        /\ From(b, w)[i] = IF b[i] # NoRow /\ b[i].date >= w THEN b[i] ELSE NoRow
        /\ From(a, v)[i] = IF a[i] # NoRow /\ a[i].date >= v THEN a[i] ELSE NoRow
        /\ From(b, v)[i] = IF b[i] # NoRow /\ b[i].date >= v THEN b[i] ELSE NoRow
    BY DEF From
  <2>3. /\ a[i] # NoRow /\ a[i].date >= v => a[i].date >= w
        /\ b[i] # NoRow /\ b[i].date >= v => b[i].date >= w
    OBVIOUS
  <2> QED
    BY <2>1, <2>2, <2>3
<1> QED
  BY <1>1 DEF From

(* A first response fills the entry with its window.                       *)
LEMMA Fill ==
  ASSUME NEW s \in State, NEW w \in Nat, NEW v \in Nat, w <= v
  PROVE  From(Apply(NoItems, Response(s, 0, w)), v) = From(WithoutDeleted(s), v)
<1> DEFINE rows == Apply(NoItems, Response(s, 0, w))
<1>1. ASSUME NEW i \in Ids PROVE From(rows, v)[i] = From(WithoutDeleted(s), v)[i]
  <2>1. s[i] \in Row \cup {NoRow} /\ Dates \subseteq Nat
    BY TransactionAssumption DEF State
  <2>2. s[i] \in Row => s[i].at > 0 /\ s[i].date \in Nat /\ s[i] # NoRow
    BY <2>1, RowFields
  <2>3. CASE s[i] = NoRow
    BY <2>3 DEF From, WithoutDeleted, Response, Delivered, Apply, NoItems
  <2>4. CASE s[i] # NoRow /\ s[i].date >= v
    <3>1. s[i].date >= w /\ s[i].at > 0
      BY <2>1, <2>2, <2>4
    <3> QED
      BY <2>4, <3>1 DEF From, WithoutDeleted, Response, Delivered, Apply, NoItems
  <2>5. CASE s[i] # NoRow /\ ~ (s[i].date >= v)
    BY <2>5 DEF From, WithoutDeleted, Response, Delivered, Apply, NoItems
  <2> QED
    BY <2>3, <2>4, <2>5
<1> QED
  BY <1>1 DEF From

(* The rows changed since a cursor, in whatever window, bring an entry     *)
(* that is not behind the cursor up to the state the response shows.       *)
LEMMA CatchUp ==
  ASSUME TypeInv, HistoryOK, NEW K \in Version, NEW l \in Version, K <= l,
         NEW c \in Nat, 0 < c, c <= K, NEW items \in Items, NEW w,
         From(items, w) = From(WithoutDeleted(hist[K]), w)
  PROVE  From(Apply(items, Response(hist[l], c, NoSince)), w) = From(WithoutDeleted(hist[l]), w)
<1> DEFINE d == Response(hist[l], c, NoSince)
<1>0. hist[K] \in State /\ hist[l] \in State /\ K \in Nat /\ l \in Nat
  BY DEF TypeInv, TypeOK, Version
<1>1. ASSUME NEW i \in Ids
      PROVE  From(Apply(items, d), w)[i] = From(WithoutDeleted(hist[l]), w)[i]
  <2> DEFINE x == hist[l][i]
  <2>1. x \in Row \cup {NoRow}
    BY <1>0 DEF State
  <2>2. x \in Row => x # NoRow /\ x.at \in Nat /\ x.date >= NoSince
    BY RowFields
  <2>3. x = hist[K][i] \/ (x # NoRow /\ x.at > K)
    BY DEF HistoryOK
  <2>4. CASE x # NoRow /\ x.at > c
    <3>1. Delivered(hist[l], i, c, NoSince)
      BY <2>1, <2>2, <2>4 DEF Delivered
    <3>2. d[i] = x
      BY <3>1 DEF Response
    <3>3. Apply(items, d)[i] = WithoutDeleted(hist[l])[i]
      BY <2>4, <3>2 DEF Apply, WithoutDeleted
    <3> QED
      BY <3>3 DEF From
  <2>5. CASE ~ (x # NoRow /\ x.at > c)
    <3>1. x = hist[K][i]
      BY <1>0, <2>1, <2>2, <2>3, <2>5
    <3>2. d[i] = NoRow
      BY <2>5 DEF Response, Delivered
    <3>3. Apply(items, d)[i] = items[i]
      BY <3>2 DEF Apply
    <3>4. From(Apply(items, d), w)[i] = From(items, w)[i]
      BY <3>3 DEF From
    <3>5. From(items, w)[i] = From(WithoutDeleted(hist[K]), w)[i]
      OBVIOUS
    <3>6. WithoutDeleted(hist[K])[i] = WithoutDeleted(hist[l])[i]
      BY <3>1 DEF WithoutDeleted
    <3>7. From(WithoutDeleted(hist[K]), w)[i] = From(WithoutDeleted(hist[l]), w)[i]
      BY <3>6 DEF From
    <3> QED
      BY <3>4, <3>5, <3>7
  <2> QED
    BY <2>4, <2>5
<1> QED
  BY <1>1 DEF From

-----------------------------------------------------------------------------
(* Calls                                                                   *)

(* What a call has asked for, and that its answer is not older than the    *)
(* call and, if it was filtered or the entry fit for it, exact.            *)
CallOK(r) ==
  /\ start[r] \in Version
  /\ pc[r] = "served" => reply[r] >= start[r]
  /\ pc[r] \in Busy /\ filtered[r] => since[r] = promised[r] /\ cursor[r] = 0
  /\ pc[r] \in Busy => since[r] <= promised[r]
  /\ pc[r] \in Busy /\ ~ filtered[r] /\ wanted[r] = NoSince /\ ~ cold[r] => since[r] = NoSince
  /\ pc[r] = "done" /\ (filtered[r] \/ fit[r]) => ShowsWindow(r, promised[r])
  /\ pc[r] = "done" /\ filtered[r] => view[r] = From(view[r], promised[r])

(* Unless misfits were merged, the entry is exact from the date it was     *)
(* filled from.                                                            *)
PrimedOK ==
  ~ mixed /\ entry.knowledge > 0 =>
    From(entry.items, primedFrom) = From(WithoutDeleted(hist[entry.knowledge]), primedFrom)

ExactInv == HistInv /\ PrimedOK /\ \A r \in Readers : CallOK(r)

(* Steps that are not a call's own leave its part alone.                   *)
LEMMA CallKept ==
  ASSUME TypeInv, NEW r \in Readers, CallOK(r), hist' = hist \/ Change,
         pc'[r] = pc[r], wanted'[r] = wanted[r], filtered'[r] = filtered[r],
         since'[r] = since[r], cursor'[r] = cursor[r], reply'[r] = reply[r],
         view'[r] = view[r], promised'[r] = promised[r], start'[r] = start[r],
         cold'[r] = cold[r], fit'[r] = fit[r]
  PROVE  CallOK(r)'
<1>1. Len(hist) \in Nat \ {0} /\ start[r] \in Nat /\ start[r] >= 1
  BY DEF TypeInv, TypeOK, CallOK, Version
<1>2. start'[r] \in Version'
  BY <1>1, ChangeAppends DEF CallOK, Version
<1>3. pc[r] = "done" /\ (filtered[r] \/ fit[r]) => ShowsWindow(r, promised[r])'
  <2> SUFFICES ASSUME pc[r] = "done", filtered[r] \/ fit[r] PROVE ShowsWindow(r, promised[r])'
    OBVIOUS
  <2> DEFINE w == promised[r]
  <2>1. ShowsWindow(r, w) /\ w' = w
    BY DEF CallOK
  <2> HIDE DEF w
  <2>2. ShowsWindow(r, w)'
    BY <1>1, <2>1, ShownForever
  <2> QED
    BY <2>2 DEF w
<1>4. From(view[r], promised[r])' = From(view[r], promised[r])
  BY DEF From
<1> QED
  BY <1>2, <1>3, <1>4 DEF CallOK

(* A call that ends with rows that show its window from a state it could   *)
(* have seen is exact.                                                     *)
LEMMA Shown ==
  ASSUME NEW r \in Readers, NEW k \in start[r]..Len(hist), UNCHANGED <<hist, promised, start>>,
         From(view'[r], promised[r]) = From(WithoutDeleted(hist[k]), promised[r])
  PROVE  ShowsWindow(r, promised[r])'
<1> DEFINE w == promised[r]
<1>1. w' = w
  OBVIOUS
<1>2. (From(view[r], w) = From(WithoutDeleted(hist[k]), w))'
  BY DEF WithoutDeleted, From
<1> HIDE DEF w
<1>3. ShowsWindow(r, w)'
  BY <1>1, <1>2 DEF ShowsWindow
<1> QED
  BY <1>3 DEF w

(* A filtered call that finishes shows its window.                         *)
LEMMA FilteredFinish ==
  ASSUME TypeInv, NEW r \in Readers, CallOK(r), Finish(r), filtered[r]
  PROVE  /\ ShowsWindow(r, promised[r])'
         /\ (view[r] = From(view[r], promised[r]))'
<1>0. /\ pc[r] = "served" /\ view'[r] = WithoutDeleted(Deltas(r))
      /\ UNCHANGED <<hist, promised, start>>
  BY DEF Finish, Return, CanDeltaSync, TypeInv, TypeOK
<1>1. reply[r] \in Version /\ hist[reply[r]] \in State
  BY <1>0, FinishType
<1>2. view'[r] = WithoutDeleted(Response(hist[reply[r]], 0, promised[r]))
  BY <1>0 DEF CallOK, Deltas, Busy
<1>3. /\ From(view'[r], promised[r]) = From(WithoutDeleted(hist[reply[r]]), promised[r])
      /\ view'[r] = From(view'[r], promised[r])
  BY <1>1, <1>2, FullResponse
<1>4. reply[r] \in start[r]..Len(hist)
  BY <1>0, <1>1 DEF CallOK, Version
<1>5. ShowsWindow(r, promised[r])'
  BY <1>0, <1>3, <1>4, Shown
<1>6. (view[r] = From(view[r], promised[r]))'
  BY <1>0, <1>3 DEF From
<1> QED
  BY <1>5, <1>6

(* The step that matters: an unfiltered call that finishes and fits.       *)
(* Either it fills the entry, or its response is older than the entry, or  *)
(* it brings the entry up to date; the entry may overflow, but what the    *)
(* call returns is made before that.                                       *)
LEMMA ExactFinish ==
  ASSUME ExactInv, NEW r \in Readers, Finish(r), ~ filtered[r], ~ Mixes(r)
  PROVE  /\ entry'.knowledge > 0 =>
              From(entry'.items, Covers(r))
                = From(WithoutDeleted(hist[entry'.knowledge]), Covers(r))
         /\ Covers(r) <= promised[r] => ShowsWindow(r, promised[r])'
<1> DEFINE p == promised[r]
           d == Deltas(r)
           l == reply[r]
           w == Covers(r)
<1>0. /\ TypeInv /\ TypeOK /\ HistoryOK /\ EntryOK /\ CallOK(r) /\ PrimedOK
      /\ pc[r] = "served" /\ UNCHANGED <<hist, promised, start>>
      /\ view'[r] = MergedItems(entry, l, d) /\ entry' = MergedEntry(entry, l, d)
      /\ ~ mixed /\ ~ Misfits(r)
  BY DEF ExactInv, HistInv, TypeInv, TypeOK, Finish, CanDeltaSync, Return, Mixes
<1>1. /\ l \in Version /\ l \in Nat \ {0} /\ hist[l] \in State /\ entry \in Entry
      /\ entry.knowledge \in Nat /\ entry.items \in Items /\ l >= start[r]
      /\ start[r] \in Nat /\ Len(hist) \in Nat
  BY <1>0, FinishType DEF Entry, CallOK, TypeOK
<1>2. p \in Nat /\ since[r] \in Nat /\ primedFrom \in Nat /\ cursor[r] \in Nat /\ w \in Nat
  <2>1. Dates \subseteq Nat /\ NoSince \in Nat
    BY TransactionAssumption DEF NoSince
  <2> QED
    BY <1>0, <2>1 DEF TypeOK, Covers
<1>3. \A items \in Items, i \in Ids : items[i] # NoRow => items[i].date \in Nat
  BY TransactionAssumption DEF Items, LiveRow, Row
<1>4. \A k \in Version : WithoutDeleted(hist[k]) \in Items
  BY <1>0, LiveRows DEF TypeOK, Version
<1>5. ASSUME NEW k \in start[r]..Len(hist), k \in Version, w <= p, view'[r] \in Items,
             From(view'[r], w) = From(WithoutDeleted(hist[k]), w)
      PROVE  ShowsWindow(r, promised[r])'
  <2>1. From(view'[r], p) = From(WithoutDeleted(hist[k]), p)
    BY <1>2, <1>3, <1>4, <1>5, Narrower
  <2> QED
    BY <1>0, <2>1, Shown
<1>6. CASE entry.knowledge = 0
  <2>1. cursor[r] = 0 /\ entry.items = NoItems /\ w = since[r] /\ ~ Regresses(entry, l)
    BY <1>0, <1>2, <1>6 DEF Misfits, EntryOK, Covers, Regresses
  <2>2. d = Response(hist[l], 0, w)
    BY <2>1 DEF Deltas
  <2>3. view'[r] = Apply(NoItems, d) /\ Apply(NoItems, d) \in Items
    BY <1>0, <1>1, <2>1, FinishType, LiveRows DEF MergedItems
  <2>4. entry'.knowledge > 0 => entry' = [knowledge |-> l, items |-> Apply(NoItems, d)]
    BY <1>0, <2>1, MergeCases DEF EmptyEntry
  <2> HIDE DEF d, w
  <2>5. From(Apply(NoItems, d), w) = From(WithoutDeleted(hist[l]), w)
    BY <1>1, <1>2, <2>2, Fill
  <2>6. l \in start[r]..Len(hist)
    BY <1>1 DEF Version
  <2> QED
    BY <1>1, <1>5, <2>3, <2>4, <2>5, <2>6 DEF w
<1>7. CASE entry.knowledge > 0
  <2>0. /\ w = primedFrom /\ entry.knowledge \in Version
        /\ From(entry.items, w) = From(WithoutDeleted(hist[entry.knowledge]), w)
    BY <1>0, <1>1, <1>7 DEF PrimedOK, EntryOK, Version, Covers
  <2>1. CASE Regresses(entry, l)
    <3>1. view'[r] = entry.items /\ entry' = entry /\ entry.knowledge \in start[r]..Len(hist)
      BY <1>0, <1>1, <2>0, <2>1 DEF MergedItems, MergedEntry, Regresses, Version
    <3> QED
      BY <1>1, <1>5, <2>0, <3>1
  <2>2. CASE ~ Regresses(entry, l)
    <3>1. /\ wanted[r] = NoSince /\ ~ cold[r] /\ cursor[r] # 0 /\ ~ (cursor[r] > entry.knowledge)
          /\ ~ (l < entry.knowledge)
      BY <1>0, <1>7, <2>2 DEF Misfits, Regresses
    <3>2. since[r] = NoSince
      BY <1>0, <3>1 DEF CallOK, Busy
    <3>3. 0 < cursor[r] /\ cursor[r] <= entry.knowledge /\ entry.knowledge <= l
      BY <1>1, <1>2, <3>1
    <3>4. view'[r] = Apply(entry.items, d) /\ Apply(entry.items, d) \in Items
      BY <1>0, <1>1, <2>2, FinishType, LiveRows DEF MergedItems
    <3>5. entry'.knowledge > 0 => entry' = [knowledge |-> l, items |-> Apply(entry.items, d)]
      BY <1>0, <2>2, MergeCases DEF EmptyEntry
    <3>6. d = Response(hist[l], cursor[r], NoSince)
      BY <3>2 DEF Deltas
    <3> HIDE DEF d, w
    <3>7. From(Apply(entry.items, d), w) = From(WithoutDeleted(hist[l]), w)
      BY <1>0, <1>1, <1>2, <2>0, <3>3, <3>6, CatchUp
    <3>8. l \in start[r]..Len(hist)
      BY <1>1 DEF Version
    <3> QED
      BY <1>1, <1>5, <3>4, <3>5, <3>7, <3>8 DEF w
  <2> QED
    BY <2>1, <2>2
<1> QED
  BY <1>1, <1>6, <1>7

LEMMA ExactInit == Init => ExactInv
<1> SUFFICES ASSUME Init PROVE ExactInv
  OBVIOUS
<1>1. HistInv /\ Len(hist) \in Nat /\ Len(hist) >= 1
  BY HistInit DEF HistInv, TypeInv, TypeOK
<1> QED
  BY <1>1 DEF Init, EmptyEntry, ExactInv, PrimedOK, CallOK, Version, Busy

LEMMA CallStep == ExactInv /\ [Next]_vars => \A d \in Readers : CallOK(d)'
<1> SUFFICES ASSUME ExactInv, [Next]_vars, NEW d \in Readers PROVE CallOK(d)'
  OBVIOUS
<1>0. TypeInv /\ TypeOK /\ CallOK(d) /\ Len(hist) \in Nat \ {0}
  BY DEF ExactInv, HistInv, TypeInv, TypeOK
<1>1. CASE Change \/ UNCHANGED vars
  BY <1>0, <1>1, CallKept DEF Change, vars, locals, request, history
<1>2. ASSUME NEW r \in Readers, NEW s \in Sinces \cup {NoSince}, NEW f \in BOOLEAN,
             ListTransactions(r, s, f) \/ Aggregate(r, s, f)
      PROVE  CallOK(d)'
  <2>0. PICK w, p \in Dates \cup {NoSince} :
          /\ Begin(r, s, f, w, p)
          /\ w <= p
          /\ f => w = p
          /\ ~ f /\ s = NoSince /\ entry.knowledge # 0 => w = NoSince
    BY <1>0, <1>2, BeginCases
  <2>1. CASE d # r
    BY <1>0, <2>0, <2>1, CallKept DEF Begin, TypeOK
  <2>2. CASE d = r
    <3>1. /\ pc[d] \in {"idle", "done", "failed"} /\ pc'[d] = "windowed"
          /\ start'[d] = Len(hist) /\ hist' = hist /\ filtered'[d] = f /\ wanted'[d] = s
          /\ since'[d] = w /\ promised'[d] = p /\ cursor'[d] = 0
          /\ cold'[d] = (~ f /\ entry.knowledge = 0)
      BY <1>0, <2>0, <2>2 DEF Begin, TypeOK
    <3>2. start'[d] \in Version'
      BY <1>0, <3>1 DEF Version
    <3>3. ~ f /\ s = NoSince /\ ~ cold'[d] => w = NoSince
      BY <2>0, <3>1
    <3> QED
      BY <2>0, <3>1, <3>2, <3>3 DEF CallOK, Busy
  <2> QED
    BY <2>1, <2>2
<1>3. ASSUME NEW r \in Readers, Build(r) PROVE CallOK(d)'
  <2>1. CASE d # r
    BY <1>0, <1>3, <2>1, CallKept DEF Build, history, TypeOK
  <2>2. CASE d = r
    BY <1>0, <1>3, <2>2 DEF Build, history, TypeOK, CallOK, Version, Busy, Cursor, CanDeltaSync
  <2> QED
    BY <2>1, <2>2
<1>4. ASSUME NEW r \in Readers, Serve(r) PROVE CallOK(d)'
  <2>1. CASE d # r
    BY <1>0, <1>4, <2>1, CallKept DEF Serve, request, history, TypeOK
  <2>2. CASE d = r
    BY <1>0, <1>4, <2>2 DEF Serve, request, history, TypeOK, CallOK, Version, Busy
  <2> QED
    BY <2>1, <2>2
<1>5. ASSUME NEW r \in Readers, Finish(r) PROVE CallOK(d)'
  <2>1. CASE d # r
    <3>1. fit'[d] = fit[d]
      BY <1>0, <1>5, <2>1 DEF Finish, Record, TypeOK
    <3> QED
      BY <1>0, <1>5, <2>1, <3>1, CallKept DEF Finish, Return, TypeOK
  <2>2. CASE d = r
    <3>1. /\ pc'[d] = "done" /\ UNCHANGED <<hist, filtered, promised, start>>
      BY <1>0, <1>5, <2>2 DEF Finish, Return, TypeOK
    <3>2. CASE filtered[d]
      <4>1. ShowsWindow(d, promised[d])' /\ (view[d] = From(view[d], promised[d]))'
        BY <1>0, <1>5, <2>2, <3>2, FilteredFinish
      <4> QED
        BY <1>0, <3>1, <4>1 DEF CallOK, Version, Busy
    <3>3. CASE ~ filtered[d]
      <4>1. fit'[d] = (~ Mixes(d) /\ Covers(d) <= promised[d])
        BY <1>0, <1>5, <2>2, <3>3 DEF Finish, Record, CanDeltaSync, TypeOK
      <4>2. fit'[d] => ShowsWindow(d, promised[d])'
        BY <1>5, <2>2, <3>3, <4>1, ExactFinish
      <4> QED
        BY <1>0, <3>1, <3>3, <4>2 DEF CallOK, Version, Busy
    <3> QED
      BY <3>2, <3>3
  <2> QED
    BY <2>1, <2>2
<1>6. ASSUME NEW r \in Readers, Fail(r) PROVE CallOK(d)'
  <2>1. CASE d # r
    BY <1>0, <1>6, <2>1, CallKept DEF Fail, Return, TypeOK
  <2>2. CASE d = r
    BY <1>0, <1>6, <2>2 DEF Fail, Return, TypeOK, CallOK, Version, Busy
  <2> QED
    BY <2>1, <2>2
<1> QED
  BY <1>1, <1>2, <1>3, <1>4, <1>5, <1>6 DEF Next

LEMMA ExactStep == ExactInv /\ [Next]_vars => ExactInv'
<1> SUFFICES ASSUME ExactInv, [Next]_vars PROVE ExactInv'
  OBVIOUS
<1>0. /\ TypeInv /\ TypeOK /\ EntryOK /\ PrimedOK /\ HistInv
      /\ Len(hist) \in Nat \ {0} /\ entry.knowledge \in Nat
  BY DEF ExactInv, HistInv, TypeInv, TypeOK
<1>1. HistInv' /\ \A d \in Readers : CallOK(d)'
  BY <1>0, HistStep, CallStep
<1> SUFFICES PrimedOK'
  BY <1>1 DEF ExactInv
<1>2. CASE Change
  <2>1. entry.knowledge > 0 => hist'[entry.knowledge] = hist[entry.knowledge]
    BY <1>0, <1>2, ChangeAppends DEF EntryOK, Version
  <2> QED
    BY <1>0, <1>2, <2>1 DEF Change, merged, PrimedOK
<1>3. ASSUME NEW r \in Readers, Finish(r), ~ filtered[r] PROVE PrimedOK'
  <2> SUFFICES ASSUME ~ mixed', entry'.knowledge > 0
               PROVE  From(entry'.items, primedFrom')
                        = From(WithoutDeleted(hist'[entry'.knowledge]), primedFrom')
    BY DEF PrimedOK, From, WithoutDeleted
  <2>1. ~ Mixes(r) /\ primedFrom' = Covers(r) /\ hist' = hist
    BY <1>3 DEF Finish, Record, Return, CanDeltaSync
  <2> QED
    BY <1>3, <2>1, ExactFinish
<1>4. CASE UNCHANGED <<hist, entry, merged>>
  BY <1>0, <1>4 DEF merged, PrimedOK
<1>5. ASSUME NEW r \in Readers, Finish(r), filtered[r] PROVE PrimedOK'
  BY <1>4, <1>5 DEF Finish, Return, CanDeltaSync
<1> QED
  BY <1>2, <1>3, <1>4, <1>5 DEF Next, vars, ListTransactions, Aggregate, Begin, Build, Serve,
     Fail, Return

LEMMA ExactInvariance == Spec => []ExactInv
  BY ExactInit, ExactStep, PTL DEF Spec

(* A call filtered by type or scope is exact, whatever the cache goes      *)
(* through and however small it is, also if it asks for the whole plan.    *)
THEOREM FilteredCallsExact == Spec => []FilteredReadsExact
<1>1. ExactInv => FilteredReadsExact
  BY DEF ExactInv, CallOK, FilteredReadsExact
<1> QED
  BY <1>1, ExactInvariance, PTL

(* Every call that ends on an entry fit for it is exact, for any number of *)
(* concurrent calls and however often the entry overflows.                 *)
THEOREM UnmixedCallsExact == Spec => []ExactUnlessMixed
<1>1. ExactInv => ExactUnlessMixed
  BY DEF ExactInv, CallOK, ExactUnlessMixed
<1> QED
  BY <1>1, ExactInvariance, PTL

-----------------------------------------------------------------------------
(* Unbounded requests                                                      *)

(* A call whose window list_transactions dropped is unfiltered, and found  *)
(* an entry that is still there or was flushed since.                      *)
DroppedOK(r) ==
  /\ pc[r] = "windowed" /\ since[r] = NoSince /\ promised[r] # NoSince =>
       ~ filtered[r] /\ (entry.knowledge > 0 \/ lost[r])
  /\ Unbounded(r) => lost[r]

DroppedInv == TypeInv /\ \A r \in Readers : DroppedOK(r)

(* A step that is not a call's own leaves the entry, or flushes it and     *)
(* marks the call.                                                         *)
LEMMA DroppedKept ==
  ASSUME NEW r \in Readers, DroppedOK(r),
         pc'[r] = pc[r], filtered'[r] = filtered[r], since'[r] = since[r],
         cursor'[r] = cursor[r], promised'[r] = promised[r],
         lost[r] => lost'[r],
         pc[r] = "windowed" /\ entry.knowledge > 0 => entry'.knowledge > 0 \/ lost'[r]
  PROVE  DroppedOK(r)'
BY DEF DroppedOK, Unbounded

LEMMA DroppedStep == DroppedInv /\ [Next]_vars => DroppedInv'
<1> SUFFICES ASSUME DroppedInv, [Next]_vars PROVE DroppedInv'
  OBVIOUS
<1>0. TypeInv /\ TypeInv' /\ TypeOK /\ entry.knowledge \in Nat /\ entry'.knowledge \in Nat
  BY TypeStep DEF DroppedInv, TypeInv, TypeOK
<1> SUFFICES ASSUME NEW d \in Readers PROVE DroppedOK(d)'
  BY <1>0 DEF DroppedInv
<1>k. DroppedOK(d)
  BY DEF DroppedInv
<1>1. CASE Change \/ UNCHANGED vars
  BY <1>k, <1>1, DroppedKept DEF Change, vars, locals, request, history
<1>2. ASSUME NEW r \in Readers, NEW s \in Sinces \cup {NoSince}, NEW f \in BOOLEAN,
             ListTransactions(r, s, f) \/ Aggregate(r, s, f)
      PROVE  DroppedOK(d)'
  <2>0. PICK w, p \in Dates \cup {NoSince} :
          /\ Begin(r, s, f, w, p)
          /\ w = NoSince /\ p # NoSince => ~ f /\ entry.knowledge > 0
    BY <1>0, <1>2, BeginCases
  <2>1. CASE d # r
    BY <1>0, <1>k, <2>0, <2>1, DroppedKept DEF Begin, TypeOK
  <2>2. CASE d = r
    <3>1. /\ pc'[d] = "windowed" /\ filtered'[d] = f /\ entry' = entry
          /\ since'[d] = w /\ promised'[d] = p
      BY <1>0, <2>0, <2>2 DEF Begin, TypeOK
    <3> QED
      BY <2>0, <3>1 DEF DroppedOK, Unbounded
  <2> QED
    BY <2>1, <2>2
<1>3. ASSUME NEW r \in Readers, Build(r) PROVE DroppedOK(d)'
  <2>1. CASE d # r
    BY <1>0, <1>k, <1>3, <2>1, DroppedKept DEF Build, history, TypeOK
  <2>2. CASE d = r
    <3>1. /\ pc[d] = "windowed" /\ pc'[d] = "asking" /\ cursor'[d] = Cursor(filtered[d])
          /\ UNCHANGED <<entry, since, filtered, promised, lost>>
      BY <1>0, <1>3, <2>2 DEF Build, history, TypeOK
    <3>2. ~ filtered[d] => Cursor(filtered[d]) = entry.knowledge
      BY DEF Cursor, CanDeltaSync
    <3> QED
      BY <1>0, <1>k, <3>1, <3>2 DEF DroppedOK, Unbounded
  <2> QED
    BY <2>1, <2>2
<1>4. ASSUME NEW r \in Readers, Serve(r) PROVE DroppedOK(d)'
  <2>1. CASE d # r
    BY <1>0, <1>k, <1>4, <2>1, DroppedKept DEF Serve, request, history, TypeOK
  <2>2. CASE d = r
    BY <1>0, <1>4, <2>2 DEF Serve, TypeOK, DroppedOK, Unbounded
  <2> QED
    BY <2>1, <2>2
<1>5. ASSUME NEW r \in Readers, Finish(r) \/ Fail(r) PROVE DroppedOK(d)'
  <2>1. CASE d # r
    <3>1. lost'[d] = (lost[d] \/ (pc[d] = "windowed" /\ entry.knowledge > 0 /\ entry'.knowledge = 0))
      BY <1>5, <2>1 DEF Finish, Fail, Return
    <3>2. /\ pc'[d] = pc[d] /\ since'[d] = since[d] /\ cursor'[d] = cursor[d]
          /\ UNCHANGED <<filtered, promised>>
      BY <1>0, <1>5, <2>1 DEF Finish, Fail, Return, TypeOK
    <3>3. lost[d] => lost'[d]
      BY <3>1, Zenon
    <3>4. pc[d] = "windowed" /\ entry.knowledge > 0 => entry'.knowledge > 0 \/ lost'[d]
      <4>1. entry'.knowledge = 0 \/ entry'.knowledge > 0
        BY <1>0
      <4> QED
        BY <3>1, <4>1, Zenon
    <3> QED
      BY <1>k, <3>2, <3>3, <3>4, DroppedKept
  <2>2. CASE d = r
    <3>1. pc'[d] \in {"done", "failed"}
      BY <1>0, <1>5, <2>2 DEF Finish, Fail, TypeOK
    <3> QED
      BY <3>1 DEF DroppedOK, Unbounded
  <2> QED
    BY <2>1, <2>2
<1> QED
  BY <1>1, <1>2, <1>3, <1>4, <1>5 DEF Next

(* The one way for list_transactions to send a request with neither window *)
(* nor cursor is a flush between its two readings of the knowledge, for    *)
(* any number of concurrent calls and any cap.                             *)
THEOREM OnlyFlushesUnbind == Spec => []UnboundedOnlyByFlush
<1>1. Init => DroppedInv
  BY TypeInit DEF Init, DroppedInv, DroppedOK, Unbounded
<1>2. DroppedInv => UnboundedOnlyByFlush
  BY DEF DroppedInv, DroppedOK, UnboundedOnlyByFlush
<1> QED
  BY <1>1, <1>2, DroppedStep, PTL DEF Spec
=============================================================================
