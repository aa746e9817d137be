------------------------ MODULE CategoryWritesProofs ------------------------
(***************************************************************************)
(* Theorems about CategoryWrites: for any number of concurrent calls, any  *)
(* amounts and any behaviour of other clients, nothing is sent to YNAB     *)
(* that was not checked and confirmed, and outcomes are reported truly.    *)
(***************************************************************************)
EXTENDS CategoryWrites, TLAPS

Entry == [by : Calls \cup {Other}, from : YnabAmounts, to : YnabAmounts]

(* The cap is sound on int64s: if the computed difference passes, the true *)
(* one is within the cap or the override repeats the computed one.         *)
LEMMA CapIsSound ==
  ASSUME NEW n \in Int64, NEW b \in YnabAmounts, NEW o \in Int64,
         CheckAmountBound(Wrap(n - b), o)
  PROVE  Abs(n - b) <= Cap \/ o = Wrap(n - b)
<1>1. MaxInt \in Nat /\ Cap \in Nat /\ MaxAmount \in Nat /\ MaxAmount + Cap <= MaxInt
  BY GuardAssumption, CategoryAssumption
<1>2. n \in Int /\ b \in Int /\ - MaxAmount <= b /\ b <= MaxAmount
      /\ n <= MaxInt /\ - MaxInt - 1 <= n
  BY <1>1 DEF Int64, MinInt, YnabAmounts
<1>3. CASE n - b > MaxInt
  <2>1. Wrap(n - b) = n - b - 2 * (MaxInt + 1)
    BY <1>1, <1>2, <1>3 DEF Wrap
  <2>2. ~ (Abs(Wrap(n - b)) <= Cap)
    BY <1>1, <1>2, <1>3, <2>1 DEF Abs
  <2> QED
    BY <2>2 DEF CheckAmountBound
<1>4. CASE n - b < MinInt
  <2>1. Wrap(n - b) = n - b + 2 * (MaxInt + 1)
    BY <1>1, <1>2, <1>4 DEF Wrap, MinInt
  <2>2. ~ (Abs(Wrap(n - b)) <= Cap)
    BY <1>1, <1>2, <1>4, <2>1 DEF Abs, MinInt
  <2> QED
    BY <2>2 DEF CheckAmountBound
<1>5. CASE n - b <= MaxInt /\ n - b >= MinInt
  <2>1. Wrap(n - b) = n - b
    BY <1>1, <1>2, <1>5 DEF Wrap, MinInt
  <2> QED
    BY <2>1 DEF CheckAmountBound
<1> QED
  BY <1>1, <1>2, <1>3, <1>4, <1>5 DEF MinInt

(* Appending to the log.                                                   *)
LEMMA RecordEntries ==
  ASSUME log \in Seq(Entry), budgeted \in YnabAmounts,
         NEW who \in Calls \cup {Other}, NEW amount \in YnabAmounts,
         Record(who, amount)
  PROVE  /\ log' \in Seq(Entry)
         /\ budgeted' = amount
         /\ log'[Len(log) + 1] = [by |-> who, from |-> budgeted, to |-> amount]
         /\ Len(log) + 1 \in DOMAIN log'
         /\ \A i \in DOMAIN log : i \in DOMAIN log' /\ log'[i] = log[i]
         /\ \A d \in Calls : Entries(d)' =
              IF d = who THEN Entries(d) \cup {Len(log) + 1} ELSE Entries(d)
<1> DEFINE e == [by |-> who, from |-> budgeted, to |-> amount]
<1>1. e \in Entry /\ log' = Append(log, e) /\ budgeted' = amount
  BY DEF Record, Entry
<1>2. /\ log' \in Seq(Entry)
      /\ Len(log') = Len(log) + 1
      /\ Len(log) \in Nat
      /\ DOMAIN log = 1..Len(log)
      /\ DOMAIN log' = 1..(Len(log) + 1)
      /\ log'[Len(log) + 1] = e
      /\ \A i \in 1..Len(log) : log'[i] = log[i]
  <2> HIDE DEF e
  <2> QED
    BY <1>1
<1>3. ASSUME NEW d \in Calls
      PROVE  Entries(d)' = IF d = who THEN Entries(d) \cup {Len(log) + 1} ELSE Entries(d)
  <2>1. e.by = who
    OBVIOUS
  <2> HIDE DEF e
  <2> QED
    BY <1>2, <2>1 DEF Entries
<1> QED
  BY <1>1, <1>2, <1>3

-----------------------------------------------------------------------------
(* The inductive invariant                                                 *)

Before == {"new", "reading", "checking", "confirming", "rejected"}

After == {"patching", "patched", "done", "failed"}

(* A call has touched YNAB only after it passed both guards.               *)
Guarded(c) ==
  /\ pc[c] \in Before => c \notin wire /\ Entries(c) = {}
  /\ pc[c] \in After =>
       answer[c] \in {"accept", "error"} /\ CheckAmountBound(Delta(c), override[c])
  /\ pc[c] = "confirming" => CheckAmountBound(Delta(c), override[c])

(* It touched YNAB once at most, with its own amount.                      *)
Once(c) ==
  /\ \A i \in Entries(c) : Entries(c) = {i} /\ log[i].to = new[c]
  /\ c \in wire => Entries(c) = {}
  /\ pc[c] \in {"patched", "done"} => Entries(c) # {}
  /\ pc[c] = "done" => result[c].after = new[c]

Inv == TypeOK /\ \A c \in Calls : Guarded(c) /\ Once(c)

LEMMA InvInit == Init => Inv
<1> SUFFICES ASSUME Init PROVE Inv
  OBVIOUS
<1> USE GuardAssumption, CategoryAssumption
<1>1. 0 \in YnabAmounts /\ 0 \in Int64
  BY DEF YnabAmounts, Int64, MinInt
<1>2. TypeOK
  BY <1>1 DEF Init, TypeOK, NoResult, Ended
<1>3. ASSUME NEW c \in Calls PROVE Guarded(c) /\ Once(c)
  BY DEF Init, Guarded, Once, Entries, Before, After
<1> QED
  BY <1>2, <1>3 DEF Inv

LEMMA TypeStep == TypeOK /\ [Next]_vars => TypeOK'
<1> SUFFICES ASSUME TypeOK, [Next]_vars PROVE TypeOK'
  OBVIOUS
<1> USE GuardAssumption, CategoryAssumption
<1>0. /\ log \in Seq(Entry) /\ budgeted \in YnabAmounts
      /\ YnabAmounts \subseteq Int64 /\ Len(log) \in Nat
  BY DEF TypeOK, Entry, YnabAmounts, Int64, MinInt
<1>1. CASE Change
  <2>1. PICK amount \in YnabAmounts : Record(Other, amount)
    BY <1>1 DEF Change
  <2>2. log' \in Seq(Entry) /\ budgeted' = amount
    BY <1>0, <2>1, RecordEntries
  <2> QED
    BY <1>1, <2>2 DEF Change, TypeOK, Entry, input
<1>2. ASSUME NEW c \in Calls, Apply(c) PROVE TypeOK'
  <2>1. log' \in Seq(Entry) /\ budgeted' = new[c] /\ new[c] \in YnabAmounts
    <3>1. Record(c, new[c]) /\ new[c] \in YnabAmounts
      BY <1>2 DEF Apply
    <3> QED
      BY <1>0, <3>1, RecordEntries
  <2> QED
    BY <1>2, <2>1 DEF Apply, TypeOK, Entry, input, Goto
<1>3. ASSUME NEW c \in Calls, Drop(c) PROVE TypeOK'
  BY <1>3 DEF Drop, TypeOK, input
<1>4. ASSUME NEW c \in Calls, NEW n \in Amounts, NEW o \in Amounts, Begin(c, n, o) PROVE TypeOK'
  BY <1>4 DEF Begin, TypeOK, server, Goto
<1>5. ASSUME NEW c \in Calls, NEW a \in Answers, Answer(c, a) PROVE TypeOK'
  BY <1>5 DEF Answer, TypeOK, input, Goto, Ended
<1>6. ASSUME NEW c \in Calls, Refuse(c) \/ Check(c) \/ Fail(c) PROVE TypeOK'
  BY <1>6 DEF Refuse, Check, Fail, TypeOK, server, input, Goto, Ended
<1>7. ASSUME NEW c \in Calls, Read(c) PROVE TypeOK'
  BY <1>7, <1>0 DEF Read, Snapshot, TypeOK, server, input, Goto
<1>8. ASSUME NEW c \in Calls, Report(c) PROVE TypeOK'
  <2>1. PICK i \in DOMAIN log :
          result' = [result EXCEPT ![c] = [before |-> before[c], after |-> log[i].to]]
    BY <1>8 DEF Report, ReportedBefore, Entries
  <2>2. before[c] \in Int64 /\ log[i].to \in Int64
    <3>1. log[i] \in Entry
      BY <1>0
    <3>2. log[i].to \in YnabAmounts /\ before[c] \in YnabAmounts
      BY <3>1 DEF Entry, TypeOK
    <3> QED
      BY <1>0, <3>2
  <2>3. result' \in [Calls -> [before : Int64, after : Int64]]
    BY <2>1, <2>2 DEF TypeOK
  <2> QED
    BY <1>8, <1>0, <2>3 DEF Report, TypeOK, server, input, Goto, Ended
<1>9. CASE UNCHANGED vars
  BY <1>9 DEF vars, server, input, TypeOK
<1> QED
  BY <1>1, <1>2, <1>3, <1>4, <1>5, <1>6, <1>7, <1>8, <1>9 DEF Next

(* A step of another client leaves every call as it was.                   *)
LEMMA Undisturbed ==
  ASSUME TypeOK, NEW d \in Calls, Guarded(d), Once(d),
         pc'[d] = pc[d], d \in wire' <=> d \in wire, Entries(d)' = Entries(d),
         \A i \in Entries(d) : log'[i] = log[i],
         new'[d] = new[d], override'[d] = override[d], before'[d] = before[d],
         answer'[d] = answer[d], result'[d] = result[d]
  PROVE  Guarded(d)' /\ Once(d)'
<1>1. Guarded(d)'
  BY DEF Guarded, Delta
<1>2. Once(d)'
  BY DEF Once
<1> QED
  BY <1>1, <1>2

LEMMA InvStep == Inv /\ [Next]_vars => Inv'
<1> SUFFICES ASSUME Inv, [Next]_vars PROVE Inv'
  OBVIOUS
<1>0. TypeOK /\ TypeOK'
  BY TypeStep DEF Inv
<1>00. /\ log \in Seq(Entry) /\ budgeted \in YnabAmounts
       /\ \A c \in Calls : Guarded(c) /\ Once(c)
  BY <1>0 DEF Inv, TypeOK, Entry
<1> SUFFICES ASSUME NEW d \in Calls PROVE Guarded(d)' /\ Once(d)'
  BY <1>0 DEF Inv
<1>1. CASE Change
  <2>1. PICK amount \in YnabAmounts : Record(Other, amount)
    BY <1>1 DEF Change
  <2>2. /\ Entries(d)' = Entries(d)
        /\ \A i \in DOMAIN log : log'[i] = log[i]
    BY <1>00, <2>1, RecordEntries, CategoryAssumption
  <2>3. \A i \in Entries(d) : log'[i] = log[i]
    BY <2>2 DEF Entries
  <2> QED
    BY <1>0, <1>00, <1>1, <2>2, <2>3, Undisturbed DEF Change, input
<1>2. ASSUME NEW c \in Calls, Apply(c) PROVE Guarded(d)' /\ Once(d)'
  <2>1. Record(c, new[c]) /\ new[c] \in YnabAmounts /\ c \in wire
    BY <1>2 DEF Apply
  <2>2. /\ log'[Len(log) + 1] = [by |-> c, from |-> budgeted, to |-> new[c]]
        /\ \A i \in DOMAIN log : log'[i] = log[i]
        /\ Entries(d)' = IF d = c THEN Entries(d) \cup {Len(log) + 1} ELSE Entries(d)
    BY <1>00, <2>1, RecordEntries
  <2>3. CASE d # c
    <3>1. \A i \in Entries(d) : log'[i] = log[i]
      BY <2>2 DEF Entries
    <3> QED
      BY <1>0, <1>00, <1>2, <2>2, <2>3, <3>1, Undisturbed DEF Apply, input, Goto, TypeOK
  <2>4. CASE d = c
    <3>1. Entries(c) = {} /\ Entries(c)' = {Len(log) + 1}
      BY <1>00, <2>1, <2>2, <2>4 DEF Once
    <3>2. pc[c] \in After /\ pc'[c] \in After /\ pc'[c] # "confirming"
          /\ (pc'[c] = "done" => pc[c] = "done")
      BY <1>0, <1>00, <1>2, <2>1 DEF Apply, Goto, Guarded, Before, After, TypeOK, Ended
    <3>3. Guarded(c)'
      BY <1>00, <1>2, <3>2 DEF Guarded, Before, After, Apply, Delta, input
    <3>4. Once(c)'
      BY <1>00, <1>2, <2>2, <3>1, <3>2 DEF Once, Apply, input
    <3> QED
      BY <2>4, <3>3, <3>4
  <2> QED
    BY <2>3, <2>4
<1>3. ASSUME NEW c \in Calls, Drop(c) PROVE Guarded(d)' /\ Once(d)'
  <2>1. Entries(d)' = Entries(d) /\ log' = log
    BY <1>3 DEF Drop, Entries
  <2> QED
    BY <1>00, <1>3, <2>1 DEF Drop, input, Guarded, Once, Delta
<1>4. ASSUME NEW c \in Calls, UNCHANGED <<budgeted, log>>,
             \A e \in Calls \ {c} :
               /\ pc'[e] = pc[e] /\ (e \in wire' <=> e \in wire)
               /\ new'[e] = new[e] /\ override'[e] = override[e] /\ before'[e] = before[e]
               /\ answer'[e] = answer[e] /\ result'[e] = result[e],
             Guarded(c)' /\ Once(c)'
      PROVE  Guarded(d)' /\ Once(d)'
  <2>1. Entries(d)' = Entries(d)
    BY <1>4 DEF Entries
  <2> QED
    BY <1>0, <1>00, <1>4, <2>1, Undisturbed
<1>5. ASSUME NEW c \in Calls, NEW n \in Amounts, NEW o \in Amounts, Begin(c, n, o)
      PROVE Guarded(d)' /\ Once(d)'
  <2>1. Entries(c)' = Entries(c)
    BY <1>5 DEF Begin, server, Entries
  <2>2. Guarded(c)' /\ Once(c)'
    BY <1>0, <1>00, <1>5, <2>1 DEF Begin, server, Goto, Guarded, Once, Before, After, TypeOK
  <2> QED
    BY <1>0, <1>4, <1>5, <2>2 DEF Begin, server, Goto, TypeOK
<1>6. ASSUME NEW c \in Calls, NEW a \in Answers, Answer(c, a)
      PROVE Guarded(d)' /\ Once(d)'
  <2>1. Entries(c)' = Entries(c)
    BY <1>6 DEF Answer, Entries
  <2>2. Guarded(c)' /\ Once(c)'
    BY <1>0, <1>00, <1>6, <2>1
       DEF Answer, Proceeds, input, Goto, Guarded, Once, Before, After, Delta, TypeOK
  <2> QED
    BY <1>0, <1>4, <1>6, <2>2 DEF Answer, input, Goto, TypeOK
<1>7. ASSUME NEW c \in Calls, Refuse(c) \/ Read(c) \/ Check(c) \/ Report(c) \/ Fail(c)
      PROVE Guarded(d)' /\ Once(d)'
  <2>1. Entries(c)' = Entries(c)
    BY <1>7 DEF Refuse, Read, Check, Report, Fail, server, Entries
  <2>2. Guarded(c)' /\ Once(c)'
    <3>1. CASE Refuse(c) \/ Read(c)
      BY <1>0, <1>00, <2>1, <3>1
         DEF Refuse, Read, server, input, Goto, Guarded, Once, Before, After, TypeOK
    <3>2. CASE Check(c)
      BY <1>0, <1>00, <2>1, <3>2
         DEF Check, server, input, Goto, Guarded, Once, Before, After, Delta, TypeOK
    <3>3. CASE Report(c)
      BY <1>0, <1>00, <2>1, <3>3
         DEF Report, server, input, Goto, Guarded, Once, Before, After, Delta, TypeOK
    <3>4. CASE Fail(c)
      BY <1>0, <1>00, <2>1, <3>4
         DEF Fail, MayFail, server, input, Goto, Guarded, Once, Before, After, Delta, TypeOK
    <3> QED
      BY <1>7, <3>1, <3>2, <3>3, <3>4
  <2>3. UNCHANGED <<budgeted, log>>
    BY <1>7 DEF Refuse, Read, Check, Report, Fail, server
  <2>4. ASSUME NEW e \in Calls \ {c}
        PROVE  /\ pc'[e] = pc[e] /\ (e \in wire' <=> e \in wire)
               /\ new'[e] = new[e] /\ override'[e] = override[e] /\ before'[e] = before[e]
               /\ answer'[e] = answer[e] /\ result'[e] = result[e]
    BY <1>0, <1>7 DEF Refuse, Read, Check, Report, Fail, server, input, Goto, TypeOK
  <2> QED
    BY <1>4, <2>2, <2>3, <2>4
<1>8. CASE UNCHANGED vars
  BY <1>00, <1>8 DEF vars, server, input, Guarded, Once, Delta, Entries
<1> QED
  BY <1>1, <1>2, <1>3, <1>5, <1>6, <1>7, <1>8 DEF Next

LEMMA Invariance == Spec => []Inv
<1>1. Inv /\ UNCHANGED vars => Inv'
  BY InvStep
<1> QED
  BY InvInit, InvStep, PTL DEF Spec

-----------------------------------------------------------------------------
(* The variables of update_category_budgeted keep their types; amounts are *)
(* int64s throughout and the category stays in YNAB's range.               *)
THEOREM TypeCorrectness == Spec => []TypeOK
  BY Invariance, PTL DEF Inv

(* No PATCH reaches YNAB, however late, for a call that did not pass the   *)
(* cap on the true difference to its before snapshot and the confirmation. *)
THEOREM GuardsHold == Spec => []ChecksPrecedeEffects
<1>1. Inv => ChecksPrecedeEffects
  <2> SUFFICES ASSUME Inv, NEW c \in Calls, c \in wire \/ Entries(c) # {}
               PROVE  /\ answer[c] \in {"accept", "error"}
                      /\ Abs(Shown(c)) <= Cap \/ override[c] = Wrap(Shown(c))
    BY DEF ChecksPrecedeEffects
  <2>1. pc[c] \in After
    BY DEF Inv, TypeOK, Guarded, Before, After, Ended
  <2>2. answer[c] \in {"accept", "error"} /\ CheckAmountBound(Delta(c), override[c])
    BY <2>1 DEF Inv, Guarded
  <2>3. new[c] \in Int64 /\ before[c] \in YnabAmounts /\ override[c] \in Int64
    BY DEF Inv, TypeOK
  <2> QED
    BY <2>2, <2>3, CapIsSound DEF Shown, Delta
<1> QED
  BY <1>1, Invariance, PTL

(* A successful call made exactly the one change it reports; a rejected    *)
(* one made none and has none under way.                                   *)
THEOREM OutcomesAreTrue == Spec => []OutcomesTell
<1>1. Inv => OutcomesTell
  <2> SUFFICES ASSUME Inv, NEW c \in Calls
               PROVE  /\ pc[c] = "done" =>
                           \E i \in DOMAIN log :
                             Entries(c) = {i} /\ log[i].to = result[c].after /\ result[c].after = new[c]
                      /\ pc[c] = "rejected" => c \notin wire /\ Entries(c) = {}
    BY DEF OutcomesTell
  <2>1. CASE pc[c] = "done"
    <3>1. PICK i \in Entries(c) : TRUE
      BY <2>1 DEF Inv, Once
    <3>2. Entries(c) = {i} /\ log[i].to = new[c] /\ result[c].after = new[c]
      BY <2>1 DEF Inv, Once
    <3>3. i \in DOMAIN log
      BY DEF Entries
    <3> QED
      BY <2>1, <3>2, <3>3
  <2>2. CASE pc[c] # "done"
    BY <2>2 DEF Inv, Guarded, Before
  <2> QED
    BY <2>1, <2>2
<1> QED
  BY <1>1, Invariance, PTL

-----------------------------------------------------------------------------
(* The audit                                                               *)

(* A call's before snapshot is the amount that the log had reached when it *)
(* was read, and what it reports.                                          *)
Anchored(c) ==
  /\ pc[c] \in {"checking", "confirming"} \cup After =>
       /\ readAt[c] <= Len(log)
       /\ readAt[c] = Len(log) => budgeted = before[c]
       /\ readAt[c] < Len(log) => log[readAt[c] + 1].from = before[c]
  /\ pc[c] = "done" => result[c].before = before[c]

AuditInv == Inv /\ \A c \in Calls : Anchored(c)

(* A change of the category keeps the snapshots anchored.                  *)
LEMMA RecordAnchored ==
  ASSUME TypeOK, NEW who \in Calls \cup {Other}, NEW amount \in YnabAmounts,
         Record(who, amount), NEW d \in Calls, Anchored(d),
         pc'[d] = pc[d] \/ (pc[d] = "patching" /\ pc'[d] = "patched"),
         before'[d] = before[d], readAt'[d] = readAt[d], result'[d] = result[d]
  PROVE  Anchored(d)'
<1>1. log \in Seq(Entry) /\ budgeted \in YnabAmounts /\ Len(log) \in Nat /\ readAt[d] \in Nat
  BY DEF TypeOK, Entry
<1>2. /\ log' \in Seq(Entry)
      /\ log'[Len(log) + 1] = [by |-> who, from |-> budgeted, to |-> amount]
      /\ \A i \in DOMAIN log : log'[i] = log[i]
  BY <1>1, RecordEntries
<1>3. Len(log') = Len(log) + 1 /\ DOMAIN log = 1..Len(log)
  BY <1>1 DEF Record
<1>4. log'[Len(log) + 1].from = budgeted
  BY <1>2
<1>5. readAt[d] < Len(log) => log'[readAt[d] + 1] = log[readAt[d] + 1]
  BY <1>1, <1>2, <1>3
<1> QED
  BY <1>1, <1>3, <1>4, <1>5 DEF Anchored, After

LEMMA AuditStep == AuditInv /\ [Next]_vars => AuditInv'
<1> SUFFICES ASSUME AuditInv, [Next]_vars PROVE AuditInv'
  OBVIOUS
<1>0. Inv' /\ TypeOK /\ Len(log) \in Nat
  BY InvStep DEF AuditInv, Inv, TypeOK
<1> SUFFICES ASSUME NEW d \in Calls PROVE Anchored(d)'
  BY <1>0 DEF AuditInv
<1>k. Anchored(d)
  BY DEF AuditInv
<1>1. CASE Change
  <2>1. PICK amount \in YnabAmounts : Record(Other, amount)
    BY <1>1 DEF Change
  <2> QED
    BY <1>0, <1>1, <1>k, <2>1, RecordAnchored DEF Change
<1>2. ASSUME NEW c \in Calls, Apply(c) PROVE Anchored(d)'
  <2>1. pc'[d] = pc[d] \/ (pc[d] = "patching" /\ pc'[d] = "patched")
    BY <1>0, <1>2 DEF Apply, Goto, TypeOK
  <2> QED
    BY <1>0, <1>2, <1>k, <2>1, RecordAnchored DEF Apply
<1>3. ASSUME NEW c \in Calls,
             \/ \E n, o \in Amounts : Begin(c, n, o)
             \/ \E a \in Answers : Answer(c, a)
             \/ Drop(c) \/ Refuse(c) \/ Check(c) \/ Fail(c)
      PROVE  Anchored(d)'
  <2>1. UNCHANGED <<budgeted, log, before, readAt, result>>
    BY <1>3 DEF Begin, Answer, Drop, Refuse, Check, Fail, server, input
  <2>2. pc'[d] \in {"checking", "confirming"} \cup After =>
          pc[d] \in {"checking", "confirming"} \cup After
    BY <1>0, <1>3 DEF Begin, Answer, Drop, Refuse, Check, Fail, MayFail, Goto, TypeOK, After
  <2>3. pc'[d] = "done" => pc[d] = "done"
    BY <1>0, <1>3 DEF Begin, Answer, Drop, Refuse, Check, Fail, Goto, TypeOK
  <2> QED
    BY <1>k, <2>1, <2>2, <2>3 DEF Anchored
<1>4. ASSUME NEW c \in Calls, Read(c) PROVE Anchored(d)'
  <2>1. CASE d = c
    BY <1>0, <1>4, <2>1 DEF Read, Snapshot, server, Goto, TypeOK, Anchored
  <2>2. CASE d # c
    BY <1>0, <1>4, <1>k, <2>2 DEF Read, server, Goto, TypeOK, Anchored
  <2> QED
    BY <2>1, <2>2
<1>5. ASSUME NEW c \in Calls, Report(c) PROVE Anchored(d)'
  <2>1. CASE d = c
    BY <1>0, <1>5, <1>k, <2>1 DEF Report, ReportedBefore, server, Goto, TypeOK, Anchored, After
  <2>2. CASE d # c
    BY <1>0, <1>5, <1>k, <2>2 DEF Report, server, Goto, TypeOK, Anchored
  <2> QED
    BY <2>1, <2>2
<1>6. CASE UNCHANGED vars
  BY <1>6, <1>k DEF vars, server, Anchored
<1> QED
  BY <1>1, <1>2, <1>3, <1>4, <1>5, <1>6 DEF Next

(* Unless another change came between a call's read and its PATCH, its     *)
(* before snapshot is what the PATCH replaced.                             *)
THEOREM AuditsAreTrue == Spec => []AuditUnlessDisturbed
<1>1. Init => AuditInv
  <2>1. Init => \A c \in Calls : Anchored(c)
    BY DEF Init, Anchored, After
  <2> QED
    BY <2>1, InvInit DEF AuditInv
<1>2. AuditInv => AuditUnlessDisturbed
  <2> SUFFICES ASSUME AuditInv, NEW c \in Calls, NEW i \in Entries(c),
                      pc[c] = "done", readAt[c] + 1 = i
               PROVE  result[c].before = log[i].from
    BY DEF AuditUnlessDisturbed
  <2>1. i \in 1..Len(log) /\ readAt[c] \in Nat /\ Len(log) \in Nat
    BY DEF Entries, AuditInv, Inv, TypeOK
  <2>2. readAt[c] < Len(log)
    BY <2>1
  <2> QED
    BY <2>2 DEF AuditInv, Anchored, After
<1> QED
  BY <1>1, <1>2, AuditStep, PTL DEF Spec
=============================================================================
