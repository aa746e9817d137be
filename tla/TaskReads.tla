------------------------------ MODULE TaskReads -----------------------------
(***************************************************************************)
(* Two tools composed of several reads, ynab_spending_check and            *)
(* ynab_weekly_checkin.  Each sends its GETs one after the other and works *)
(* out a report from the answers, while other clients may change the plan  *)
(* between any two of them.  The check-in's transactions come through the  *)
(* delta-sync cache it shares with list_transactions; nothing else reads   *)
(* or writes the cache during the call (TransactionSync has that).         *)
(*                                                                         *)
(* An item of the plan is what the user sees as one transaction; a         *)
(* transfer between accounts is two rows with opposite amounts.  Report    *)
(* fields are operators on the answers; names and sorting are left out,    *)
(* and so is the cut of the offending list, which has no part in a sum.    *)
(***************************************************************************)
EXTENDS Calendar, Sequences, FiniteSetsExt, Functions

CONSTANTS
  Items,
  Entries,        \* contents of items
  Months,         \* months of the plan
  MonthStates,    \* contents of a month: age of money, balances
  InitialPlans,   \* states of the plan, as [rows, months]
  Calls,          \* inputs of the two tools
  Primings,       \* since_dates of earlier list_transactions calls
  CardCategories, \* categories of the group "Credit Card Payments"
  Ceiling,        \* aggregationCeiling
  MaxItems,       \* maxItemsPerPlanEntry
  MaxVersion,     \* bound on the plan's knowledge values
  NoRow, NoMonth, NoDate, NoAge

Ids == Items \X {"out", "in"}

INSTANCE DeltaCache

-----------------------------------------------------------------------------
(* The plan as YNAB keeps it.                                              *)

(* Outflows are negative; the "out" side of a transfer is its outflow.     *)
RowOf(e, side, k) ==
  [at |-> k, deleted |-> FALSE, of |-> e,
   amount |-> IF e.transfer /\ side = "out" THEN - e.amount ELSE e.amount]

Sides(e) == IF e.transfer THEN {"out", "in"} ELSE {"out"}

Recorded(rows, n, e, k) ==
  [i \in Ids |-> IF i[1] = n /\ i[2] \in Sides(e) THEN RowOf(e, i[2], k) ELSE rows[i]]

Removed(rows, n, k) ==
  [i \in Ids |-> IF i[1] = n /\ rows[i] # NoRow THEN [rows[i] EXCEPT !.at = k, !.deleted = TRUE]
                 ELSE rows[i]]

IsLive(row) == row # NoRow /\ ~ row.deleted

(* The rows of a plan to which each item was entered at once, or not.      *)
Ledger(choice) ==
  [i \in Ids |-> LET e == choice[i[1]]
                 IN  IF e # NoRow /\ i[2] \in Sides(e) THEN RowOf(e, i[2], 1) ELSE NoRow]

(* An item is entered, edited or deleted; an edit leaves a transfer one.   *)
(* Or a month's figures change.                                            *)
Successors(plan, k) ==
  LET row(n) == plan.rows[<<n, "out">>]
  IN  {[plan EXCEPT !.rows = Recorded(@, p[1], p[2], k)] :
         p \in {q \in Items \X Entries :
                  row(q[1]) = NoRow \/ (IsLive(row(q[1])) /\ row(q[1]).of.transfer = q[2].transfer)}}
      \cup {[plan EXCEPT !.rows = Removed(@, n, k)] : n \in {m \in Items : IsLive(row(m))}}
      \cup {[plan EXCEPT !.months[p[1]] = p[2]] :
              p \in {m \in Months : plan.months[m] # NoMonth} \X MonthStates}

IsEntry(e) ==
  /\ e.date \in Date /\ e.amount \in Int /\ {e.transfer, e.approved} \subseteq BOOLEAN
  /\ e.transfer => e.amount > 0

IsCheck(c) ==
  /\ c.tool = "check" /\ c.from \in Date /\ c.to \in Date /\ c.budget \in Int
  /\ c.categories \in Seq(Range(c.categories)) \ {<<>>}

IsCheckIn(c) == c.tool = "checkin" /\ c.asOf \in Date /\ c.asOf.month > 0

ASSUME TaskAssumption ==
  /\ Ceiling \in Nat /\ MaxItems \in Nat /\ MaxVersion \in Nat \ {0}
  /\ IsFiniteSet(Items)
  /\ \A e \in Entries : IsEntry(e)
  /\ NoRow \notin [at : Nat, deleted : BOOLEAN, of : Entries, amount : Int]
  /\ Primings \subseteq Date /\ NoDate \notin Primings
  /\ InitialPlans \subseteq [rows : {Ledger(choice) : choice \in [Items -> Entries \cup {NoRow}]},
                              months : [Months -> MonthStates \cup {NoMonth}]]
  /\ \A c \in Calls : IsCheck(c) \/ IsCheckIn(c)

VARIABLES
  hist,        \* the states of the plan
  entry,       \* Client.transactionsDelta.plans[plan]
  primedFrom,  \* history: the since_date the entry was filled with, if any
  call,        \* the input
  pc,
  got,         \* the answers
  start        \* history: the plan's knowledge when the call began

vars == <<hist, entry, primedFrom, call, pc, got, start>>

OnOrAfter(rows, since) ==
  [i \in Ids |-> IF IsLive(rows[i]) /\ ~ Before(rows[i].of.date, since) THEN rows[i] ELSE NoRow]

InCategory(rows, category, since) ==
  [i \in Ids |-> IF /\ IsLive(rows[i]) /\ ~ Before(rows[i].of.date, since)
                    /\ rows[i].of.category = category
                   THEN rows[i] ELSE NoRow]

Unapproved(rows) ==
  [i \in Ids |-> IF IsLive(rows[i]) /\ ~ rows[i].of.approved THEN rows[i] ELSE NoRow]

AmountIn(rows, S) == SumFunction([i \in S |-> rows[i].amount])

(* The spending check never meets the cache, so nothing need be in it.     *)
Init ==
  /\ hist \in {<<p>> : p \in InitialPlans}
  /\ call \in Calls
  /\ primedFrom \in IF call.tool = "checkin" THEN Primings \cup {NoDate} ELSE {NoDate}
  /\ entry = IF primedFrom = NoDate THEN EmptyEntry
             ELSE [knowledge |-> 1, items |-> OnOrAfter(hist[1].rows, primedFrom)]
  /\ pc = "idle"
  /\ got = <<>>
  /\ start = 1

Now == hist[Len(hist)]

(* Before the call, a change matters only to a cache that is older; after  *)
(* it, no more.                                                            *)
Change ==
  /\ Len(hist) < MaxVersion
  /\ pc = "calling" \/ (pc = "idle" /\ primedFrom # NoDate)
  /\ \E p \in Successors(Now, Len(hist) + 1) : hist' = Append(hist, p)
  /\ UNCHANGED <<entry, primedFrom, call, pc, got, start>>

-----------------------------------------------------------------------------
(* Mutated forms, for mutation testing.                                    *)

PriorStartLate(c) == AddDate(c.asOf, 0, -12)

TruncatedLast == got[Len(got)].truncated

UnfilteredEnd(row) ==
  /\ ~ Before(row.of.date, call.from)
  /\ row.of.payee \notin call.excluded

WithTransfers == Held(got[1].rows)

AlsoCards(month) ==
  IF month = NoMonth THEN {} ELSE {c \in DOMAIN month.balance : month.balance[c] < 0}

EveryRow == Cardinality(Held(got[2].rows))

(* Each answer added up for itself.                                        *)
ActualPerAnswer ==
  - SumFunction([k \in DOMAIN got |-> AmountIn(got[k].rows, Held(got[k].rows))])

-----------------------------------------------------------------------------
(* The requests of a call.                                                 *)

ThisStart(c) == AddDate(c.asOf, 0, -6)
PriorEnd(c) == AddDate(c.asOf, 0, -7)
PriorStart(c) == AddDate(c.asOf, 0, -13)

(* asOf.AddDate(0, -1, 0), of which the month is used.                     *)
PriorMonthDate(c) == AddDate(c.asOf, -1, 0)

Requests(c) ==
  IF c.tool = "check"
    THEN [k \in DOMAIN c.categories |->
            [get |-> "category", category |-> c.categories[k], since |-> c.from]]
  ELSE <<[get |-> "period", since |-> PriorStart(c)],
         [get |-> "unapproved"],
         [get |-> "month", month |-> c.asOf.month],
         [get |-> "month", month |-> PriorMonthDate(c).month]>>

request == Requests(call)[Len(got) + 1]

Asking == pc = "calling" /\ Len(got) < Len(Requests(call))

(* What YNAB sends for the period: the rows changed since the cursor.      *)
Deltas ==
  LET since == request.since
      now == Now.rows
  IN  [i \in Ids |->
         LET row == now[i]
         IN  IF /\ row # NoRow
                /\ row.at > entry.knowledge
                /\ ~ Before(row.of.date, since)
                /\ row.deleted => entry.knowledge > 0
               THEN row ELSE NoRow]

(* The rows fetchTransactions returns.                                     *)
Matching ==
  CASE request.get = "category" -> InCategory(Now.rows, request.category, request.since)
    [] request.get = "unapproved" -> Unapproved(Now.rows)
    [] request.get = "period" -> MergedItems(entry, Len(hist), Deltas)

(* Above the ceiling the latest rows are kept; the sort is not stable.     *)
Cuts(rows) ==
  IF Cardinality(Held(rows)) <= Ceiling THEN {Held(rows)}
  ELSE {kept \in kSubset(Ceiling, Held(rows)) :
          \A i \in kept, j \in Held(rows) \ kept : ~ Before(rows[i].of.date, rows[j].of.date)}

Begin ==
  /\ pc = "idle"
  /\ pc' = "calling"
  /\ start' = Len(hist)
  /\ UNCHANGED <<hist, entry, primedFrom, call, got>>

FetchRows ==
  /\ Asking /\ request.get # "month"
  /\ LET rows == Matching
     IN  \E kept \in Cuts(rows) :
           got' = Append(got, [at |-> Len(hist),
                               rows |-> [i \in Ids |-> IF i \in kept THEN rows[i] ELSE NoRow],
                               truncated |-> kept # Held(rows)])
  /\ entry' = IF request.get = "period" THEN MergedEntry(entry, Len(hist), Deltas) ELSE entry
  /\ UNCHANGED <<hist, primedFrom, call, pc, start>>

(* A missing month is an error, unless it is the prior one.                *)
FetchMonth ==
  /\ Asking /\ request.get = "month"
  /\ LET month == Now.months[request.month]
     IN  IF month = NoMonth /\ Len(got) = 2
           THEN pc' = "failed" /\ UNCHANGED got
           ELSE got' = Append(got, [at |-> Len(hist), month |-> month]) /\ UNCHANGED pc
  /\ UNCHANGED <<hist, entry, primedFrom, call, start>>

(* A request fails, or the caller has gone; nothing is reported.           *)
Fail ==
  /\ Asking
  /\ pc' = "failed"
  /\ UNCHANGED <<hist, entry, primedFrom, call, got, start>>

Finish ==
  /\ pc = "calling" /\ Len(got) = Len(Requests(call))
  /\ pc' = "done"
  /\ UNCHANGED <<hist, entry, primedFrom, call, got, start>>

Next == Change \/ Begin \/ FetchRows \/ FetchMonth \/ Fail \/ Finish

Spec == Init /\ [][Next]_vars

-----------------------------------------------------------------------------
(* The report of the spending check.                                       *)

Truncated == \E k \in DOMAIN got : got[k].truncated

Counted(row) ==
  /\ ~ Before(call.to, row.of.date)
  /\ ~ Before(row.of.date, call.from)
  /\ row.of.payee \notin call.excluded

(* The map `seen': the last answer that has the row counts.                *)
Seen ==
  [i \in Ids |->
     LET ks == {k \in DOMAIN got : got[k].rows[i] # NoRow /\ Counted(got[k].rows[i])}
     IN  IF ks = {} THEN NoRow ELSE got[Max(ks)].rows[i]]

Actual == - AmountIn(Seen, Held(Seen))

OnPlan == IF Truncated THEN "absent" ELSE IF Actual - call.budget <= 0 THEN "yes" ELSE "no"

-----------------------------------------------------------------------------
(* The report of the weekly check-in.                                      *)

(* The rows of the two weeks, transfers left out.                          *)
Spendable == {i \in Held(got[1].rows) : ~ got[1].rows[i].of.transfer}

DatedIn(from, to) ==
  {i \in Spendable : LET d == got[1].rows[i].of.date IN ~ Before(d, from) /\ ~ Before(to, d)}

Inflow(S) == AmountIn(got[1].rows, {i \in S : got[1].rows[i].amount > 0})
Outflow(S) == - AmountIn(got[1].rows, {i \in S : got[1].rows[i].amount <= 0})

Totals ==
  LET this == DatedIn(ThisStart(call), call.asOf)
      prior == DatedIn(PriorStart(call), PriorEnd(call))
  IN  [thisIn |-> Inflow(this), priorIn |-> Inflow(prior),
       thisOut |-> Outflow(this), priorOut |-> Outflow(prior)]

(* countUnapprovedExcludingTransferMirrors                                 *)
UnapprovedCount ==
  Cardinality({i \in Held(got[2].rows) : got[2].rows[i].of.transfer => got[2].rows[i].amount < 0})

OverspentIn(month) ==
  IF month = NoMonth THEN {}
  ELSE {c \in DOMAIN month.balance : month.balance[c] < 0} \ CardCategories

NewlyOverspent == OverspentIn(got[3].month) \ OverspentIn(got[4].month)

Resolved ==
  (OverspentIn(got[4].month) \cap DOMAIN got[3].month.balance) \ OverspentIn(got[3].month)

AgeDelta ==
  IF got[4].month = NoMonth \/ got[3].month.age = NoAge THEN NoAge
  ELSE IF got[4].month.age = NoAge THEN NoAge
  ELSE got[3].month.age - got[4].month.age

-----------------------------------------------------------------------------
(* Properties.                                                             *)

Checked == pc = "done" /\ call.tool = "check"
CheckedIn == pc = "done" /\ call.tool = "checkin"

Row == [at : 1..MaxVersion, deleted : BOOLEAN, of : Entries, amount : Int]

(* The variables keep their types; in particular no deleted row ever gets  *)
(* into an answer or into the cache.                                       *)
TypeOK ==
  /\ \A k \in DOMAIN hist : \A i \in Ids : hist[k].rows[i] \in Row \cup {NoRow}
  /\ entry.knowledge \in 0..MaxVersion
  /\ \A i \in Ids : entry.items[i] # NoRow => entry.items[i] \in Row /\ ~ entry.items[i].deleted
  /\ call \in Calls /\ primedFrom \in Primings \cup {NoDate}
  /\ pc \in {"idle", "calling", "done", "failed"}
  /\ Len(got) <= Len(Requests(call)) /\ start \in 1..MaxVersion
  /\ \A k \in DOMAIN got :
       /\ got[k].at \in 1..MaxVersion
       /\ "rows" \in DOMAIN got[k] =>
            \A i \in Held(got[k].rows) : got[k].rows[i] \in Row /\ ~ got[k].rows[i].deleted

(* What the user means by the scope of a spending check, in any state.     *)
Listed == {call.categories[k] : k \in DOMAIN call.categories}

InScope(row) ==
  /\ IsLive(row)
  /\ row.of.category \in Listed
  /\ DaysBetween(call.from, row.of.date) >= 0 /\ DaysBetween(row.of.date, call.to) >= 0
  /\ row.of.payee \notin call.excluded

(* When the plan rests during the call, the spending check is the sum over *)
(* the scope, each transaction once although a category may be listed      *)
(* twice, and the verdict compares it with the budget.                     *)
SpendingExact ==
  Checked /\ ~ Truncated /\ got[1].at = got[Len(got)].at =>
    LET rows == hist[got[1].at].rows
        spent == - AmountIn(rows, {i \in Ids : InScope(rows[i])})
    IN  Actual = spent /\ (OnPlan = "yes" <=> spent <= call.budget)

(* When it changes between two fetches, a transaction that was in scope    *)
(* under one category throughout is counted all the same, with what it     *)
(* last was; and nothing is counted that was in scope at no moment.        *)
SpendingCountsWhatStays ==
  Checked /\ ~ Truncated =>
    LET moments == got[1].at..got[Len(got)].at
        stays(i) == /\ \A k \in moments : InScope(hist[k].rows[i])
                    /\ \A k, l \in moments : hist[k].rows[i].of.category = hist[l].rows[i].of.category
        seen == Seen
    IN  \A i \in Ids :
          /\ stays(i) => seen[i] # NoRow
          /\ seen[i] # NoRow =>
               \E k \in moments : InScope(hist[k].rows[i]) /\ hist[k].rows[i] = seen[i]

(* What a spending check reports was spent, and all of it that stayed.     *)
SpendingTrue == SpendingExact /\ SpendingCountsWhatStays

(* The tool refuses a verdict on incomplete data: with a verdict, every    *)
(* fetch has brought every transaction of its category.                    *)
VerdictIsComplete ==
  Checked /\ OnPlan # "absent" =>
    \A k \in DOMAIN got : \A i \in Ids :
      LET row == hist[got[k].at].rows[i]
      IN  IsLive(row) /\ row.of.category = call.categories[k] /\ ~ Before(row.of.date, call.from)
            => got[k].rows[i] = row

(* The weekly totals that a state of the plan calls for; a week is told by *)
(* the age of a transaction in days.                                       *)
TotalsOf(rows) ==
  LET aged(ages) == {i \in Ids : /\ IsLive(rows[i]) /\ ~ rows[i].of.transfer
                                 /\ DaysBetween(rows[i].of.date, call.asOf) \in ages}
      gain(ages) == AmountIn(rows, {i \in aged(ages) : rows[i].amount > 0})
      loss(ages) == - AmountIn(rows, {i \in aged(ages) : rows[i].amount < 0})
  IN  [thisIn |-> gain(0..6), priorIn |-> gain(7..13), thisOut |-> loss(0..6), priorOut |-> loss(7..13)]

(* The cache serves the check-in right if it was empty or filled for both  *)
(* weeks and none of its transactions has been re-dated out of them since, *)
(* not even one that was deleted thereafter.                               *)
CacheFits ==
  \/ primedFrom = NoDate
  \/ /\ ~ Before(PriorStart(call), primedFrom)
     /\ \A i \in Ids :
          LET row == hist[got[1].at].rows[i]
          IN  row # NoRow /\ Before(row.of.date, PriorStart(call)) =>
                ~ IsLive(hist[1].rows[i]) \/ Before(hist[1].rows[i].of.date, PriorStart(call))

(* Both weeks of the check-in are those of one moment of the call: what    *)
(* moves from one week to the other during it is never counted twice.      *)
WeeksOfOneMoment ==
  CheckedIn /\ ~ got[1].truncated /\ CacheFits =>
    \E k \in start..Len(hist) : Totals = TotalsOf(hist[k].rows)

(* Above the ceiling the four totals are lower bounds, as the output says. *)
TotalsAreLowerBounds ==
  CheckedIn /\ CacheFits =>
    LET due == TotalsOf(hist[got[1].at].rows)
    IN  \A field \in DOMAIN due : Totals[field] <= due[field]

(* A transfer waiting for approval is one item, as is any other.           *)
UnapprovedOnce ==
  CheckedIn /\ ~ got[2].truncated =>
    LET rows == hist[got[2].at].rows
    IN  UnapprovedCount =
          Cardinality({n \in Items : IsLive(rows[<<n, "out">>]) /\ ~ rows[<<n, "out">>].of.approved})

(* What a check-in counts was so at a moment of the call, or is marked as  *)
(* incomplete and not too much.                                            *)
CheckInTrue == WeeksOfOneMoment /\ TotalsAreLowerBounds /\ UnapprovedOnce

(* What a month's figures call for.                                        *)
Overspent(k, month, c) ==
  LET figures == hist[k].months[month]
  IN  figures # NoMonth /\ c \in DOMAIN figures.balance \ CardCategories /\ figures.balance[c] < 0

AgeOf(k, month) ==
  LET figures == hist[k].months[month] IN IF figures = NoMonth THEN NoAge ELSE figures.age

(* Until the 28th the categories reported as newly overspent are those     *)
(* that are overspent and were not in the month before, all of them if the *)
(* plan has no such month; those reported as resolved the other way round; *)
(* and the change of the age of money is told where both months have one.  *)
MonthsCompared ==
  CheckedIn /\ call.asOf.day <= 28 =>
    /\ \A c \in DOMAIN got[3].month.balance :
         LET now == Overspent(got[3].at, call.asOf.month, c)
             before == Overspent(got[4].at, call.asOf.month - 1, c)
         IN  (c \in NewlyOverspent <=> now /\ ~ before) /\ (c \in Resolved <=> before /\ ~ now)
    /\ LET now == AgeOf(got[3].at, call.asOf.month)
           before == AgeOf(got[4].at, call.asOf.month - 1)
       IN  AgeDelta = IF NoAge \in {now, before} THEN NoAge ELSE now - before

(* The check-in compares the current month with the prior month, on every  *)
(* day of the month.                                                       *)
ComparesPriorMonth ==
  CheckedIn => Requests(call)[4].month = call.asOf.month - 1

-----------------------------------------------------------------------------
(* Said of the tools by the source, and not so: see the README.            *)

(* The check-in's totals are exact whatever was listed before it.          *)
WeeksAlwaysExact ==
  CheckedIn /\ ~ got[1].truncated =>
    \E k \in start..Len(hist) : Totals = TotalsOf(hist[k].rows)

(* With a truncated fetch the weekly deltas are lower bounds.              *)
DeltasAreLowerBounds ==
  CheckedIn /\ CacheFits =>
    LET due == TotalsOf(hist[got[1].at].rows)
    IN  /\ Totals.thisIn - Totals.priorIn <= due.thisIn - due.priorIn
        /\ Totals.thisOut - Totals.priorOut <= due.thisOut - due.priorOut

(* With a truncated fetch the spending found is a lower bound.             *)
SpendingIsLowerBound ==
  Checked /\ got[1].at = got[Len(got)].at =>
    LET rows == hist[got[1].at].rows
    IN  Actual <= - AmountIn(rows, {i \in Ids : InScope(rows[i])})

(* Every transaction in scope throughout the call is counted, whichever of *)
(* the listed categories it is moved to.                                   *)
SpendingMissesNothing ==
  Checked /\ ~ Truncated =>
    \A i \in Ids :
      (\A k \in got[1].at..got[Len(got)].at : InScope(hist[k].rows[i])) => Seen[i] # NoRow
=============================================================================
