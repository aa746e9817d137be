---------------------------- MODULE DebtSnapshot ----------------------------
(***************************************************************************)
(* ynab_debt_snapshot: one call of the tool, from its checks through the   *)
(* simulations of simulateAvalanche.  Amounts are milliunits.              *)
(*                                                                         *)
(*   Check          validation, list_accounts, the refusals before a       *)
(*                  simulation;                                            *)
(*   Accrue, PayMinimums, PayExtra                                         *)
(*                  the three steps of a simulated month;                  *)
(*   EndSimulation  refuse the call, simulate again with the extra         *)
(*                  payment, or answer.                                    *)
(*                                                                         *)
(* A row is one entry of debt_account_config.  The sort of the milestones, *)
(* names and dates are left out.  Integers do not wrap: the amounts YNAB   *)
(* holds are far from the edge of an int64.  Minimums come from the caller *)
(* unbounded, and two of them near the edge would wrap where they are      *)
(* added up (tools_tasks.go:236); the model has no such wrap.              *)
(***************************************************************************)
EXTENDS Integers, Sequences, FiniteSetsExt, Functions

CONSTANTS
  Accounts,    \* accounts of the plan
  Debts,       \* what an account may owe
  Credits,     \* balances of accounts that are not in debt
  MaxRows,     \* bound on the rows of a config
  Aprs,        \* apr_percent of a row, Fine of them to a basis point
  Fine,
  MaxApr,      \* the highest APR accepted
  Minimums,    \* minimum payments callers pass
  Extras,      \* extra payments callers pass
  MaxExtra,    \* maxExtraPerMonthMilliunits
  MaxAnnual,   \* maxForAnnualMul
  Divisor,     \* 120_000: basis points of a year in a month
  MaxMonths    \* maxMonths

ASSUME DebtAssumption ==
  /\ Debts \subseteq Nat /\ Credits \subseteq Nat
  /\ Minimums \subseteq Int /\ Extras \subseteq Int /\ Aprs \subseteq Int
  /\ {MaxRows, MaxApr, MaxExtra, MaxAnnual, MaxMonths} \subseteq Nat
  /\ {Fine, Divisor} \subseteq Nat \ {0}

VARIABLES
  plan,       \* the open accounts list_accounts returns
  config,     \* in.DebtAccountConfig
  extra,      \* in.ExtraPerMonthMilliunits
  stage,      \* "called", the simulation that runs, "answered" or "refused"
  reason,     \* the error of a refused call
  step,       \* the next step of the month
  order,      \* rows by descending APR
  balances, paidOffMonth, totalInterest, month, remainingExtra, preTotal,
  due,        \* history: what the rows owed after this month's interest
  projections \* the simulations done

inputs == <<plan, config, extra>>
sim == <<order, balances, paidOffMonth, totalInterest, month, remainingExtra, preTotal, due>>
debtVars == <<inputs, stage, reason, step, sim, projections>>

Rows == DOMAIN config

(* YNAB's balances: negative when money is owed.                           *)
Balances == {- d : d \in Debts} \cup Credits

-----------------------------------------------------------------------------
(* Mutated forms, for mutation testing.                                    *)

UncheckedMinimums(b) == [i \in Rows |-> b[i] - config[i].minimum]

OnlyCoveredMinimums(b) == [i \in Rows |-> IF config[i].minimum > b[i] THEN 0 ELSE b[i]]

ForgottenLeftovers(b) == 0

SlowIsStalled(m, pre, post) == m > 0 /\ post + 1 >= pre

ZeroBased == month

ConfigOrder == {[i \in Rows |-> i]}

-----------------------------------------------------------------------------
(* aprToBasisPoints: round half away from zero; an APR is not negative.    *)
AprToBasisPoints(apr) == (2 * apr + Fine) \div (2 * Fine)

aprBps == [i \in Rows |-> AprToBasisPoints(config[i].apr)]

minimums == [i \in Rows |-> config[i].minimum]

MonthlyInterest(b, bps) == (b * bps) \div Divisor

(* What a row owes: the balance with its sign flipped, a credit as zero.   *)
Owed == [i \in Rows |-> Max({0, - plan[config[i].account]})]

FirstInterest == [i \in Rows |-> MonthlyInterest(Owed[i], aprBps[i])]

(* Rows of out.Warnings.                                                   *)
Warned == {i \in Rows : minimums[i] <= FirstInterest[i]}

Valid ==
  /\ config # <<>>
  /\ extra \in 0..MaxExtra
  /\ \A i \in Rows : config[i].apr \in 0..MaxApr /\ minimums[i] >= 0

Found == \A i \in Rows : config[i].account \in DOMAIN plan

Problem ==
  CASE ~ Valid -> "invalid"
    [] Valid /\ ~ Found -> "not_found"
    [] OTHER ->
         IF SumFunction(minimums) + extra <= SumFunction(FirstInterest)
         THEN "negative_amortization"
         ELSE IF SumFunction(FirstInterest) > MaxAnnual THEN "out_of_range" ELSE "none"

-----------------------------------------------------------------------------
(* A month of the simulation, from the balances b at each of its steps.    *)

Accrued(b) == [i \in Rows |-> b[i] + MonthlyInterest(b[i], aprBps[i])]

(* Rows whose minimum is more than they owe.                               *)
Covered(b) == {i \in Rows : b[i] > 0 /\ minimums[i] > b[i]}

AfterMinimums(b) == [i \in Rows |-> Max({0, b[i] - minimums[i]})]

Leftovers(b) == SumFunctionOnSet([i \in Rows |-> minimums[i] - b[i]], Covered(b))

(* What the rows sorted before i owe.                                      *)
OwedBefore(b, i) ==
  LET k == CHOOSE j \in Rows : order[j] = i
  IN  SumFunctionOnSet([j \in Rows |-> b[order[j]]], 1..(k - 1))

AfterExtra(b, pot) ==
  [i \in Rows |-> b[i] - Min({b[i], Max({0, pot - OwedBefore(b, i)})})]

AllPaidOff(b) == \A i \in Rows : b[i] = 0

Stalled(m, pre, post) == m > 0 /\ post >= pre

(* sort.Slice is not stable: rows with the same APR come in any order.     *)
AprOrder ==
  {s \in [Rows -> Rows] :
     IsInjective(s) /\ \A i, j \in Rows : i < j => aprBps[s[i]] >= aprBps[s[j]]}

monthOneBased == month + 1

(* The extra payment of the simulation that runs.                          *)
ExtraPerMonth == IF stage = "with_extra" THEN extra ELSE 0

-----------------------------------------------------------------------------
DebtInit ==
  /\ plan \in UNION {[S -> Balances] : S \in SUBSET Accounts}
  /\ config \in UNION {[1..n -> [account : Accounts, apr : Aprs, minimum : Minimums]] :
                         n \in 0..MaxRows}
  /\ extra \in Extras
  /\ stage = "called" /\ reason = "none" /\ step = "none"
  /\ order = <<>> /\ balances = <<>> /\ paidOffMonth = <<>> /\ due = <<>>
  /\ totalInterest = 0 /\ month = 0 /\ remainingExtra = 0 /\ preTotal = 0
  /\ projections = <<>>

Refuse(why) ==
  /\ stage' = "refused" /\ reason' = why /\ step' = "none"
  /\ UNCHANGED <<sim, projections>>

(* simulateAvalanche is called.                                            *)
Simulate(which) ==
  /\ stage' = which /\ step' = "accrue"
  /\ order' \in AprOrder
  /\ balances' = Owed
  /\ paidOffMonth' = [i \in Rows |-> 0]
  /\ due' = Owed
  /\ totalInterest' = 0 /\ month' = 0 /\ remainingExtra' = 0 /\ preTotal' = 0
  /\ UNCHANGED reason

Check ==
  /\ stage = "called"
  /\ \/ Problem # "none" /\ Refuse(Problem)
     \/ Valid /\ Refuse("unavailable")
     \/ Problem = "none" /\ Simulate("minimums_only") /\ UNCHANGED projections
  /\ UNCHANGED inputs

(* Step 1, at the head of the loop.                                        *)
Accrue ==
  /\ step = "accrue" /\ month < MaxMonths /\ ~ AllPaidOff(balances)
  /\ preTotal' = SumFunction(balances)
  /\ balances' = Accrued(balances)
  /\ due' = balances'
  /\ totalInterest' = totalInterest + SumFunction(balances') - preTotal'
  /\ step' = "minimums"
  /\ UNCHANGED <<inputs, stage, reason, order, paidOffMonth, month, remainingExtra, projections>>

(* Step 2.  A row whose minimum is just what it owes is paid by the        *)
(* ordinary subtraction and gets no month.                                 *)
PayMinimums ==
  /\ step = "minimums"
  /\ balances' = AfterMinimums(balances)
  /\ paidOffMonth' = [i \in Rows |->
       IF i \in Covered(balances) THEN monthOneBased ELSE paidOffMonth[i]]
  /\ remainingExtra' = ExtraPerMonth + Leftovers(balances)
  /\ step' = "extra"
  /\ UNCHANGED <<inputs, stage, reason, order, totalInterest, month, preTotal, due, projections>>

(* Step 3, and the check that the debt went down.                          *)
PayExtra ==
  /\ step = "extra"
  /\ balances' = AfterExtra(balances, remainingExtra)
  /\ paidOffMonth' = [i \in Rows |->
       IF balances[i] > 0 /\ balances'[i] = 0 THEN monthOneBased ELSE paidOffMonth[i]]
  /\ remainingExtra' = Max({0, remainingExtra - SumFunction(balances)})
  /\ IF Stalled(month, preTotal, SumFunction(balances'))
     THEN step' = "stalled" /\ UNCHANGED month
     ELSE step' = "accrue" /\ month' = month + 1
  /\ UNCHANGED <<inputs, stage, reason, order, totalInterest, preTotal, due, projections>>

Projection == [months |-> month, interest |-> totalInterest, payoff |-> paidOffMonth]

EndSimulation ==
  /\ \/ step = "stalled"
     \/ step = "accrue" /\ (AllPaidOff(balances) \/ month = MaxMonths)
  /\ IF ~ AllPaidOff(balances)
     THEN Refuse("did_not_converge")
     ELSE /\ projections' = Append(projections, Projection)
          /\ IF stage = "minimums_only" /\ extra > 0
             THEN Simulate("with_extra")
             ELSE stage' = "answered" /\ step' = "none" /\ UNCHANGED <<reason, sim>>
  /\ UNCHANGED inputs

DebtNext == Check \/ Accrue \/ PayMinimums \/ PayExtra \/ EndSimulation

DebtSpec == DebtInit /\ [][DebtNext]_debtVars

-----------------------------------------------------------------------------
(* Types: amounts are never negative, and a simulation ends within the     *)
(* cap.                                                                    *)
DebtTypeOK ==
  /\ stage \in {"called", "minimums_only", "with_extra", "answered", "refused"}
  /\ reason \in {"none", "invalid", "unavailable", "not_found", "negative_amortization",
                 "out_of_range", "did_not_converge"}
  /\ step \in {"none", "accrue", "minimums", "extra", "stalled"}
  /\ stage # "called" /\ step # "none" =>
       /\ order \in [Rows -> Rows] /\ IsInjective(order)
       /\ {balances, due} \subseteq [Rows -> Nat]
       /\ paidOffMonth \in [Rows -> 0..MaxMonths]
  /\ month \in 0..MaxMonths
  /\ {totalInterest, remainingExtra, preTotal} \subseteq Nat
  /\ Len(projections) <= 2

MonthDone == step = "stalled" \/ (step = "accrue" /\ month > 0)

(* A month spends all that it may, and nothing else: the minimums of the   *)
(* rows that owe something and the extra payment, less only when the debt  *)
(* ends.  The leftover of a minimum and the overflow of the extra payment  *)
(* are neither lost nor spent twice.                                       *)
MonthSpendsItsCapacity ==
  MonthDone =>
    SumFunction(due) - SumFunction(balances) =
      Min({SumFunction(due),
           SumFunctionOnSet(minimums, {i \in Rows : due[i] > 0}) + ExtraPerMonth})

(* Avalanche: a row gets more than its minimum only in a month that leaves *)
(* every row of a higher APR paid off.                                     *)
HighestAprFirst ==
  MonthDone =>
    \A i, j \in Rows :
      aprBps[i] > aprBps[j] /\ due[j] - balances[j] > minimums[j] => balances[i] = 0

(* Every month conserves the money and spends it in avalanche order.       *)
AvalancheMonth == MonthSpendsItsCapacity /\ HighestAprFirst

(* When every minimum exceeds the first month's interest on its row by a   *)
(* MaxMonths-th of what the row owes, the call is never refused for lack   *)
(* of convergence: no month stalls, with or without an extra payment, and  *)
(* the cap is far enough.                                                  *)
AmortizingConverges ==
  stage = "refused" /\ reason = "did_not_converge" =>
    \E i \in Rows : MaxMonths * (minimums[i] - FirstInterest[i]) < Owed[i]

(* A milestone is a month of its projection in which a row that had a debt *)
(* ended it, and the debt-free month is the last of them when every row    *)
(* with a debt has one.                                                    *)
MilestonesFitProjection ==
  \A p \in DOMAIN projections :
    LET payoff == projections[p].payoff
        months == projections[p].months
        indebted == {i \in Rows : Owed[i] > 0}
    IN  /\ \A i \in Rows : payoff[i] \in 0..months /\ (payoff[i] > 0 => i \in indebted)
        /\ indebted # {} /\ (\A i \in indebted : payoff[i] > 0) =>
             \E i \in indebted : payoff[i] = months

-----------------------------------------------------------------------------
(* What the source says and the code does not do.                          *)

(* tools_tasks.go:344-346: when a debt is paid off, its minimum is rolled  *)
(* to the next one.  So every month spends all the minimums and the extra  *)
(* payment until the debt ends.                                            *)
FreedMinimumsRoll ==
  MonthDone =>
    SumFunction(due) - SumFunction(balances) =
      Min({SumFunction(due), SumFunction(minimums) + ExtraPerMonth})

(* tools_tasks.go:69-71: payoff_order shows the order in which accounts    *)
(* hit zero.  So every row that had a debt has a milestone.                *)
EveryDebtHasMilestone ==
  \A p \in DOMAIN projections :
    \A i \in Rows : Owed[i] > 0 => projections[p].payoff[i] > 0

(* tools.go:805: the second scenario shows how much faster the debt is     *)
(* paid off with additional monthly payment.  So it is never slower.       *)
ExtraIsNotSlower ==
  Len(projections) = 2 => projections[2].months <= projections[1].months

(* The balances a month after those of B, for the simulation that runs.    *)
MonthLater(B) ==
  {AfterExtra(AfterMinimums(d), ExtraPerMonth + Leftovers(d)) : d \in {Accrued(b) : b \in B}}

(* tools_tasks.go:500: a call is refused as not convergent within the      *)
(* months of the cap.  So a simulation that stops because the debt did not *)
(* go down for a month would not end the debt within the cap.  What a row  *)
(* frees when it ends can turn the others round.                           *)
StalledMeansHopeless ==
  step = "stalled" =>
    LET reached[k \in 0..(MaxMonths - month)] ==
          IF k = 0 THEN {balances}
          ELSE LET before == reached[k - 1] IN before \cup MonthLater(before)
    IN  \A b \in reached[MaxMonths - month] : ~ AllPaidOff(b)

(* tools_tasks.go:83-87: a warning is non-fatal, the projection still      *)
(* converges.  So a call with enough capacity in the first month is not    *)
(* refused for a row that grows under its minimum.                         *)
WarningIsNotFatal == reason = "did_not_converge" => Warned = {}

(* tools_tasks.go:331-335: rounding interest down in no case changes the   *)
(* number of months.  With one row and the minimum only: exact interest    *)
(* leaves no debt after the projected months.  The k-th exact balance is   *)
(* kept times Divisor ^ k.                                                 *)
FloorKeepsMonths ==
  Len(config) = 1 /\ projections # <<>> =>
    LET exact[k \in 0..projections[1].months] ==
          IF k = 0 THEN Owed[1]
          ELSE exact[k - 1] * (Divisor + aprBps[1]) - minimums[1] * Divisor ^ k
    IN  exact[projections[1].months] <= 0
=============================================================================
