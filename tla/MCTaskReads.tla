---------------------------- MODULE MCTaskReads ----------------------------
(***************************************************************************)
(* Instances of TaskReads for TLC.  Amounts differ so that no two sums     *)
(* are the same by chance; dates are the edges of the two weeks that end   *)
(* on 14 March 2024, in a leap year.                                       *)
(***************************************************************************)
EXTENDS TaskReads, TLC

March(day) == On(2024, 3, day)
Leap == On(2024, 2, 29)

Spent(date, amount, category, approved, payee) ==
  [date |-> date, amount |-> amount, category |-> category, transfer |-> FALSE,
   approved |-> approved, payee |-> payee]

Moved(date, amount) ==
  [date |-> date, amount |-> amount, category |-> "none", transfer |-> TRUE,
   approved |-> FALSE, payee |-> "none"]

MCEntries ==
  {Spent(March(14), -1, "food", FALSE, "diner"), Spent(March(8), 2, "food", TRUE, "none"),
   Spent(March(7), -4, "fun", FALSE, "none"), Spent(March(1), 8, "none", TRUE, "none"),
   Spent(Leap, -16, "food", TRUE, "none"), Spent(March(15), -32, "food", TRUE, "none"),
   Moved(March(8), 64)}

Figures(age, food, card) ==
  [age |-> age, balance |-> [c \in {"food", "card"} |-> IF c = "food" THEN food ELSE card]]

MCMonthStates == {Figures(NoAge, f, c) : f \in {-1, 0}, c \in {-1, 0}} \cup {Figures(9, 0, 0), Figures(12, -1, 0)}

MCMonths == MonthOf(2024, 2)..MonthOf(2024, 3)

NoRows == [i \in Ids |-> NoRow]

(* Either the transactions vary or the months do.                          *)
Ledgers == {Ledger(choice) : choice \in [Items -> MCEntries \cup {NoRow}]}

Plain == [m \in MCMonths |-> Figures(NoAge, 0, 0)]

MCInitialPlans ==
  {[rows |-> r, months |-> Plain] : r \in Ledgers}
  \cup {[rows |-> NoRows, months |-> m] : m \in [MCMonths -> MCMonthStates \cup {NoMonth}]}

Check(categories, excluded, budget) ==
  [tool |-> "check", categories |-> categories, from |-> March(1), to |-> March(14),
   excluded |-> excluded, budget |-> budget]

MCCalls ==
  {Check(<<"food", "fun">>, {}, 1), Check(<<"food", "food">>, {"diner"}, 0),
   [tool |-> "checkin", asOf |-> March(14)]}

MCLateCalls == {[tool |-> "checkin", asOf |-> March(day)] : day \in 27..31}

MCPrimings == {Leap, March(8)}

Symmetry == Permutations(Items)
=============================================================================
