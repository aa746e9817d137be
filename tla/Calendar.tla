------------------------------ MODULE Calendar ------------------------------
(***************************************************************************)
(* Civil dates, as far as the program uses time.Time: a date is a month,   *)
(* counted from January of year 0, and a day of it.  time.Parse and Format *)
(* with "2006-01-02" map these to ISO strings and back, whose              *)
(* lexicographic order is Before.                                          *)
(***************************************************************************)
EXTENDS Integers

IsLeap(year) == year % 4 = 0 /\ (year % 100 # 0 \/ year % 400 = 0)

February(year) == IF IsLeap(year) THEN 29 ELSE 28

(* month % 12 is 0 in January.                                             *)
MonthLength(month) ==
  LET m == month % 12
  IN  IF m = 1 THEN February(month \div 12) ELSE IF m \in {3, 5, 8, 10} THEN 30 ELSE 31

Date == {t \in [month : Nat, day : 1..31] : t.day <= MonthLength(t.month)}

MonthOf(year, m) == 12 * year + m - 1

On(year, m, d) == [month |-> MonthOf(year, m), day |-> d]

(* time.Time.Before, at midnight                                           *)
Before(s, t) == s.month < t.month \/ (s.month = t.month /\ s.day < t.day)

(* time.Date normalizes a day outside its month by moving the excess to    *)
(* the next or the previous one; one month suffices, as no caller adds or  *)
(* takes more than 28 days.                                                *)
Normal(month, day) ==
  IF day > MonthLength(month)
    THEN [month |-> month + 1, day |-> day - MonthLength(month)]
  ELSE IF day < 1
    THEN [month |-> month - 1, day |-> day + MonthLength(month - 1)]
  ELSE [month |-> month, day |-> day]

(* time.Time.AddDate; a year is twelve months.                             *)
AddDate(t, months, days) == Normal(t.month + months, t.day + days)

(* Days since the beginning of year 0.                                     *)
DayNumber(t) ==
  LET y == t.month \div 12
      m == t.month % 12
      before == <<0, 31, 59, 90, 120, 151, 181, 212, 243, 273, 304, 334>>
      leaps == IF y = 0 THEN 0 ELSE (y - 1) \div 4 - (y - 1) \div 100 + (y - 1) \div 400 + 1
  IN  365 * y + leaps + before[m + 1] + (IF m > 1 /\ IsLeap(y) THEN 1 ELSE 0) + t.day

(* daysBetween                                                             *)
DaysBetween(from, to) == DayNumber(to) - DayNumber(from)
=============================================================================
