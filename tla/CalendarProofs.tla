---------------------------- MODULE CalendarProofs ----------------------------
(***************************************************************************)
(* What holds of every schedule of recurring payments and of every call of *)
(* ynab_spending_check and ynab_weekly_checkin.  Both walk a calendar, so  *)
(* the first part is about dates, months and the days between them.        *)
(*                                                                         *)
(* Schedules: any date_next, any window, any limit on iterations.  After k *)
(* steps the loop is k periods after date_next, in months up to three days *)
(* late once a month lacked the day; what it returns is read off from that.*)
(*                                                                         *)
(* Calls: any rows, any plan that changes between the requests of a call,  *)
(* any answers cut by the server.  Each answer is what the plan held when  *)
(* the answer was given, and what a call says is derived from the answers. *)
(***************************************************************************)
EXTENDS MoneyProofs, Recurrence, TaskReads

(* The calendar.                                                           *)

(* A month has 28 to 31 days.                                              *)
LEMMA MonthLengthRange ==
  ASSUME NEW m \in Int
  PROVE  MonthLength(m) \in 28..31
BY DEF MonthLength, February

(* The days before each month of a year that is no leap year.              *)
Elapsed == <<0, 31, 59, 90, 120, 151, 181, 212, 243, 273, 304, 334>>

(* The leap years before year y.                                           *)
Leaps(y) == IF y = 0 THEN 0 ELSE (y - 1) \div 4 - (y - 1) \div 100 + (y - 1) \div 400 + 1

(* The days before month m of year y, and before the n-th of all months.   *)
DaysBeforeIn(y, m) ==
  365 * y + Leaps(y) + Elapsed[m + 1] + (IF m > 1 /\ IsLeap(y) THEN 1 ELSE 0)

DaysBefore(n) == DaysBeforeIn(n \div 12, n % 12)

(* A date is numbered by the days before its month and its day.            *)
LEMMA DayNumberOfDate ==
  ASSUME NEW t \in Date
  PROVE  DayNumber(t) = DaysBefore(t.month) + t.day
BY DEF DayNumber, DaysBefore, DaysBeforeIn, Leaps, Elapsed

(* The next year has one leap year more before it if this one is a leap    *)
(* year.                                                                   *)
LEMMA OneMoreLeap ==
  ASSUME NEW y \in Nat
  PROVE  Leaps(y) \in Int /\ Leaps(y + 1) = Leaps(y) + (IF IsLeap(y) THEN 1 ELSE 0)
<1>1. CASE y = 0
  BY <1>1 DEF Leaps, IsLeap
<1>2. CASE y > 0
  <2> DEFINE a == (y - 1) \div 4
             b == (y - 1) \div 100
             c == (y - 1) \div 400
  <2>1. a \in Int /\ y \div 4 = a + (IF y % 4 = 0 THEN 1 ELSE 0)
    BY <1>2
  <2>2. b \in Int /\ y \div 100 = b + (IF y % 100 = 0 THEN 1 ELSE 0)
    BY <1>2
  <2>3. c \in Int /\ y \div 400 = c + (IF y % 400 = 0 THEN 1 ELSE 0)
    BY <1>2
  <2>4. (y % 400 = 0 => y % 100 = 0) /\ (y % 100 = 0 => y % 4 = 0)
    OBVIOUS
  <2>5. Leaps(y) = a - b + c + 1
    BY <1>2 DEF Leaps
  <2>6. Leaps(y + 1) = (y \div 4) - (y \div 100) + (y \div 400) + 1
    BY <1>2 DEF Leaps
  <2> HIDE DEF a, b, c
  <2> QED
    BY <2>1, <2>2, <2>3, <2>4, <2>5, <2>6 DEF IsLeap
<1> QED BY <1>1, <1>2

(* The n-th of all months is the m-th of year y.                           *)
LEMMA MonthLengthIn ==
  ASSUME NEW n \in Nat, NEW y \in Nat, NEW m \in 0..11, n = 12 * y + m
  PROVE  /\ DaysBefore(n) = DaysBeforeIn(y, m)
         /\ MonthLength(n) = IF m = 1 THEN February(y) ELSE IF m \in {3, 5, 8, 10} THEN 30 ELSE 31
<1>1. n \div 12 = y /\ n % 12 = m
  OBVIOUS
<1> QED BY <1>1 DEF DaysBefore, MonthLength

(* Each month begins where the one before it ends, across leap days and    *)
(* centuries.                                                              *)
LEMMA MonthAfterMonth ==
  ASSUME NEW n \in Nat
  PROVE  DaysBefore(n) \in Int /\ DaysBefore(n + 1) = DaysBefore(n) + MonthLength(n)
<1> DEFINE y == n \div 12
           m == n % 12
<1>1. y \in Nat /\ m \in 0..11 /\ n = 12 * y + m
  OBVIOUS
<1> HIDE DEF y, m
<1>2. /\ Leaps(y) \in Int
      /\ Leaps(y + 1) = Leaps(y) + (IF IsLeap(y) THEN 1 ELSE 0)
  BY <1>1, OneMoreLeap
<1>3. /\ DaysBefore(n) = DaysBeforeIn(y, m)
      /\ MonthLength(n) = IF m = 1 THEN February(y) ELSE IF m \in {3, 5, 8, 10} THEN 30 ELSE 31
  BY <1>1, MonthLengthIn
<1>4. February(y) = IF IsLeap(y) THEN 29 ELSE 28
  BY DEF February
<1>5. m \in {0, 1, 2, 3, 4, 5, 6, 7, 8, 9, 10, 11}
  BY <1>1
<1>6. DaysBefore(n) \in Int
  BY <1>1, <1>2, <1>3, <1>5 DEF DaysBeforeIn, Elapsed
<1>7. CASE m = 11
  <2>1. DaysBefore(n + 1) = DaysBeforeIn(y + 1, 0)
    <3>1. n + 1 = 12 * (y + 1) + 0 /\ n + 1 \in Nat /\ y + 1 \in Nat
      BY <1>1, <1>7
    <3> DEFINE k == n + 1
               z == y + 1
    <3>2. k = 12 * z + 0 /\ k \in Nat /\ z \in Nat
      BY <3>1
    <3> HIDE DEF k, z
    <3>3. DaysBefore(k) = DaysBeforeIn(z, 0)
      BY <3>2, MonthLengthIn
    <3> QED BY <3>3 DEF k, z
  <2>2. DaysBeforeIn(y + 1, 0) = 365 * (y + 1) + Leaps(y + 1)
    <3>1. Leaps(y + 1) \in Int
      BY <1>2
    <3> QED BY <1>1, <3>1 DEF DaysBeforeIn, Elapsed
  <2>3. DaysBeforeIn(y, m) = 365 * y + Leaps(y) + 334 + (IF IsLeap(y) THEN 1 ELSE 0)
    BY <1>7 DEF DaysBeforeIn, Elapsed
  <2> QED BY <1>1, <1>2, <1>3, <1>7, <2>1, <2>2, <2>3
<1>8. CASE m < 11
  <2>1. DaysBefore(n + 1) = DaysBeforeIn(y, m + 1)
    <3> DEFINE k == n + 1
               l == m + 1
    <3>1. k = 12 * y + l /\ k \in Nat /\ l \in 0..11
      BY <1>1, <1>8
    <3> HIDE DEF k, l
    <3>2. DaysBefore(k) = DaysBeforeIn(y, l)
      BY <1>1, <3>1, MonthLengthIn
    <3> QED BY <3>2 DEF k, l
  <2>2. m \in {0, 1, 2, 3, 4, 5, 6, 7, 8, 9, 10}
    BY <1>5, <1>8
  <2>3. Elapsed[m + 2] = Elapsed[m + 1]
                          + (IF m = 1 THEN 28 ELSE IF m \in {3, 5, 8, 10} THEN 30 ELSE 31)
        /\ Elapsed[m + 1] \in Int
    BY <2>2 DEF Elapsed
  <2>4. DaysBeforeIn(y, m + 1) =
          365 * y + Leaps(y) + Elapsed[m + 2] + (IF m + 1 > 1 /\ IsLeap(y) THEN 1 ELSE 0)
    <3>1. (m + 1) + 1 = m + 2
      BY <1>1
    <3> QED BY <3>1 DEF DaysBeforeIn
  <2>5. DaysBeforeIn(y, m) =
          365 * y + Leaps(y) + Elapsed[m + 1] + (IF m > 1 /\ IsLeap(y) THEN 1 ELSE 0)
    BY DEF DaysBeforeIn
  <2> QED BY <1>1, <1>2, <1>3, <1>4, <2>1, <2>2, <2>3, <2>4, <2>5
<1> QED BY <1>5, <1>6, <1>7, <1>8

(* A sequence that grows by an element.                                    *)
LEMMA Grows ==
  ASSUME NEW S, NEW s \in Seq(S), NEW x \in S
  PROVE  LET t == Append(s, x)
         IN  /\ t \in Seq(S) /\ Len(t) = Len(s) + 1 /\ Len(s) \in Nat
             /\ DOMAIN s = 1..Len(s) /\ DOMAIN t = 1..(Len(s) + 1)
             /\ t[Len(s) + 1] = x
             /\ \A k \in 1..Len(s) : t[k] = s[k]
OBVIOUS

(* A later month begins after an earlier one has ended.                    *)
LEMMA MonthsInOrder ==
  ASSUME NEW m \in Nat, NEW n \in Nat, m < n
  PROVE  /\ DaysBefore(m) \in Int /\ DaysBefore(n) \in Int
         /\ DaysBefore(m) + MonthLength(m) <= DaysBefore(n)
<1> DEFINE G == {k \in 0..(n - (m + 1)) : DaysBefore(m + 1) <= DaysBefore(m + 1 + k)}
           last == n - (m + 1)
<1>1. last \in Nat /\ m + 1 \in Nat /\ m + 1 + 0 = m + 1 /\ m + 1 + last = n
  OBVIOUS
<1>2. DaysBefore(m + 1) \in Int /\ DaysBefore(m) \in Int /\ DaysBefore(n) \in Int
      /\ DaysBefore(m + 1) = DaysBefore(m) + MonthLength(m)
  BY <1>1, MonthAfterMonth
<1>3. 0 \in G
  BY <1>1, <1>2
<1>4. ASSUME NEW k \in 0..(last - 1), k \in G PROVE k + 1 \in G
  <2> DEFINE j == m + 1 + k
  <2>1. j \in Nat /\ k + 1 \in 0..last
    BY <1>1
  <2>2. m + 1 + (k + 1) = j + 1
    BY <1>1
  <2>3. DaysBefore(m + 1) <= DaysBefore(j)
    BY <1>4
  <2> HIDE DEF j
  <2>4. DaysBefore(j) \in Int /\ DaysBefore(j + 1) = DaysBefore(j) + MonthLength(j)
        /\ MonthLength(j) \in 28..31
    BY <2>1, MonthAfterMonth, MonthLengthRange
  <2>5. DaysBefore(m + 1) <= DaysBefore(j + 1)
    BY <1>2, <2>3, <2>4
  <2>6. DaysBefore(m + 1) <= DaysBefore(m + 1 + (k + 1))
    BY <2>2, <2>5
  <2> QED BY <2>1, <2>6
<1>5. last \in G
  <2> HIDE DEF G, last
  <2>1. 0..last \subseteq G
    BY <1>1, <1>3, <1>4, ByStep
  <2> QED BY <1>1, <2>1
<1>6. DaysBefore(m + 1) <= DaysBefore(n)
  <2>1. DaysBefore(m + 1) <= DaysBefore(m + 1 + last)
    BY <1>5
  <2> QED BY <1>1, <2>1
<1> QED BY <1>2, <1>6

(* Dates are in the order of their day numbers: what is compared as        *)
(* strings and what daysBetween measures agree.                            *)
LEMMA BeforeByDays ==
  ASSUME NEW s \in Date, NEW t \in Date
  PROVE  /\ DayNumber(s) \in Int /\ DayNumber(t) \in Int
         /\ Before(s, t) <=> DayNumber(s) < DayNumber(t)
<1>1. ASSUME NEW u \in Date, NEW v \in Date, Before(u, v)
      PROVE  DayNumber(u) \in Int /\ DayNumber(v) \in Int /\ DayNumber(u) < DayNumber(v)
  <2>1. /\ u.month \in Nat /\ u.day \in 1..31 /\ u.day <= MonthLength(u.month)
        /\ v.month \in Nat /\ v.day \in 1..31
    BY DEF Date
  <2>2. DayNumber(u) = DaysBefore(u.month) + u.day /\ DayNumber(v) = DaysBefore(v.month) + v.day
    BY DayNumberOfDate
  <2>3. DaysBefore(u.month) \in Int /\ DaysBefore(v.month) \in Int
    BY <2>1, MonthAfterMonth
  <2>4. CASE u.month = v.month /\ u.day < v.day
    BY <2>1, <2>2, <2>3, <2>4
  <2>5. CASE u.month < v.month
    <3>1. DaysBefore(u.month) + MonthLength(u.month) <= DaysBefore(v.month)
      BY <2>1, <2>5, MonthsInOrder
    <3>2. MonthLength(u.month) \in 28..31
      BY <2>1, MonthLengthRange
    <3> QED BY <2>1, <2>2, <2>3, <3>1, <3>2
  <2> QED BY <1>1, <2>4, <2>5 DEF Before
<1>2. DayNumber(s) \in Int /\ DayNumber(t) \in Int
  <2>1. s.month \in Nat /\ s.day \in Int /\ t.month \in Nat /\ t.day \in Int
    BY DEF Date
  <2> QED BY <2>1, DayNumberOfDate, MonthAfterMonth
<1>3. Before(s, t) \/ Before(t, s) \/ s = t
  BY DEF Before, Date
<1>4. Before(s, t) => DayNumber(s) < DayNumber(t)
  BY <1>1
<1>5. Before(t, s) => DayNumber(t) < DayNumber(s)
  BY <1>1
<1> QED BY <1>2, <1>3, <1>4, <1>5

(* Days added or taken are days of the calendar.                           *)
LEMMA DaysAdded ==
  ASSUME NEW t \in Date, NEW d \in -28..28, t.month > 0 \/ d >= 0
  PROVE  AddDate(t, 0, d) \in Date /\ DayNumber(AddDate(t, 0, d)) = DayNumber(t) + d
<1> DEFINE m == t.month
           len == MonthLength(m)
           day == t.day + d
<1>1. /\ m \in Nat /\ t.day \in 1..31 /\ t.day <= len
      /\ m + 1 \in Nat /\ m - 1 \in Int /\ (m - 1) + 1 = m /\ m + 0 = m
  BY DEF Date
<1>2. len \in 28..31 /\ MonthLength(m + 1) \in 28..31 /\ MonthLength(m - 1) \in 28..31
  BY <1>1, MonthLengthRange
<1>0. day \in Int /\ day = t.day + d /\ t.day \in Int /\ d \in -28..28 /\ (m > 0 \/ d >= 0)
  BY <1>1
<1>3. AddDate(t, 0, d) = IF day > len THEN [month |-> m + 1, day |-> day - len]
                         ELSE IF day < 1 THEN [month |-> m - 1, day |-> day + MonthLength(m - 1)]
                         ELSE [month |-> m, day |-> day]
  <2>1. Normal(m + 0, day) = Normal(m, day)
    BY <1>1
  <2>2. AddDate(t, 0, d) = Normal(m, day)
    BY <2>1 DEF AddDate
  <2> HIDE DEF m, day
  <2> QED BY <2>2, Zenon DEF Normal
<1>4. /\ DaysBefore(m) \in Int
      /\ DaysBefore(m + 1) = DaysBefore(m) + len
      /\ m > 0 => /\ DaysBefore(m - 1) \in Int
                  /\ DaysBefore(m) = DaysBefore(m - 1) + MonthLength(m - 1)
  <2>1. DaysBefore(m) \in Int /\ DaysBefore(m + 1) = DaysBefore(m) + MonthLength(m)
    BY <1>0, <1>1, MonthAfterMonth
  <2> DEFINE k == m - 1
  <2>2. m > 0 => k \in Nat /\ k + 1 = m
    BY <1>1
  <2>3. m > 0 => DaysBefore(k) \in Int /\ DaysBefore(m) = DaysBefore(k) + MonthLength(k)
    <3> HIDE DEF k, m
    <3> QED BY <2>2, MonthAfterMonth
  <2> QED BY <2>1, <2>3
<1>5. DayNumber(t) = DaysBefore(m) + t.day
  BY DayNumberOfDate
<1> HIDE DEF m, len, day
<1>6. CASE day > len
  <2>1. day - len \in 1..31 /\ day - len <= MonthLength(m + 1)
    BY <1>0, <1>1, <1>2, <1>6
  <2>2. AddDate(t, 0, d) = [month |-> m + 1, day |-> day - len]
    BY <1>3, <1>6
  <2>3. AddDate(t, 0, d) \in Date
    BY <1>0, <1>1, <2>1, <2>2 DEF Date
  <2>4. DayNumber(AddDate(t, 0, d)) = DaysBefore(m + 1) + (day - len)
    BY <2>2, <2>3, DayNumberOfDate
  <2> QED BY <1>0, <1>1, <1>2, <1>4, <1>5, <2>3, <2>4
<1>7. CASE day < 1
  <2>0. m > 0 /\ m - 1 \in Nat
    BY <1>0, <1>1, <1>7
  <2>1. /\ day + MonthLength(m - 1) \in 1..31
        /\ day + MonthLength(m - 1) <= MonthLength(m - 1)
    BY <1>0, <1>1, <1>2, <1>7
  <2>2. AddDate(t, 0, d) = [month |-> m - 1, day |-> day + MonthLength(m - 1)]
    BY <1>0, <1>1, <1>2, <1>3, <1>7
  <2>3. AddDate(t, 0, d) \in Date
    BY <1>0, <1>1, <2>0, <2>1, <2>2 DEF Date
  <2>4. DayNumber(AddDate(t, 0, d)) = DaysBefore(m - 1) + (day + MonthLength(m - 1))
    BY <2>2, <2>3, DayNumberOfDate
  <2> QED BY <1>0, <1>1, <1>2, <1>4, <1>5, <2>0, <2>3, <2>4
<1>8. CASE ~ (day > len) /\ ~ (day < 1)
  <2>1. day \in 1..31 /\ day <= MonthLength(m)
    BY <1>0, <1>1, <1>2, <1>8 DEF len
  <2>2. AddDate(t, 0, d) = [month |-> m, day |-> day]
    BY <1>3, <1>8
  <2>3. AddDate(t, 0, d) \in Date
    BY <1>0, <1>1, <2>1, <2>2 DEF Date
  <2>4. DayNumber(AddDate(t, 0, d)) = DaysBefore(m) + (day)
    BY <2>2, <2>3, DayNumberOfDate
  <2> QED BY <1>0, <1>1, <1>4, <1>5, <2>3, <2>4
<1> QED BY <1>6, <1>7, <1>8

(* k months are at least 28 k days.                                        *)
LEMMA MonthsGrow ==
  ASSUME NEW m \in Nat, NEW k \in Nat
  PROVE  /\ DaysBefore(m) \in Int /\ DaysBefore(m + k) \in Int
         /\ DaysBefore(m) + 28 * k <= DaysBefore(m + k)
<1> DEFINE G == {n \in 0..k : DaysBefore(m) + 28 * n <= DaysBefore(m + n)}
<1>1. DaysBefore(m) \in Int /\ m + 0 = m /\ m + k \in Nat
  BY MonthAfterMonth
<1>2. 0 \in G
  BY <1>1
<1>3. ASSUME NEW n \in 0..(k - 1), n \in G PROVE n + 1 \in G
  <2> DEFINE j == m + n
  <2>1. j \in Nat /\ n + 1 \in 0..k /\ m + (n + 1) = j + 1
        /\ 28 * (n + 1) = 28 * n + 28 /\ 28 * n \in Int
    OBVIOUS
  <2>2. DaysBefore(m) + 28 * n <= DaysBefore(j)
    BY <1>3
  <2> HIDE DEF j
  <2>3. DaysBefore(j) \in Int /\ DaysBefore(j + 1) = DaysBefore(j) + MonthLength(j)
        /\ MonthLength(j) \in 28..31
    BY <2>1, MonthAfterMonth, MonthLengthRange
  <2>4. DaysBefore(m) + 28 * (n + 1) <= DaysBefore(m + (n + 1))
    <3> DEFINE a == 28 * n
               b == DaysBefore(m)
               c == DaysBefore(j)
    <3>1. a \in Int /\ b \in Int /\ c \in Int /\ b + a <= c /\ 28 * (n + 1) = a + 28
      BY <1>1, <2>1, <2>2, <2>3
    <3> HIDE DEF a, b, c
    <3>2. b + (a + 28) <= c + MonthLength(j)
      BY <2>3, <3>1
    <3> QED BY <2>1, <2>3, <3>1, <3>2 DEF b, c
  <2> QED BY <2>1, <2>4
<1>4. k \in G
  <2> HIDE DEF G
  <2>1. 0..k \subseteq G
    BY <1>2, <1>3, ByStep
  <2> QED BY <2>1
<1>5. DaysBefore(m + k) \in Int
  BY <1>1, MonthAfterMonth
<1> QED BY <1>1, <1>4, <1>5

(* Months added: the day stays if the month has it; otherwise it is pushed *)
(* into the next month, to where as many days have passed.                 *)
LEMMA MonthsAdded ==
  ASSUME NEW t \in Date, NEW k \in Nat, NEW mth \in Nat, mth = t.month + k
  PROVE  /\ AddDate(t, k, 0) \in Date
         /\ AddDate(t, k, 0) = IF t.day > MonthLength(mth)
                                 THEN [month |-> mth + 1, day |-> t.day - MonthLength(mth)]
                               ELSE [month |-> mth, day |-> t.day]
         /\ DayNumber(AddDate(t, k, 0)) = DaysBefore(mth) + t.day
         /\ DayNumber(t) + 28 * k <= DayNumber(AddDate(t, k, 0))
<1> DEFINE len == MonthLength(mth)
           u == AddDate(t, k, 0)
           day == t.day
<1>1. /\ t.month \in Nat /\ day \in 1..31 /\ mth + 1 \in Nat
      /\ len \in 28..31 /\ MonthLength(mth + 1) \in 28..31 /\ day + 0 = day
  BY MonthLengthRange DEF Date
<1>2. u = IF day > len THEN [month |-> mth + 1, day |-> day - len]
          ELSE [month |-> mth, day |-> day]
  <2>1. u = Normal(mth, day)
    BY <1>1 DEF AddDate
  <2>2. ~ (day < 1)
    BY <1>1
  <2> HIDE DEF u, day
  <2> QED BY <2>1, <2>2 DEF Normal
<1>3. /\ DaysBefore(mth) \in Int /\ DaysBefore(mth + 1) = DaysBefore(mth) + len
      /\ DaysBefore(t.month) \in Int /\ DaysBefore(t.month) + 28 * k <= DaysBefore(mth)
  BY <1>1, MonthAfterMonth, MonthsGrow
<1>4. DayNumber(t) = DaysBefore(t.month) + day
  BY DayNumberOfDate
<1> HIDE DEF len, u, day
<1>5. u \in Date /\ DayNumber(u) = DaysBefore(mth) + day
  <2>1. CASE day > len
    <3>1. u = [month |-> mth + 1, day |-> day - len] /\ day - len \in 1..3
      BY <1>1, <1>2, <2>1
    <3>2. u \in Date
      BY <1>1, <3>1 DEF Date
    <3>3. DayNumber(u) = DaysBefore(mth + 1) + (day - len)
      BY <3>1, <3>2, DayNumberOfDate
    <3> QED BY <1>1, <1>3, <3>2, <3>3
  <2>2. CASE ~ (day > len)
    <3>1. u = [month |-> mth, day |-> day]
      BY <1>2, <2>2
    <3>2. u \in Date
      BY <1>1, <2>2, <3>1 DEF Date, len
    <3> QED BY <3>1, <3>2, DayNumberOfDate
  <2> QED BY <2>1, <2>2
<1>6. DayNumber(t) + 28 * k <= DayNumber(u)
  <2> DEFINE a == 28 * k
             b == DaysBefore(t.month)
             c == DaysBefore(mth)
  <2>1. a \in Int /\ b \in Int /\ c \in Int /\ b + a <= c /\ day \in Int
    BY <1>1, <1>3
  <2> HIDE DEF a, b, c
  <2>2. (b + day) + a <= c + day
    BY <2>1
  <2> QED BY <1>4, <1>5, <2>2 DEF a, b, c
<1> QED BY <1>2, <1>5, <1>6 DEF u, len, day

-----------------------------------------------------------------------------
(* Recurrence: FrequencyOccurrences.                                       *)

(* The order of dates is strict and total.                                 *)
LEMMA BeforeTransitive ==
  ASSUME NEW r \in Date, NEW s \in Date, NEW t \in Date, Before(r, s), ~ Before(t, s)
  PROVE  Before(r, t)
BY DEF Before, Date

(* No date is before itself.                                               *)
LEMMA NotBeforeSelf ==
  ASSUME NEW t \in Date
  PROVE  ~ Before(t, t)
BY DEF Before, Date

(* Of two dates at most one is before the other.                           *)
LEMMA BeforeAsymmetric ==
  ASSUME NEW s \in Date, NEW t \in Date, Before(s, t)
  PROVE  ~ Before(t, s)
BY DEF Before, Date

(* Up to 28 days later is a later date.                                    *)
LEMMA AddDays ==
  ASSUME NEW t \in Date, NEW d \in 1..28
  PROVE  AddDate(t, 0, d) \in Date /\ Before(t, AddDate(t, 0, d))
<1>1. AddDate(t, 0, d) \in Date /\ DayNumber(AddDate(t, 0, d)) = DayNumber(t) + d
  <2>1. d \in -28..28 /\ d >= 0
    OBVIOUS
  <2> QED BY <2>1, DaysAdded
<1>2. DayNumber(t) \in Int
  BY BeforeByDays
<1>3. DayNumber(t) < DayNumber(AddDate(t, 0, d))
  BY <1>1, <1>2
<1> QED BY <1>1, <1>3, BeforeByDays

(* So is the same day some months later, normalized.                       *)
LEMMA AddMonths ==
  ASSUME NEW t \in Date, NEW m \in Nat \ {0}
  PROVE  AddDate(t, m, 0) \in Date /\ Before(t, AddDate(t, m, 0))
<1>1. t.month + m \in Nat
  BY DEF Date
<1>2. /\ AddDate(t, m, 0) \in Date
      /\ DayNumber(t) + 28 * m <= DayNumber(AddDate(t, m, 0))
  BY <1>1, MonthsAdded
<1>3. DayNumber(t) \in Int /\ DayNumber(AddDate(t, m, 0)) \in Int
  BY <1>2, BeforeByDays
<1>4. DayNumber(t) < DayNumber(AddDate(t, m, 0))
  BY <1>2, <1>3
<1> QED BY <1>2, <1>4, BeforeByDays

(* No frequency stands still or steps back, on any date: the loop guard    *)
(* of FrequencyOccurrences never ends a loop.                              *)
THEOREM AdvanceIsLater ==
  ASSUME NEW t \in Date, NEW f \in knownFrequencies
  PROVE  Advance(t, f) \in Date /\ Before(t, Advance(t, f))
<1>1. CASE f \in DOMAIN DayPeriod
  <2>1. DayPeriod[f] \in 1..28
    BY <1>1 DEF DayPeriod
  <2> QED BY <1>1, <2>1, AddDays DEF Advance
<1>2. CASE f \in DOMAIN MonthPeriod /\ f \notin DOMAIN DayPeriod
  <2>1. MonthPeriod[f] \in Nat \ {0}
    BY <1>2 DEF MonthPeriod
  <2> QED BY <1>2, <2>1, AddMonths DEF Advance
<1> QED BY <1>1, <1>2 DEF knownFrequencies

-----------------------------------------------------------------------------
(* The loop starts at date_next with nothing found, runs only for a known  *)
(* frequency that recurs, and never steps back behind date_next.           *)
LoopInv ==
  /\ phase = "called" => cur = dateNext /\ out = <<>>
  /\ phase = "looping" =>
       /\ frequency \in knownFrequencies \ {"never"}
       /\ ~ Before(cur, dateNext)

(* What the loop keeps: its types, where it is, and what it has returned.  *)
RecurrenceIInv == RecurrenceTypeOK /\ LoopInv /\ AscendingInWindow /\ NothingSkipped

(* A call begins with it.                                                  *)
LEMMA InitInv == RecurrenceInit => RecurrenceIInv
BY RecurrenceAssumption
   DEF RecurrenceInit, RecurrenceIInv, RecurrenceTypeOK, LoopInv, AscendingInWindow, NothingSkipped

(* One iteration: what it appends is later than all that went before, lies *)
(* in the window, and is the step the loop took from the last one; a date  *)
(* is passed over only while nothing has been returned.                    *)
LEMMA StepInv == RecurrenceIInv /\ Step => RecurrenceIInv'
<1> SUFFICES ASSUME RecurrenceIInv, Step PROVE RecurrenceIInv'
  OBVIOUS
<1> DEFINE next == Advance(cur, frequency)
<1>1. /\ phase = "looping" /\ iteration < MaxIter /\ ~ PastWindow(cur)
      /\ out' = IF Counts(cur) THEN Append(out, cur) ELSE out
      /\ dateNext' = dateNext
        /\ frequency' = frequency /\ window' = window
  BY DEF Step, scheduleInputs
<1>2. /\ frequency \in knownFrequencies \ {"never"} /\ ~ Before(cur, dateNext)
      /\ cur \in Date /\ out \in Seq(Date) /\ dateNext \in Date
      /\ iteration \in 0..MaxIter
  BY <1>1, RecurrenceAssumption DEF RecurrenceIInv, LoopInv, RecurrenceTypeOK
<1>3. next \in Date /\ Before(cur, next)
  BY <1>2, AdvanceIsLater
<1>4. cur' = next /\ iteration' = iteration + 1 /\ phase' = phase
  BY <1>3 DEF Step
<1> HIDE DEF next
<1>5. \A k \in DOMAIN out : /\ out[k] \in Date
                            /\ InWindow(out[k]) /\ ~ Before(out[k], dateNext)
                            /\ Before(out[k], cur)
                            /\ \A l \in DOMAIN out : k < l => Before(out[k], out[l])
  BY <1>1, <1>2 DEF RecurrenceIInv, AscendingInWindow
<1>6. window.from \in Date /\ window.to \in Date
  BY RecurrenceAssumption DEF RecurrenceIInv, RecurrenceTypeOK
<1>7. Counts(cur) => InWindow(cur)
  BY <1>1 DEF Counts, PastWindow, InWindow
<1>8. ~ Counts(cur) => out = <<>>
  <2>1. SUFFICES ASSUME Before(cur, window.from), out # <<>> PROVE FALSE
    BY DEF Counts
  <2>2. 1 \in DOMAIN out
    BY <1>2, <2>1
  <2>3. Before(out[1], cur) /\ ~ Before(out[1], window.from) /\ out[1] \in Date
    BY <1>5, <2>2 DEF InWindow
  <2>4. Before(out[1], window.from)
    BY <1>2, <1>6, <2>1, <2>3, BeforeAsymmetric, BeforeTransitive
  <2> QED BY <2>3, <2>4
<1>9. RecurrenceTypeOK'
  <2>1. out' \in Seq(Date)
    BY <1>1, <1>2
  <2>2. iteration' \in 0..MaxIter
    BY <1>1, <1>2, <1>4, RecurrenceAssumption
  <2> QED BY <1>1, <1>3, <1>4, <2>1, <2>2 DEF RecurrenceIInv, RecurrenceTypeOK
<1>10. LoopInv'
  <2>1. ~ Before(next, dateNext)
    <3>1. SUFFICES ASSUME Before(next, dateNext) PROVE FALSE
      OBVIOUS
    <3>2. ~ Before(dateNext, next)
      BY <3>1, <1>2, <1>3, BeforeAsymmetric
    <3>3. Before(cur, dateNext)
      BY <1>2, <1>3, <3>1, BeforeAsymmetric, BeforeTransitive
    <3> QED BY <3>3, <1>2
  <2> QED BY <1>1, <1>2, <1>4, <2>1 DEF LoopInv
<1>11. \A k \in DOMAIN out : Before(out[k], next)
  BY <1>2, <1>3, <1>5, BeforeAsymmetric, BeforeTransitive
<1>12. AscendingInWindow'
  <2>1. CASE Counts(cur)
    <3>1. out' = Append(out, cur) /\ DOMAIN out' = 1..Len(out) + 1
      BY <1>1, <1>2, <2>1
    <3>2. out'[Len(out) + 1] = cur /\ \A k \in DOMAIN out : out'[k] = out[k]
      BY <1>2, <3>1
    <3>3. DOMAIN out = 1..Len(out) /\ Len(out) \in Nat
      BY <1>2
    <3>4. \A k \in DOMAIN out' : /\ InWindow(out'[k]) /\ ~ Before(out'[k], dateNext)
                                 /\ Before(out'[k], next)
      BY <1>2, <1>3, <1>5, <1>7, <1>11, <2>1, <3>1, <3>2, <3>3
    <3>5. \A k, l \in DOMAIN out' : k < l => Before(out'[k], out'[l])
      <4>1. SUFFICES ASSUME NEW k \in DOMAIN out', NEW l \in DOMAIN out', k < l
                     PROVE  Before(out'[k], out'[l])
        OBVIOUS
      <4>2. k \in DOMAIN out /\ out'[k] = out[k]
        BY <3>1, <3>2, <3>3, <4>1
      <4>3. CASE l \in DOMAIN out
        BY <1>5, <3>2, <4>1, <4>2, <4>3
      <4>4. CASE l = Len(out) + 1
        BY <1>5, <3>2, <4>2, <4>4
      <4> QED BY <3>1, <3>3, <4>3, <4>4
    <3> QED BY <1>1, <1>4, <3>4, <3>5 DEF AscendingInWindow, InWindow
  <2>2. CASE ~ Counts(cur)
    <3>1. out' = <<>>
      BY <1>1, <1>8, <2>2
    <3> QED BY <3>1 DEF AscendingInWindow
  <2> QED BY <2>1, <2>2
<1>13. NothingSkipped'
  <2>1. CASE Counts(cur)
    <3>1. out' = Append(out, cur) /\ DOMAIN out' = 1..Len(out) + 1 /\ Len(out') = Len(out) + 1
      BY <1>1, <1>2, <2>1
    <3>2. out'[Len(out) + 1] = cur /\ \A k \in DOMAIN out : out'[k] = out[k]
      BY <1>2, <3>1
    <3>3. DOMAIN out = 1..Len(out) /\ Len(out) \in Nat
      BY <1>2
    <3>4. \A k \in DOMAIN out :
            /\ k + 1 \in DOMAIN out => out[k + 1] = Advance(out[k], frequency)
            /\ k = Len(out) => cur = Advance(out[k], frequency)
      BY <1>1, <1>2 DEF RecurrenceIInv, NothingSkipped
    <3>5. SUFFICES ASSUME NEW k \in DOMAIN out'
                   PROVE  /\ k + 1 \in DOMAIN out' => out'[k + 1] = Advance(out'[k], frequency)
                          /\ k = Len(out') => next = Advance(out'[k], frequency)
      BY <1>1, <1>4 DEF NothingSkipped, Advance
    <3>6. CASE k \in DOMAIN out
      <4>1. k + 1 \in DOMAIN out \/ (k = Len(out) /\ k + 1 = Len(out) + 1)
        BY <3>3, <3>6
      <4>2. k # Len(out')
        BY <3>1, <3>3, <3>6
      <4> QED BY <3>2, <3>4, <3>6, <4>1, <4>2
    <3>7. CASE k = Len(out) + 1
      <4>1. k + 1 \notin DOMAIN out'
        BY <3>1, <3>3, <3>7
      <4> QED BY <3>2, <3>7, <4>1 DEF next
    <3> QED BY <3>1, <3>3, <3>5, <3>6, <3>7
  <2>2. CASE ~ Counts(cur)
    <3>1. out' = <<>>
      BY <1>1, <1>8, <2>2
    <3> QED BY <3>1 DEF NothingSkipped
  <2> QED BY <2>1, <2>2
<1> QED BY <1>9, <1>10, <1>12, <1>13 DEF RecurrenceIInv

(* Every step of a call keeps it.                                          *)
LEMMA NextInv == RecurrenceIInv /\ [RecurrenceNext]_recurrenceVars => RecurrenceIInv'
<1> SUFFICES ASSUME RecurrenceIInv, [RecurrenceNext]_recurrenceVars PROVE RecurrenceIInv'
  OBVIOUS
<1>1. CASE RefuseWindow
  BY <1>1 DEF RefuseWindow, Return, scheduleInputs, RecurrenceIInv, RecurrenceTypeOK, LoopInv,
     AscendingInWindow, InWindow,
              NothingSkipped, Advance
<1>2. CASE Enter
  <2>1. /\ phase = "called" /\ cur = dateNext /\ out = <<>> /\ frequency \in knownFrequencies
        /\ cur' = cur /\ iteration' = iteration /\ dateNext' = dateNext
        /\ frequency' = frequency /\ window' = window
        /\ dateNext \in Date
    BY <1>2, RecurrenceAssumption DEF Enter, scheduleInputs, RecurrenceIInv, LoopInv,
       RecurrenceTypeOK
  <2>2. CASE frequency = "never"
    <3>1. phase' = "done" /\ (out' = <<>> \/ (out' = <<dateNext>> /\ InWindow(dateNext)))
      BY <1>2, <2>2 DEF Enter, Return, Counts, PastWindow, InWindow
    <3>2. CASE out' = <<>>
      BY <2>1, <3>1, <3>2 DEF RecurrenceIInv, RecurrenceTypeOK, LoopInv, AscendingInWindow,
         NothingSkipped
    <3>3. CASE out' = <<dateNext>> /\ InWindow(dateNext)
      <4>1. ~ Before(dateNext, dateNext)
        BY <2>1, NotBeforeSelf
      <4>2. DOMAIN out' = {1} /\ out'[1] = dateNext /\ out' \in Seq(Date) /\ Len(out') = 1
        BY <2>1, <3>3
      <4> QED BY <2>1, <3>1, <3>3, <4>1, <4>2
              DEF RecurrenceIInv, RecurrenceTypeOK, LoopInv, AscendingInWindow, InWindow,
                 NothingSkipped
    <3> QED BY <3>1, <3>2, <3>3
  <2>3. CASE frequency # "never"
    <3>1. phase' = "looping" /\ out' = <<>>
      BY <1>2, <2>1, <2>3 DEF Enter
    <3>2. ~ Before(cur, dateNext)
      BY <2>1, NotBeforeSelf
    <3> QED BY <2>1, <2>3, <3>1, <3>2
            DEF RecurrenceIInv, RecurrenceTypeOK, LoopInv, AscendingInWindow, InWindow,
               NothingSkipped
  <2> QED BY <2>2, <2>3
<1>3. CASE Step
  BY <1>3, StepInv
<1>4. CASE Stop
  BY <1>4 DEF Stop, Return, scheduleInputs, RecurrenceIInv, RecurrenceTypeOK, LoopInv,
     AscendingInWindow, InWindow,
              NothingSkipped, Advance
<1>5. CASE UNCHANGED recurrenceVars
  BY <1>5 DEF recurrenceVars, scheduleInputs, RecurrenceIInv, RecurrenceTypeOK, LoopInv,
     AscendingInWindow, InWindow, NothingSkipped, Advance
<1> QED BY <1>1, <1>2, <1>3, <1>4, <1>5 DEF RecurrenceNext

(* The three invariants hold in every call.                                *)
THEOREM InvHolds == RecurrenceSpec => []RecurrenceIInv
<1>1. RecurrenceInit => RecurrenceIInv
  BY InitInv
<1>2. RecurrenceIInv /\ [RecurrenceNext]_recurrenceVars => RecurrenceIInv'
  BY NextInv
<1> QED BY <1>1, <1>2, PTL DEF RecurrenceSpec

(* Every variable of FrequencyOccurrences keeps its type; in particular    *)
(* no step leaves the calendar.                                            *)
THEOREM TypeCorrect == RecurrenceSpec => []RecurrenceTypeOK
BY InvHolds, PTL DEF RecurrenceIInv

(* The result is ascending, inside the window and not before date_next,    *)
(* and consecutive results are one step of the frequency apart.            *)
THEOREM ResultStepsThroughWindow == RecurrenceSpec => []StepsThroughWindow
<1>1. RecurrenceIInv => StepsThroughWindow
  BY DEF RecurrenceIInv, StepsThroughWindow
<1> QED BY <1>1, InvHolds, PTL

(* The least number of days a step of the frequency takes.                 *)
LeastDays ==
  IF frequency \in DOMAIN DayPeriod THEN DayPeriod[frequency] ELSE 28 * MonthPeriod[frequency]

(* Where the loop is after k steps: that many periods after date_next; in  *)
(* months from a day past the 28th, once a month has not had the day, on   *)
(* one of the first days of the month after.                               *)
OnTrack(t, k) ==
  IF frequency \in DOMAIN DayPeriod
    THEN DayNumber(t) = DayNumber(dateNext) + DayPeriod[frequency] * k
  ELSE LET m == dateNext.month + MonthPeriod[frequency] * k
       IN  \/ t.month = m /\ t.day = dateNext.day
           \/ t.month = m + 1 /\ t.day \in 1..(dateNext.day - 28)

(* So far the loop has been to where each step led, and has returned what  *)
(* lies in the window and nothing else.                                    *)
TrackInv ==
  /\ frequency \in knownFrequencies \ {"never"} =>
       /\ OnTrack(cur, iteration)
       /\ DayNumber(cur) >= DayNumber(dateNext) + LeastDays * iteration
       /\ \A t \in Occurrences : \E k \in 0..(iteration - 1) : OnTrack(t, k)
       /\ \A k \in 0..(iteration - 1) :
            \E t \in Date : OnTrack(t, k) /\ (InWindow(t) => t \in Occurrences)
       /\ phase = "done" =>
            Before(window.to, window.from) \/ PastWindow(cur) \/ iteration = MaxIter
  /\ phase = "called" => iteration = 0
  /\ phase = "done" /\ frequency = "never" => Occurrences = {t \in {dateNext} : InWindow(t)}

(* The periods of the frequencies.                                         *)
LEMMA Periods ==
  ASSUME NEW f \in knownFrequencies \ {"never"}
  PROVE  /\ f \in DOMAIN DayPeriod => DayPeriod[f] \in {1, 7, 14, 15, 28}
         /\ f \notin DOMAIN DayPeriod =>
              f \in DOMAIN MonthPeriod /\ MonthPeriod[f] \in {1, 2, 3, 4, 6, 12, 24}
<1>1. f \in DOMAIN DayPeriod => DayPeriod[f] \in {1, 7, 14, 15, 28}
  BY DEF DayPeriod
<1>2. f \in {"monthly", "everyOtherMonth", "every3Months", "every4Months", "twiceAYear", "yearly",
             "everyOtherYear"} => MonthPeriod[f] \in {1, 2, 3, 4, 6, 12, 24}
  BY DEF MonthPeriod
<1>3. f \notin DOMAIN DayPeriod =>
        /\ f \in DOMAIN MonthPeriod
        /\ f \in {"monthly", "everyOtherMonth", "every3Months", "every4Months", "twiceAYear", "yearly",
                  "everyOtherYear"}
  BY DEF knownFrequencies, MonthPeriod
<1> QED BY <1>1, <1>2, <1>3

(* A step along the track.                                                 *)
LEMMA TrackStep ==
  ASSUME frequency \in knownFrequencies \ {"never"}, dateNext \in Date,
         NEW t \in Date, NEW k \in Nat, OnTrack(t, k)
  PROVE  LET next == Advance(t, frequency)
         IN  /\ next \in Date /\ OnTrack(next, k + 1)
             /\ DayNumber(t) + LeastDays <= DayNumber(next)
<1> DEFINE next == Advance(t, frequency)
<1>1. CASE frequency \in DOMAIN DayPeriod
  <2> DEFINE p == DayPeriod[frequency]
             b == DayNumber(dateNext)
             n == DayNumber(t)
  <2>1. p \in {1, 7, 14, 15, 28}
    BY <1>1, Periods
  <2>2. next = AddDate(t, 0, p) /\ LeastDays = p
    BY <1>1 DEF Advance, LeastDays
  <2>3. n = b + p * k /\ n \in Int /\ b \in Int
    BY <1>1, BeforeByDays DEF OnTrack
  <2> HIDE DEF p, b, n, next
  <2>4. p \in -28..28 /\ p >= 0 /\ p \in Int
    BY <2>1
  <2>5. next \in Date /\ DayNumber(next) = n + p
    BY <2>2, <2>4, DaysAdded DEF n
  <2>6. b + p * (k + 1) = n + p
    BY <2>1, <2>3
  <2>7. OnTrack(next, k + 1)
    BY <1>1, <2>5, <2>6 DEF OnTrack, p, b
  <2>8. n + LeastDays <= DayNumber(next)
    BY <2>2, <2>3, <2>4, <2>5
  <2> QED BY <2>5, <2>7, <2>8 DEF next, n
<1>2. CASE frequency \notin DOMAIN DayPeriod
  <2> DEFINE p == MonthPeriod[frequency]
             m == dateNext.month
             d == dateNext.day
             mth == t.month + p
  <2>1. p \in {1, 2, 3, 4, 6, 12, 24} /\ frequency \in DOMAIN MonthPeriod
    BY <1>2, Periods
  <2>2. next = AddDate(t, p, 0) /\ LeastDays = 28 * p
    BY <1>2, <2>1 DEF Advance, LeastDays
  <2>3. /\ m \in Nat /\ d \in 1..31 /\ t.month \in Nat /\ t.day \in 1..31
        /\ mth \in Nat /\ mth = t.month + p /\ p \in Nat
    BY <2>1 DEF Date
  <2>4. \/ t.month = m + p * k /\ t.day = d
        \/ t.month = m + p * k + 1 /\ t.day \in 1..(d - 28)
    BY <1>2 DEF OnTrack
  <2>5. /\ next \in Date
        /\ next = IF t.day > MonthLength(mth)
                    THEN [month |-> mth + 1, day |-> t.day - MonthLength(mth)]
                  ELSE [month |-> mth, day |-> t.day]
        /\ DayNumber(t) + LeastDays <= DayNumber(next)
    <3> HIDE DEF mth
    <3> QED BY <2>2, <2>3, MonthsAdded
  <2>6. MonthLength(mth) \in 28..31
    BY <2>3, MonthLengthRange
  <2> DEFINE at == m + p * k
  <2>7. m + p * (k + 1) = at + p /\ at \in Int
    BY <2>1, <2>3
  <2> HIDE DEF mth, next, m, d, p
  <2>8. \/ t.month = at /\ t.day = d
        \/ t.month = at + 1 /\ t.day \in 1..(d - 28)
    BY <2>4
  <2> HIDE DEF at
  <2>9. \/ next.month = at + p /\ next.day = d
        \/ next.month = (at + p) + 1 /\ next.day \in 1..(d - 28)
    <3>1. CASE t.month = at /\ t.day = d /\ d > MonthLength(mth)
      <4>1. next.month = mth + 1 /\ next.day = d - MonthLength(mth)
        BY <2>5, <3>1
      <4> QED BY <2>3, <2>6, <2>7, <3>1, <4>1
    <3>2. CASE t.month = at /\ t.day = d /\ ~ (d > MonthLength(mth))
      <4>1. next.month = mth /\ next.day = d
        BY <2>5, <3>2
      <4> QED BY <2>3, <2>7, <3>2, <4>1
    <3>3. CASE t.month = at + 1 /\ t.day \in 1..(d - 28)
      <4>1. ~ (t.day > MonthLength(mth))
        BY <2>3, <2>6, <3>3
      <4>2. next.month = mth /\ next.day = t.day
        BY <2>5, <4>1
      <4> QED BY <2>3, <2>7, <3>3, <4>2
    <3> QED BY <2>8, <3>1, <3>2, <3>3
  <2>10. OnTrack(next, k + 1)
    BY <1>2, <2>7, <2>9 DEF OnTrack, m, d, p
  <2> QED BY <2>5, <2>10 DEF next
<1> QED BY <1>1, <1>2

(* A call begins at date_next, no period after it.                         *)
LEMMA TrackBegins == RecurrenceInit => TrackInv
<1> SUFFICES ASSUME RecurrenceInit PROVE TrackInv
  OBVIOUS
<1>1. /\ cur = dateNext /\ iteration = 0 /\ out = <<>> /\ phase = "called" /\ dateNext \in Date
  BY RecurrenceAssumption DEF RecurrenceInit
<1>2. Occurrences = {} /\ 0..(iteration - 1) = {}
  BY <1>1 DEF Occurrences
<1>3. /\ dateNext.month \in Nat /\ DayNumber(dateNext) \in Int
  BY <1>1, BeforeByDays DEF Date
<1>4. ASSUME frequency \in knownFrequencies \ {"never"}
      PROVE  OnTrack(cur, iteration) /\ DayNumber(cur) >= DayNumber(dateNext) + LeastDays * iteration
  <2> DEFINE b == DayNumber(dateNext)
             m == dateNext.month
  <2>1. CASE frequency \in DOMAIN DayPeriod
    <3>1. DayPeriod[frequency] * 0 = 0 /\ LeastDays * 0 = 0
      BY <1>4, <2>1, Periods DEF LeastDays
    <3>2. b \in Int /\ b + 0 = b /\ b >= b + 0
      BY <1>3
    <3> HIDE DEF b
    <3> QED BY <1>1, <2>1, <3>1, <3>2 DEF OnTrack, b
  <2>2. CASE frequency \notin DOMAIN DayPeriod
    <3>1. MonthPeriod[frequency] * 0 = 0 /\ LeastDays * 0 = 0
      BY <1>4, <2>2, Periods DEF LeastDays
    <3>2. b \in Int /\ b + 0 = b /\ b >= b + 0 /\ m + 0 = m
      BY <1>3
    <3> HIDE DEF b, m
    <3> QED BY <1>1, <2>2, <3>1, <3>2 DEF OnTrack, b, m
  <2> QED BY <2>1, <2>2
<1> QED BY <1>1, <1>2, <1>4 DEF TrackInv

(* An iteration records where the loop is if that lies in the window, and  *)
(* goes a step further.                                                    *)
LEMMA StepKeepsTrack == RecurrenceIInv /\ TrackInv /\ Step => TrackInv'
<1> SUFFICES ASSUME RecurrenceIInv, TrackInv, Step PROVE TrackInv'
  OBVIOUS
<1> DEFINE next == Advance(cur, frequency)
           i == iteration
<1>1. /\ phase = "looping" /\ ~ PastWindow(cur)
      /\ out' = IF Counts(cur) THEN Append(out, cur) ELSE out
      /\ dateNext' = dateNext
        /\ frequency' = frequency /\ window' = window
  BY DEF Step, scheduleInputs
<1>2. /\ frequency \in knownFrequencies \ {"never"} /\ cur \in Date /\ out \in Seq(Date)
      /\ dateNext \in Date /\ i \in Nat
  BY <1>1, RecurrenceAssumption DEF RecurrenceIInv, LoopInv, RecurrenceTypeOK
<1>3. next \in Date /\ Before(cur, next)
  BY <1>2, AdvanceIsLater
<1>4. cur' = next /\ iteration' = i + 1 /\ phase' = phase
  BY <1>3 DEF Step
<1>5. /\ OnTrack(cur, i)
      /\ DayNumber(cur) >= DayNumber(dateNext) + LeastDays * i
      /\ \A t \in Occurrences : \E k \in 0..(i - 1) : OnTrack(t, k)
      /\ \A k \in 0..(i - 1) : \E t \in Date : OnTrack(t, k) /\ (InWindow(t) => t \in Occurrences)
  BY <1>2 DEF TrackInv
<1>6. OnTrack(next, i + 1) /\ DayNumber(cur) + LeastDays <= DayNumber(next)
  BY <1>2, <1>5, TrackStep
<1>7. DayNumber(next) >= DayNumber(dateNext) + LeastDays * (i + 1)
  <2> DEFINE a == DayNumber(cur)
             b == DayNumber(next)
             c == DayNumber(dateNext)
             l == LeastDays
             x == l * i
  <2>1. a \in Int /\ b \in Int /\ c \in Int
    BY <1>2, <1>3, BeforeByDays
  <2>2. l \in Int /\ x \in Int /\ l * (i + 1) = x + l
    <3>1. l \in {1, 7, 14, 15, 28} \/ l \in {28 * p : p \in {1, 2, 3, 4, 6, 12, 24}}
      BY <1>2, Periods DEF LeastDays
    <3>2. l \in Int
      BY <3>1
    <3> HIDE DEF l, i
    <3> QED BY <1>2, <3>2
  <2> HIDE DEF a, b, c, l, x, next, i
  <2>3. a >= c + x /\ a + l <= b
    BY <1>5, <1>6 DEF a, b, c, l, x
  <2>4. b >= c + (x + l)
    BY <2>1, <2>2, <2>3
  <2> QED BY <2>2, <2>4 DEF b, c, l
<1>8. Occurrences' = IF Counts(cur) THEN Occurrences \cup {cur} ELSE Occurrences
  <2>1. CASE Counts(cur)
    <3>1. out' = Append(out, cur)
      BY <1>1, <2>1
    <3>2. /\ DOMAIN out = 1..Len(out) /\ Len(out) \in Nat /\ DOMAIN out' = 1..(Len(out) + 1)
          /\ out'[Len(out) + 1] = cur /\ \A k \in 1..Len(out) : out'[k] = out[k]
      BY <1>2, <3>1, Grows
    <3>3. 1..(Len(out) + 1) = (1..Len(out)) \cup {Len(out) + 1}
      BY <3>2
    <3> QED BY <2>1, <3>2, <3>3 DEF Occurrences
  <2>2. CASE ~ Counts(cur)
    BY <1>1, <2>2 DEF Occurrences
  <2> QED BY <2>1, <2>2
<1>9. InWindow(cur) => cur \in Occurrences'
  BY <1>8 DEF InWindow, Counts
<1>10. i \in 0..i /\ 0..((i + 1) - 1) = (0..(i - 1)) \cup {i}
  BY <1>2
<1>11. \A t \in Occurrences' : \E k \in 0..((i + 1) - 1) : OnTrack(t, k)
  BY <1>5, <1>8, <1>10
<1>12. \A k \in 0..((i + 1) - 1) : \E t \in Date : OnTrack(t, k) /\ (InWindow(t) => t \in Occurrences')
  BY <1>2, <1>5, <1>8, <1>9, <1>10
<1> HIDE DEF next, i
<1>13. LeastDays' = LeastDays
  BY <1>1 DEF LeastDays
<1>14. OnTrack(cur, iteration)'
  BY <1>1, <1>4, <1>6 DEF OnTrack
<1>15. (DayNumber(cur) >= DayNumber(dateNext) + LeastDays * iteration)'
  BY <1>1, <1>4, <1>7, <1>13
<1>16. (\A t \in Occurrences : \E k \in 0..(iteration - 1) : OnTrack(t, k))'
  BY <1>1, <1>4, <1>11 DEF OnTrack
<1>17. (\A k \in 0..(iteration - 1) :
          \E t \in Date : OnTrack(t, k) /\ (InWindow(t) => t \in Occurrences))'
  BY <1>1, <1>4, <1>12 DEF OnTrack, InWindow
<1> QED BY <1>1, <1>2, <1>4, <1>14, <1>15, <1>16, <1>17 DEF TrackInv

(* Nothing lies in an empty window.                                        *)
LEMMA EmptyWindow ==
  ASSUME NEW t \in Date, window \in Windows, Before(window.to, window.from)
  PROVE  ~ InWindow(t)
<1>1. window.from \in Date /\ window.to \in Date
  BY RecurrenceAssumption
<1> QED BY <1>1 DEF InWindow, Before, Date

(* Every step of a call keeps to the track.                                *)
LEMMA NextKeepsTrack == RecurrenceIInv /\ TrackInv /\ [RecurrenceNext]_recurrenceVars => TrackInv'
<1> SUFFICES ASSUME RecurrenceIInv, TrackInv, [RecurrenceNext]_recurrenceVars PROVE TrackInv'
  OBVIOUS
<1> DEFINE Looped ==
      /\ OnTrack(cur, iteration)
      /\ DayNumber(cur) >= DayNumber(dateNext) + LeastDays * iteration
      /\ \A t \in Occurrences : \E k \in 0..(iteration - 1) : OnTrack(t, k)
      /\ \A k \in 0..(iteration - 1) :
           \E t \in Date : OnTrack(t, k) /\ (InWindow(t) => t \in Occurrences)
<1>1. dateNext \in Date /\ window \in Windows
  BY RecurrenceAssumption DEF RecurrenceIInv, RecurrenceTypeOK
<1>2. frequency \in knownFrequencies \ {"never"} => Looped
  BY DEF TrackInv
<1>3. ASSUME UNCHANGED <<dateNext, frequency, window, cur, iteration, out>>
      PROVE  /\ frequency \in knownFrequencies \ {"never"} => Looped'
             /\ Occurrences' = Occurrences /\ \A t : InWindow(t)' <=> InWindow(t)
  <2>1. Occurrences' = Occurrences /\ LeastDays' = LeastDays
    BY <1>3 DEF Occurrences, LeastDays
  <2> QED BY <1>2, <1>3, <2>1 DEF OnTrack, InWindow
<1>4. CASE RefuseWindow
  <2>1. /\ UNCHANGED <<dateNext, frequency, window, cur, iteration, out>>
        /\ phase = "called" /\ phase' = "done"
        /\ Before(window.to, window.from) \/ frequency \notin knownFrequencies
    BY <1>4 DEF RefuseWindow, Return, scheduleInputs
  <2>2. out = <<>>
    BY <2>1 DEF RecurrenceIInv, LoopInv
  <2>3. Occurrences = {}
    BY <2>2 DEF Occurrences
  <2>4. frequency = "never" => Before(window.to, window.from)
    BY <2>1 DEF knownFrequencies, MonthPeriod
  <2>5. frequency = "never" => {t \in {dateNext} : InWindow(t)} = {}
    BY <1>1, <2>4, EmptyWindow
  <2> QED BY <1>3, <2>1, <2>3, <2>5 DEF TrackInv, PastWindow
<1>5. CASE Enter
  <2>1. /\ UNCHANGED <<dateNext, frequency, window, cur, iteration>>
        /\ phase = "called" /\ frequency \in knownFrequencies /\ out = <<>>
    BY <1>5 DEF Enter, scheduleInputs, RecurrenceIInv, LoopInv
  <2>2. CASE frequency = "never"
    <3>1. /\ phase' = "done"
          /\ out' = IF InWindow(dateNext) THEN <<dateNext>> ELSE <<>>
      BY <1>5, <2>2 DEF Enter, Return, Counts, PastWindow, InWindow
    <3>2. Occurrences' = {t \in {dateNext} : InWindow(t)}
      BY <3>1 DEF Occurrences
    <3>3. {t \in {dateNext} : InWindow(t)}' = {t \in {dateNext} : InWindow(t)}
      BY <2>1 DEF InWindow
    <3> QED BY <2>1, <2>2, <3>1, <3>2, <3>3 DEF TrackInv
  <2>3. CASE frequency # "never"
    <3>1. phase' = "looping" /\ out' = out
      BY <1>5, <2>3 DEF Enter
    <3> QED BY <1>3, <2>1, <2>3, <3>1 DEF TrackInv
  <2> QED BY <2>2, <2>3
<1>6. CASE Step
  BY <1>6, StepKeepsTrack
<1>7. CASE Stop
  <2>1. /\ UNCHANGED <<dateNext, frequency, window, cur, iteration, out>>
        /\ phase = "looping" /\ phase' = "done" /\ (iteration = MaxIter \/ PastWindow(cur))
    BY <1>7 DEF Stop, Return, scheduleInputs
  <2>2. frequency # "never"
    BY <2>1 DEF RecurrenceIInv, LoopInv
  <2> QED BY <1>3, <2>1, <2>2 DEF TrackInv, PastWindow
<1>8. CASE UNCHANGED recurrenceVars
  <2>1. UNCHANGED <<dateNext, frequency, window, cur, iteration, out, phase>>
    BY <1>8 DEF recurrenceVars, scheduleInputs
  <2>2. {t \in {dateNext} : InWindow(t)}' = {t \in {dateNext} : InWindow(t)}
    BY <2>1 DEF InWindow
  <2> QED BY <1>3, <2>1, <2>2 DEF TrackInv, PastWindow
<1> QED BY <1>4, <1>5, <1>6, <1>7, <1>8 DEF RecurrenceNext

(* The loop of FrequencyOccurrences is where its steps lead.               *)
THEOREM TrackInvariance == RecurrenceSpec => [](RecurrenceIInv /\ TrackInv)
<1>1. RecurrenceInit => RecurrenceIInv /\ TrackInv
  BY InitInv, TrackBegins
<1>2. (RecurrenceIInv /\ TrackInv) /\ [RecurrenceNext]_recurrenceVars => (RecurrenceIInv /\ TrackInv)'
  BY NextInv, NextKeepsTrack
<1> QED BY <1>1, <1>2, PTL DEF RecurrenceSpec

(* A call within the limit has run past its window when it returns.        *)
LEMMA RunPast ==
  ASSUME RecurrenceIInv, TrackInv, phase = "done", WithinLimit,
         frequency \in knownFrequencies \ {"never"}
  PROVE  Before(window.to, window.from) \/ PastWindow(cur)
<1>1. /\ dateNext \in Date /\ cur \in Date /\ window.to \in Date /\ MaxIter \in Nat
  BY RecurrenceAssumption DEF RecurrenceIInv, RecurrenceTypeOK
<1>2. SUFFICES ASSUME iteration = MaxIter PROVE PastWindow(cur)
  BY DEF TrackInv
<1> DEFINE x == LeastDays * MaxIter
           b == DayNumber(dateNext)
           e == DayNumber(window.to)
           c == DayNumber(cur)
<1>3. c >= b + x
  BY <1>2 DEF TrackInv
<1>4. LeastDays \in Int
  <2>1. LeastDays \in {1, 7, 14, 15, 28} \/ LeastDays \in {28 * p : p \in {1, 2, 3, 4, 6, 12, 24}}
    BY Periods DEF LeastDays
  <2> QED BY <2>1
<1>5. e - b < MaxIter * LeastDays
  BY DEF WithinLimit, DaysBetween, LeastDays
<1>6. MaxIter * LeastDays = x /\ x \in Int
  BY <1>1, <1>4
<1>7. b \in Int /\ e \in Int /\ c \in Int /\ (Before(window.to, cur) <=> e < c)
  BY <1>1, BeforeByDays
<1> HIDE DEF x, b, e, c
<1> QED BY <1>3, <1>5, <1>6, <1>7 DEF PastWindow

(* A whole number of periods.                                              *)
LEMMA WholePeriods ==
  ASSUME NEW p \in {1, 2, 3, 4, 6, 7, 12, 14, 15, 24, 28}, NEW x \in Nat
  PROVE  /\ x % p = 0 => \E k \in Nat : x = p * k
         /\ \A k \in Nat : x = p * k => x % p = 0
<1>1. x \div p \in Nat /\ (x % p = 0 => x = p * (x \div p))
  <2>1. CASE p \in {1, 2, 3, 4, 6, 7}
    BY <2>1
  <2>2. CASE p \in {12, 14, 15, 24, 28}
    BY <2>2
  <2> QED BY <2>1, <2>2
<1>2. ASSUME NEW k \in Nat, x = p * k PROVE x % p = 0
  <2>1. CASE p \in {1, 2, 3, 4, 6, 7}
    BY <1>2, <2>1
  <2>2. CASE p \in {12, 14, 15, 24, 28}
    BY <1>2, <2>2
  <2> QED BY <2>1, <2>2
<1> QED BY <1>1, <1>2

(* Periods one after the other: which of two comes first.                  *)
LEMMA PeriodsInOrder ==
  ASSUME NEW p \in {1, 2, 3, 4, 6, 7, 12, 14, 15, 24, 28}, NEW k \in Nat, NEW l \in Nat
  PROVE  /\ p * k \in Nat /\ p * l \in Nat
         /\ (k <= l => p * k <= p * l) /\ (k < l => p * k + p <= p * l)
<1>1. CASE p \in {1, 2, 3, 4, 6, 7}
  BY <1>1
<1>2. CASE p \in {12, 14, 15, 24, 28}
  BY <1>2
<1> QED BY <1>1, <1>2

(* One day number, one date.                                               *)
LEMMA SameDate ==
  ASSUME NEW s \in Date, NEW t \in Date, DayNumber(s) = DayNumber(t)
  PROVE  s = t
<1>1. Before(s, t) \/ Before(t, s) \/ s = t
  BY DEF Before, Date
<1> QED BY <1>1, BeforeByDays

(* Results are dates of the window, none before date_next.                 *)
LEMMA OccurrencesInWindow ==
  ASSUME RecurrenceIInv, NEW t \in Occurrences
  PROVE  t \in Date /\ InWindow(t) /\ ~ Before(t, dateNext) /\ t \in Days
<1>1. PICK k \in DOMAIN out : t = out[k]
  BY DEF Occurrences
<1>2. out \in Seq(Date) /\ window.from \in Date /\ window.to \in Date
  BY RecurrenceAssumption DEF RecurrenceIInv, RecurrenceTypeOK
<1>3. t \in Date /\ InWindow(t) /\ ~ Before(t, dateNext)
  BY <1>1, <1>2 DEF RecurrenceIInv, AscendingInWindow
<1>4. t.month \in window.from.month..window.to.month
  BY <1>2, <1>3 DEF InWindow, Before, Date
<1> QED BY <1>3, <1>4 DEF Days, Date

(* The days of a window are dates inside it.                               *)
LEMMA DaysAreDates ==
  ASSUME window \in Windows, NEW t \in Days
  PROVE  t \in Date /\ InWindow(t)
<1>1. window.from.month \in Nat /\ window.to.month \in Nat
  BY RecurrenceAssumption DEF Date
<1> QED BY <1>1 DEF Days, Date

(* A schedule that does not recur is due on date_next alone, and returned  *)
(* once.                                                                   *)
LEMMA NeverExact ==
  ASSUME RecurrenceIInv, TrackInv, phase = "done", frequency = "never"
  PROVE  Occurrences = Due("never")
<1>1. Occurrences = {t \in {dateNext} : InWindow(t)}
  BY DEF TrackInv
<1>2. Due("never") = {t \in Days : ~ Before(t, dateNext) /\ t = dateNext}
  BY DEF Due
<1>3. window \in Windows
  BY DEF RecurrenceIInv, RecurrenceTypeOK
<1>4. \A t \in Occurrences : t \in Due("never")
  BY <1>1, <1>2, OccurrencesInWindow
<1>5. \A t \in Due("never") : t \in Occurrences
  BY <1>1, <1>2, <1>3, DaysAreDates
<1> QED BY <1>4, <1>5

(* What fits a frequency exactly: days, or a day that every month has.     *)
Exactly == frequency \in DOMAIN DayPeriod \/ dateNext.day <= 28

(* Where the loop gets to step by step is then one date for each step, one *)
(* after the other.                                                        *)
LEMMA ExactTrack ==
  ASSUME frequency \in knownFrequencies \ {"never"}, Exactly, dateNext \in Date,
         NEW s \in Date, NEW t \in Date, NEW k \in Nat, NEW l \in Nat,
         OnTrack(s, k), OnTrack(t, l), k <= l
  PROVE  DayNumber(s) <= DayNumber(t) /\ (k = l => s = t)
<1>1. CASE frequency \in DOMAIN DayPeriod
  <2> DEFINE p == DayPeriod[frequency]
             b == DayNumber(dateNext)
             x == DayNumber(s)
             y == DayNumber(t)
  <2>1. p \in {1, 7, 14, 15, 28}
    BY <1>1, Periods
  <2>2. x = b + p * k /\ y = b + p * l /\ b \in Int
    BY <1>1, BeforeByDays DEF OnTrack
  <2> HIDE DEF p, b, x, y
  <2>3. p * k \in Nat /\ p * l \in Nat /\ p * k <= p * l
    BY <2>1, PeriodsInOrder
  <2>4. x <= y /\ (k = l => x = y)
    BY <2>2, <2>3
  <2> QED BY <2>4, SameDate DEF x, y
<1>2. CASE frequency \notin DOMAIN DayPeriod
  <2> DEFINE p == MonthPeriod[frequency]
             m == dateNext.month
             d == dateNext.day
  <2>1. p \in {1, 2, 3, 4, 6, 12, 24}
    BY <1>2, Periods
  <2>2. m \in Nat /\ d \in 1..31 /\ d <= 28
    BY <1>2 DEF Date, Exactly
  <2>3. 1..(d - 28) = {}
    BY <2>2
  <2>4. s.month = m + p * k /\ s.day = d /\ t.month = m + p * l /\ t.day = d
    BY <1>2, <2>3 DEF OnTrack
  <2> HIDE DEF p, m, d
  <2>5. p * k \in Nat /\ p * l \in Nat /\ p * k <= p * l
    BY <2>1, PeriodsInOrder
  <2>6. s.month <= t.month /\ (k = l => s.month = t.month)
    BY <2>2, <2>4, <2>5
  <2>7. ~ Before(t, s)
    BY <2>2, <2>4, <2>6 DEF Before, Date
  <2>8. k = l => s = t
    BY <2>4, <2>6 DEF Date
  <2> QED BY <2>7, <2>8, BeforeByDays
<1> QED BY <1>1, <1>2

(* On an exact track every date of the window that a period leads to is in *)
(* the result.                                                             *)
LEMMA ExactReached ==
  ASSUME RecurrenceIInv, TrackInv, phase = "done", WithinLimit, Exactly,
         frequency \in knownFrequencies \ {"never"},
         NEW t \in Date, InWindow(t), NEW k \in Nat, OnTrack(t, k)
  PROVE  t \in Occurrences
<1>1. /\ dateNext \in Date /\ cur \in Date /\ window \in Windows /\ window.to \in Date
      /\ iteration \in Nat
  BY RecurrenceAssumption DEF RecurrenceIInv, RecurrenceTypeOK
<1>2. PastWindow(cur)
  BY <1>1, RunPast, EmptyWindow
<1>3. k < iteration
  <2>1. SUFFICES ASSUME iteration <= k PROVE FALSE
    BY <1>1
  <2>2. OnTrack(cur, iteration)
    BY DEF TrackInv
  <2>3. DayNumber(cur) <= DayNumber(t)
    BY <1>1, <2>1, <2>2, ExactTrack
  <2>4. DayNumber(window.to) < DayNumber(cur) /\ ~ (DayNumber(window.to) < DayNumber(t))
    BY <1>1, <1>2, BeforeByDays DEF PastWindow, InWindow
  <2> QED BY <1>1, <2>3, <2>4, BeforeByDays
<1>4. k \in 0..(iteration - 1)
  BY <1>1, <1>3
<1>5. PICK u \in Date : OnTrack(u, k) /\ (InWindow(u) => u \in Occurrences)
  BY <1>4 DEF TrackInv
<1>6. u = t
  BY <1>1, <1>5, ExactTrack
<1> QED BY <1>5, <1>6

(* On an exact track the result is what is due, by the rule of the         *)
(* frequency.                                                              *)
LEMMA ExactFound ==
  ASSUME RecurrenceIInv, TrackInv, phase = "done", WithinLimit, Exactly,
         frequency \in knownFrequencies \ {"never"}
  PROVE  Occurrences = Due(frequency)
<1>1. /\ dateNext \in Date /\ window \in Windows /\ iteration \in Nat
      /\ dateNext.month \in Nat /\ dateNext.day \in 1..31
  BY RecurrenceAssumption DEF RecurrenceIInv, RecurrenceTypeOK, Date
<1> DEFINE b == DayNumber(dateNext)
           m == dateNext.month
           d == dateNext.day
           OnDay(t) == (t.month - m) % MonthPeriod[frequency] = 0 /\ t.day = Clamped(d, t.month)
<1>2. Due(frequency) =
        {t \in Days : /\ ~ Before(t, dateNext)
                      /\ IF frequency \in DOMAIN DayPeriod
                           THEN DaysBetween(dateNext, t) % DayPeriod[frequency] = 0
                         ELSE OnDay(t)}
  BY DEF Due
<1>3. ASSUME NEW t \in Occurrences PROVE t \in Due(frequency)
  <2>1. t \in Date /\ t \in Days /\ ~ Before(t, dateNext)
    BY OccurrencesInWindow
  <2>2. PICK k \in 0..(iteration - 1) : OnTrack(t, k)
    BY DEF TrackInv
  <2>3. k \in Nat
    BY <1>1, <2>2
  <2>4. CASE frequency \in DOMAIN DayPeriod
    <3> DEFINE p == DayPeriod[frequency]
               x == DayNumber(t) - b
    <3>0. p \in {1, 2, 3, 4, 6, 7, 12, 14, 15, 24, 28}
      BY <2>4, Periods
    <3>1. p \in {1, 7, 14, 15, 28} /\ DayNumber(t) = b + p * k /\ b \in Int
      BY <1>1, <2>2, <2>4, Periods, BeforeByDays DEF OnTrack
    <3> HIDE DEF b, p
    <3>2. p * k \in Nat
      BY <2>3, <3>1, PeriodsInOrder
    <3>3. x = p * k /\ x \in Nat
      BY <3>1, <3>2
    <3> HIDE DEF x
    <3>4. x % p = 0
      BY <2>3, <3>0, <3>3, WholePeriods, ZenonT(40)
    <3> QED BY <1>2, <2>1, <2>4, <3>4 DEF DaysBetween, x, b, p
  <2>5. CASE frequency \notin DOMAIN DayPeriod
    <3> DEFINE p == MonthPeriod[frequency]
               x == t.month - m
    <3>0. p \in {1, 2, 3, 4, 6, 7, 12, 14, 15, 24, 28}
      BY <2>5, Periods
    <3>1. p \in {1, 2, 3, 4, 6, 12, 24} /\ d <= 28
      BY <2>5, Periods DEF Exactly
    <3>2. 1..(d - 28) = {}
      BY <1>1, <3>1
    <3>3. t.month = m + p * k /\ t.day = d
      BY <2>2, <2>5, <3>2 DEF OnTrack
    <3>4. MonthLength(t.month) \in 28..31
      BY <2>1, MonthLengthRange DEF Date
    <3>5. t.day = Clamped(d, t.month)
      BY <1>1, <3>1, <3>3, <3>4 DEF Clamped
    <3> HIDE DEF p, m, d
    <3>6. p * k \in Nat
      BY <2>3, <3>1, PeriodsInOrder
    <3>7. x = p * k /\ x \in Nat
      BY <1>1, <3>3, <3>6 DEF m
    <3> HIDE DEF x
    <3>8. x % p = 0
      BY <2>3, <3>0, <3>7, WholePeriods, ZenonT(40)
    <3> QED BY <1>2, <2>1, <2>5, <3>5, <3>8 DEF x, p
  <2> QED BY <2>4, <2>5
<1>4. ASSUME NEW t \in Due(frequency) PROVE t \in Occurrences
  <2>1. t \in Date /\ InWindow(t) /\ ~ Before(t, dateNext)
    BY <1>1, <1>2, DaysAreDates
  <2>2. \E k \in Nat : OnTrack(t, k)
    <3>1. CASE frequency \in DOMAIN DayPeriod
      <4> DEFINE p == DayPeriod[frequency]
                 n == DayNumber(t)
                 x == n - b
      <4>0. p \in {1, 2, 3, 4, 6, 7, 12, 14, 15, 24, 28}
        BY <3>1, Periods
      <4>1. p \in {1, 7, 14, 15, 28} /\ b \in Int /\ n \in Int /\ ~ (n < b)
        BY <1>1, <2>1, <3>1, Periods, BeforeByDays
      <4>2. x % p = 0
        BY <1>2, <3>1 DEF DaysBetween
      <4> HIDE DEF p, b, n
      <4>3. x \in Nat /\ n = b + x
        BY <4>1
      <4> HIDE DEF x
      <4>4. PICK k \in Nat : x = p * k
        BY <4>0, <4>2, <4>3, WholePeriods, ZenonT(40)
      <4> QED BY <3>1, <4>3, <4>4 DEF OnTrack, n, b, p
    <3>2. CASE frequency \notin DOMAIN DayPeriod
      <4> DEFINE p == MonthPeriod[frequency]
                 x == t.month - m
      <4>0. p \in {1, 2, 3, 4, 6, 7, 12, 14, 15, 24, 28}
        BY <3>2, Periods
      <4>1. p \in {1, 2, 3, 4, 6, 12, 24} /\ d <= 28 /\ t.month \in Nat
        BY <2>1, <3>2, Periods DEF Exactly, Date
      <4>2. x % p = 0 /\ t.day = Clamped(d, t.month)
        BY <1>2, <3>2
      <4>3. MonthLength(t.month) \in 28..31
        BY <4>1, MonthLengthRange
      <4>4. t.day = d
        BY <1>1, <4>1, <4>2, <4>3 DEF Clamped
      <4>5. m <= t.month
        BY <1>1, <2>1, <4>1 DEF Before
      <4> HIDE DEF p, m, d
      <4>6. x \in Nat /\ t.month = m + x
        BY <1>1, <4>1, <4>5 DEF m
      <4> HIDE DEF x
      <4>7. PICK k \in Nat : x = p * k
        BY <4>0, <4>2, <4>6, WholePeriods, ZenonT(40)
      <4> QED BY <3>2, <4>4, <4>6, <4>7 DEF OnTrack, p, m, d
    <3> QED BY <3>1, <3>2
  <2> QED BY <2>1, <2>2, ExactReached
<1> QED BY <1>3, <1>4

(* So it is for every frequency but twiceAMonth, from a day that every     *)
(* month has.                                                              *)
LEMMA OccurrencesFollow == RecurrenceIInv /\ TrackInv => OccurrencesExact
<1> SUFFICES ASSUME RecurrenceIInv, TrackInv,
                    NEW f \in knownFrequencies \ {"twiceAMonth"}, Answered(f),
                    f \in {"never"} \cup DOMAIN DayPeriod \/ dateNext.day <= 28
             PROVE  Occurrences = Due(f)
  BY DEF OccurrencesExact
<1>1. phase = "done" /\ frequency = f /\ WithinLimit
  BY DEF Answered
<1>2. CASE f = "never"
  BY <1>1, <1>2, NeverExact
<1>3. CASE f # "never"
  BY <1>1, <1>3, ExactFound DEF Exactly
<1> QED BY <1>2, <1>3

(* FrequencyOccurrences answers a call within its limit with the dates of  *)
(* the window that are due, all of them and no other, for every frequency  *)
(* in days and for every frequency in months from a day up to the 28th.    *)
THEOREM ExactOccurrences == RecurrenceSpec => []OccurrencesExact
BY TrackInvariance, OccurrencesFollow, PTL

(* Where an occurrence of a calendar-month frequency is due.               *)
DueMonth(k) == dateNext.month + MonthPeriod[frequency] * k
DueOn(k) == [month |-> DueMonth(k), day |-> Clamped(dateNext.day, DueMonth(k))]

(* A frequency in calendar months.                                         *)
Monthly == frequency \in knownFrequencies \ {"never"} /\ frequency \notin DOMAIN DayPeriod

(* What is due is a date, not before date_next, and later for every later  *)
(* period.                                                                 *)
LEMMA DueOnDates ==
  ASSUME Monthly, dateNext \in Date, NEW k \in Nat
  PROVE  /\ DueMonth(k) \in Nat /\ DueOn(k) \in Date /\ ~ Before(DueOn(k), dateNext)
         /\ DueMonth(k) = dateNext.month + MonthPeriod[frequency] * k
         /\ MonthPeriod[frequency] * k \in Nat
         /\ \A l \in Nat : k < l => DueMonth(k) < DueMonth(l)
<1> DEFINE p == MonthPeriod[frequency]
           m == dateNext.month
           d == dateNext.day
<1>1. p \in {1, 2, 3, 4, 6, 12, 24} /\ m \in Nat /\ d \in 1..31 /\ d <= MonthLength(m)
  BY Periods DEF Monthly, Date
<1> HIDE DEF p
<1>2. p * k \in Nat
  BY <1>1, PeriodsInOrder
<1>3. ASSUME NEW l \in Nat, k < l PROVE DueMonth(k) < DueMonth(l)
  <2>1. p * l \in Nat /\ p * k + p <= p * l /\ p > 0
    BY <1>1, <1>3, PeriodsInOrder
  <2>2. m + p * k < m + p * l
    BY <1>1, <1>2, <2>1
  <2> QED BY <2>2 DEF DueMonth, p
<1>4. DueMonth(k) = m + p * k /\ DueMonth(k) \in Nat /\ DueMonth(k) >= m
  BY <1>1, <1>2 DEF DueMonth, p
<1>5. MonthLength(DueMonth(k)) \in 28..31
  BY <1>4, MonthLengthRange
<1>6. DueOn(k) \in Date
  BY <1>1, <1>4, <1>5 DEF DueOn, Clamped, Date
<1>7. ~ Before(DueOn(k), dateNext)
  <2>1. ASSUME DueMonth(k) = m PROVE DueOn(k).day = d
    <3> DEFINE len == MonthLength(m)
    <3>1. DueOn(k).day = Clamped(d, m)
      BY <2>1 DEF DueOn
    <3>2. Clamped(d, m) = IF d > len THEN len ELSE d
      BY DEF Clamped
    <3>3. len \in 28..31 /\ d <= len
      BY <1>1, MonthLengthRange
    <3> HIDE DEF len, d, m
    <3> QED BY <1>1, <3>1, <3>2, <3>3
  <2> QED BY <1>1, <1>4, <2>1 DEF Before, DueOn
<1> QED BY <1>2, <1>3, <1>4, <1>6, <1>7 DEF p

(* Later periods are due on later days.                                    *)
LEMMA DueInOrder ==
  ASSUME Monthly, dateNext \in Date, NEW k \in Nat, NEW l \in Nat, k <= l
  PROVE  DayNumber(DueOn(k)) <= DayNumber(DueOn(l))
<1>1. CASE k = l
  <2>1. DayNumber(DueOn(k)) \in Int
    BY DueOnDates, BeforeByDays
  <2> QED BY <1>1, <2>1
<1>2. CASE k < l
  <2>1. DueMonth(k) < DueMonth(l)
    BY <1>2, DueOnDates
  <2>2. Before(DueOn(k), DueOn(l)) /\ DueOn(k) \in Date /\ DueOn(l) \in Date
    BY <2>1, DueOnDates DEF Before, DueOn
  <2> QED BY <2>2, BeforeByDays
<1> QED BY <1>1, <1>2

(* The loop is never before the day that is due and at most three after.   *)
LEMMA DueIsNear ==
  ASSUME Monthly, dateNext \in Date, NEW t \in Date, NEW k \in Nat, OnTrack(t, k)
  PROVE  /\ DayNumber(t) \in Int /\ DayNumber(DueOn(k)) \in Int
         /\ DayNumber(DueOn(k)) <= DayNumber(t) /\ DayNumber(t) <= DayNumber(DueOn(k)) + 3
<1> DEFINE mth == DueMonth(k)
           len == MonthLength(mth)
           d == dateNext.day
           c == Clamped(d, mth)
           b == DaysBefore(mth)
<1>1. /\ mth \in Nat /\ DueOn(k) \in Date /\ d \in 1..31
      /\ t.day \in 1..31 /\ t.day <= MonthLength(t.month)
      /\ mth + 1 \in Nat
  BY DueOnDates DEF Date
<1>2. len \in 28..31 /\ b \in Int /\ DaysBefore(mth + 1) = b + len
  BY <1>1, MonthAfterMonth, MonthLengthRange
<1>3. \/ t.month = mth /\ t.day = d
      \/ t.month = mth + 1 /\ t.day \in 1..(d - 28)
  BY DEF OnTrack, Monthly, DueMonth
<1>4. DayNumber(t) = DaysBefore(t.month) + t.day /\ DayNumber(DueOn(k)) = b + c
  BY <1>1, DayNumberOfDate DEF DueOn
<1>5. c = IF d > len THEN len ELSE d
  BY DEF Clamped
<1> DEFINE x == DayNumber(t)
           y == DayNumber(DueOn(k))
<1> HIDE DEF mth, len, b, c, d, x, y
<1>6. CASE t.month = mth /\ t.day = d
  <2>1. x = b + d
    BY <1>4, <1>6, Zenon DEF x, b
  <2>2. y = b + c
    BY <1>4 DEF y
  <2>3. d <= len
    BY <1>1, <1>6, Zenon DEF len
  <2>4. x \in Int /\ y \in Int /\ y <= x /\ x <= y + 3
    BY <1>1, <1>2, <1>5, <2>1, <2>2, <2>3
  <2> QED BY <2>4 DEF x, y
<1>7. CASE t.month = mth + 1 /\ t.day \in 1..(d - 28)
  <2>1. x = (b + len) + t.day /\ y = b + c
    BY <1>2, <1>4, <1>7 DEF x, y
  <2>2. x \in Int /\ y \in Int /\ y <= x /\ x <= y + 3
    BY <1>1, <1>2, <1>5, <1>7, <2>1
  <2> QED BY <2>2 DEF x, y
<1> QED BY <1>3, <1>6, <1>7

(* What is due, by the number of periods since date_next.                  *)
LEMMA DueByPeriods ==
  ASSUME Monthly, dateNext \in Date, window \in Windows
  PROVE  /\ \A t \in Due(frequency) : t \in Date /\ InWindow(t) /\ \E k \in Nat : t = DueOn(k)
         /\ \A k \in Nat : InWindow(DueOn(k)) => DueOn(k) \in Due(frequency)
<1> DEFINE m == dateNext.month
           p == MonthPeriod[frequency]
           d == dateNext.day
<1>1. Due(frequency) = {t \in Days : /\ ~ Before(t, dateNext)
                                     /\ (t.month - m) % p = 0 /\ t.day = Clamped(d, t.month)}
  BY DEF Due, Monthly
<1>2. m \in Nat /\ p \in {1, 2, 3, 4, 6, 7, 12, 14, 15, 24, 28}
  BY Periods DEF Date, Monthly
<1>3. ASSUME NEW t \in Due(frequency)
      PROVE  t \in Date /\ InWindow(t) /\ \E k \in Nat : t = DueOn(k)
  <2>1. t \in Date /\ InWindow(t) /\ ~ Before(t, dateNext)
    BY <1>1, DaysAreDates
  <2> DEFINE x == t.month - m
  <2>2. t.month \in Nat /\ x \in Nat /\ t.month = m + x
    BY <1>2, <2>1 DEF Date, Before
  <2>3. x % p = 0 /\ t.day = Clamped(d, t.month)
    BY <1>1
  <2> HIDE DEF x, p, m
  <2>4. PICK k \in Nat : x = p * k
    BY <1>2, <2>2, <2>3, WholePeriods, ZenonT(40)
  <2>5. t.month = DueMonth(k)
    BY <2>2, <2>4 DEF DueMonth, p, m
  <2>6. t = [month |-> t.month, day |-> t.day]
    BY <2>1 DEF Date
  <2> QED BY <2>1, <2>3, <2>5, <2>6 DEF DueOn
<1>4. ASSUME NEW k \in Nat, InWindow(DueOn(k)) PROVE DueOn(k) \in Due(frequency)
  <2> DEFINE t == DueOn(k)
             x == t.month - m
             y == p * k
  <2>1. /\ t \in Date /\ ~ Before(t, dateNext) /\ t.month = m + y /\ y \in Nat
        /\ t.day = Clamped(d, t.month)
    BY DueOnDates DEF DueOn
  <2>2. t.month \in window.from.month..window.to.month
    <3>1. window.from \in Date /\ window.to \in Date
      BY RecurrenceAssumption
    <3> QED BY <1>4, <2>1, <3>1 DEF InWindow, Before, Date
  <2>3. t \in Days
    BY <1>4, <2>1, <2>2 DEF Days, Date
  <2> HIDE DEF p, m, y, t
  <2>4. x = y /\ x \in Nat
    BY <1>2, <2>1
  <2> HIDE DEF x
  <2>5. x = p * k
    BY <2>4 DEF y
  <2>6. x % p = 0
    BY <1>2, <2>4, <2>5, WholePeriods, ZenonT(40)
  <2> QED BY <1>1, <2>1, <2>3, <2>6 DEF t, x
<1> QED BY <1>3, <1>4

(* On the track each day due is returned, three days late at most and      *)
(* unless that is past the window, and nothing else is.                    *)
LEMMA DriftFollows == RecurrenceIInv /\ TrackInv => DriftIsAtMostThreeDays
<1> SUFFICES ASSUME RecurrenceIInv, TrackInv, NEW f \in DOMAIN MonthPeriod, Answered(f)
             PROVE  /\ \A day \in Due(f) :
                         (DaysBetween(day, window.to) >= 3) =>
                            \E t \in Occurrences : DaysBetween(day, t) \in 0..3
                    /\ \A t \in Occurrences :
                         DaysBetween(window.from, t) >= 3 =>
                            \E day \in Due(f) : DaysBetween(day, t) \in 0..3
  BY DEF DriftIsAtMostThreeDays
<1>1. /\ phase = "done" /\ frequency = f /\ WithinLimit /\ dateNext \in Date /\ window \in Windows
      /\ window.from \in Date /\ window.to \in Date /\ cur \in Date /\ iteration \in Nat
  BY RecurrenceAssumption DEF Answered, RecurrenceIInv, RecurrenceTypeOK
<1> DEFINE n(t) == DayNumber(t)
<1>2. CASE f = "never"
  <2>1. Occurrences = Due(f)
    BY <1>1, <1>2, NeverExact
  <2>2. ASSUME NEW t \in Occurrences PROVE DaysBetween(t, t) \in 0..3
    <3>1. n(t) \in Int
      BY OccurrencesInWindow, BeforeByDays
    <3>2. n(t) - n(t) = 0
      BY <3>1
    <3> QED BY <3>2 DEF DaysBetween
  <2> QED BY <2>1, <2>2
<1>3. CASE f # "never"
  <2>1. Monthly
    BY <1>1, <1>3 DEF Monthly, knownFrequencies, DayPeriod, MonthPeriod
  <2>2. n(window.from) \in Int /\ n(window.to) \in Int /\ n(cur) \in Int
    BY <1>1, BeforeByDays
  <2>3. ASSUME NEW day \in Due(f), DaysBetween(day, window.to) >= 3
        PROVE  \E t \in Occurrences : DaysBetween(day, t) \in 0..3
    <3>1. day \in Date /\ InWindow(day)
      BY <1>1, <2>1, DueByPeriods
    <3>2. PICK k \in Nat : day = DueOn(k)
      BY <1>1, <2>1, DueByPeriods
    <3>3. n(day) \in Int /\ n(window.to) - n(day) >= 3 /\ n(window.from) <= n(day)
      BY <1>1, <2>3, <3>1, BeforeByDays DEF DaysBetween, InWindow
    <3>4. PastWindow(cur)
      BY <1>1, <1>3, <2>1, <3>1, RunPast, EmptyWindow DEF Monthly
    <3>5. k < iteration
      <4>1. SUFFICES ASSUME iteration <= k PROVE FALSE
        BY <1>1
      <4>2. OnTrack(cur, iteration)
        BY <1>1, <2>1 DEF TrackInv, Monthly
      <4>3. n(DueOn(iteration)) \in Int /\ n(cur) <= n(DueOn(iteration)) + 3
        BY <1>1, <2>1, <4>2, DueIsNear
      <4>4. n(DueOn(iteration)) <= n(day)
        BY <1>1, <2>1, <3>2, <4>1, DueInOrder
      <4>5. n(window.to) < n(cur)
        BY <1>1, <3>4, BeforeByDays DEF PastWindow
      <4> QED BY <2>2, <3>3, <4>3, <4>4, <4>5
    <3>6. k \in 0..(iteration - 1)
      BY <1>1, <3>5
    <3>7. PICK u \in Date : OnTrack(u, k) /\ (InWindow(u) => u \in Occurrences)
      BY <1>1, <2>1, <3>6 DEF TrackInv, Monthly
    <3>8. n(u) \in Int /\ n(day) <= n(u) /\ n(u) <= n(day) + 3
      BY <1>1, <2>1, <3>2, <3>7, DueIsNear
    <3>9. ~ (n(u) < n(window.from)) /\ ~ (n(window.to) < n(u))
      BY <2>2, <3>3, <3>8
    <3>10. InWindow(u)
      BY <1>1, <3>7, <3>9, BeforeByDays DEF InWindow
    <3>11. n(u) - n(day) \in 0..3
      BY <3>3, <3>8
    <3> QED BY <3>7, <3>10, <3>11 DEF DaysBetween
  <2>4. ASSUME NEW t \in Occurrences, DaysBetween(window.from, t) >= 3
        PROVE  \E day \in Due(f) : DaysBetween(day, t) \in 0..3
    <3>1. t \in Date /\ InWindow(t)
      BY OccurrencesInWindow
    <3>2. PICK k \in 0..(iteration - 1) : OnTrack(t, k)
      BY <1>1, <2>1 DEF TrackInv, Monthly
    <3>3. k \in Nat
      BY <1>1, <3>2
    <3> DEFINE day == DueOn(k)
    <3>4. day \in Date /\ n(t) \in Int /\ n(day) \in Int /\ n(day) <= n(t) /\ n(t) <= n(day) + 3
      BY <1>1, <2>1, <3>1, <3>2, <3>3, DueIsNear, DueOnDates
    <3>5. n(t) - n(window.from) >= 3 /\ n(t) <= n(window.to)
      BY <1>1, <2>4, <3>1, <2>2, <3>4, BeforeByDays DEF DaysBetween, InWindow
    <3>6. ~ (n(day) < n(window.from)) /\ ~ (n(window.to) < n(day)) /\ n(t) - n(day) \in 0..3
      BY <2>2, <3>4, <3>5
    <3>7. InWindow(day)
      BY <1>1, <3>4, <3>6, BeforeByDays DEF InWindow
    <3>8. day \in Due(f)
      BY <1>1, <2>1, <3>3, <3>7, DueByPeriods
    <3> QED BY <3>6, <3>8 DEF DaysBetween
  <2> QED BY <2>3, <2>4
<1> QED BY <1>2, <1>3

(* Two days of different months that are the same day of the month, or the *)
(* last one where it is missing, are four weeks apart.                     *)
LEMMA SameDayApart ==
  ASSUME NEW s \in Date, NEW t \in Date, NEW day \in 1..31, s.month < t.month,
         s.day = Clamped(day, s.month), t.day = Clamped(day, t.month)
  PROVE  DayNumber(s) + 28 <= DayNumber(t)
<1> DEFINE k == MonthLength(s.month)
           l == MonthLength(t.month)
           a == DaysBefore(s.month)
           b == DaysBefore(t.month)
<1>1. s.month \in Nat /\ t.month \in Nat /\ s.day \in Nat /\ t.day \in Nat
  BY DEF Date
<1>2. k \in 28..31 /\ l \in 28..31 /\ a \in Int /\ b \in Int /\ a + k <= b
  BY <1>1, MonthLengthRange, MonthsInOrder
<1>3. s.day = (IF day > k THEN k ELSE day) /\ t.day = (IF day > l THEN l ELSE day)
  BY DEF Clamped
<1>4. DayNumber(s) = a + s.day /\ DayNumber(t) = b + t.day
  BY DayNumberOfDate
<1> HIDE DEF k, l, a, b
<1> QED BY <1>1, <1>2, <1>3, <1>4

(* In a window of a week twiceAMonth returns no date but date_next, and at *)
(* most one other is due.                                                  *)
LEMMA TwiceFollows == RecurrenceIInv /\ TrackInv => TwiceAMonthMissesAtMostOne
<1> SUFFICES ASSUME RecurrenceIInv, TrackInv, Answered("twiceAMonth"),
                    ~ Before(dateNext, window.from),
                    DaysBetween(window.from, window.to) <= 6, NEW other \in 1..31
             PROVE  LET days == {t \in Days : /\ ~ Before(t, dateNext)
                                              /\ t = dateNext \/ t.day = Clamped(other, t.month)}
                    IN  Cardinality(days) - 1 <= Cardinality(Occurrences) /\ Occurrences \subseteq days
  BY DEF TwiceAMonthMissesAtMostOne
<1> DEFINE days == {t \in Days : /\ ~ Before(t, dateNext)
                                 /\ t = dateNext \/ t.day = Clamped(other, t.month)}
           n(t) == DayNumber(t)
           b == n(dateNext)
           f == n(window.from)
           e == n(window.to)
<1>1. /\ phase = "done" /\ frequency = "twiceAMonth" /\ WithinLimit /\ dateNext \in Date
      /\ window \in Windows /\ window.from \in Date /\ window.to \in Date
      /\ cur \in Date /\ iteration \in Nat
  BY RecurrenceAssumption DEF Answered, RecurrenceIInv, RecurrenceTypeOK
<1>2. /\ frequency \in DOMAIN DayPeriod /\ DayPeriod[frequency] = 15
      /\ frequency \in knownFrequencies \ {"never"}
  BY <1>1 DEF DayPeriod, knownFrequencies
<1>3. b \in Int /\ f \in Int /\ e \in Int /\ f <= b /\ e <= f + 6
  BY <1>1, BeforeByDays DEF DaysBetween
<1>4. ASSUME NEW t \in Days PROVE t \in Date /\ n(t) \in Int /\ f <= n(t) /\ n(t) <= e
  BY <1>1, <1>4, DaysAreDates, BeforeByDays DEF InWindow
<1>5. ASSUME NEW t \in Occurrences PROVE t = dateNext /\ t \in days
  <2>1. t \in Date /\ t \in Days /\ ~ Before(t, dateNext)
    BY OccurrencesInWindow
  <2>2. PICK k \in 0..(iteration - 1) : OnTrack(t, k)
    BY <1>2 DEF TrackInv
  <2>3. n(t) = b + 15 * k /\ k \in Nat
    BY <1>1, <1>2, <2>2 DEF OnTrack
  <2>4. n(t) <= e
    BY <1>4, <2>1
  <2>5. k = 0
    <3> HIDE DEF n, b, e, f
    <3> QED BY <1>3, <2>3, <2>4
  <2>6. n(t) = b
    <3> HIDE DEF n, b
    <3> QED BY <1>3, <2>3, <2>5
  <2> QED BY <1>1, <2>1, <2>6, SameDate
<1>6. CASE InWindow(dateNext)
  <2>1. OnTrack(dateNext, 0)
    <3>1. 15 * 0 = 0 /\ b = b + 0
      BY <1>3
    <3> HIDE DEF b
    <3> QED BY <1>2, <3>1 DEF OnTrack, b
  <2>2. dateNext \in Occurrences
    BY <1>1, <1>2, <1>6, <2>1, ExactReached DEF Exactly
  <2>3. Occurrences = {dateNext} /\ dateNext \in days
    BY <1>5, <2>2
  <2>4. ASSUME NEW s \in days, NEW t \in days, s # dateNext, t # dateNext PROVE s = t
    <3>1. /\ s \in Date /\ t \in Date
          /\ s.day = Clamped(other, s.month) /\ t.day = Clamped(other, t.month)
          /\ s.month \in Nat /\ t.month \in Nat
      BY <1>4, <2>4 DEF Date
    <3>2. /\ n(s) \in Int /\ n(t) \in Int /\ n(s) < n(t) + 28 /\ n(t) < n(s) + 28
      BY <1>3, <1>4, <2>4
    <3>3. ~ (s.month < t.month) /\ ~ (t.month < s.month)
      BY <3>1, <3>2, SameDayApart
    <3>4. s.month = t.month
      BY <3>1, <3>3
    <3>5. s.day = t.day
      BY <3>1, <3>4
    <3> QED BY <3>1, <3>4, <3>5 DEF Date
  <2>5. \E s : days \subseteq {dateNext, s}
    <3>1. CASE \E s \in days : s # dateNext
      BY <2>4, <3>1
    <3>2. CASE ~ \E s \in days : s # dateNext
      BY <3>2
    <3> QED BY <3>1, <3>2
  <2> HIDE DEF days
  <2>6. PICK s : days \subseteq {dateNext, s}
    BY <2>5
  <2>7. IsFiniteSet({dateNext}) /\ Cardinality({dateNext}) = 1
    BY FS_Singleton
  <2>8. {dateNext, s} = {dateNext} \cup {s}
    OBVIOUS
  <2>9. IsFiniteSet({dateNext, s}) /\ Cardinality({dateNext, s}) <= 2
    BY <2>7, <2>8, FS_AddElement
  <2>10. Cardinality(days) \in Nat /\ Cardinality(days) <= 2
    <3>1. IsFiniteSet(days) /\ Cardinality(days) <= Cardinality({dateNext, s})
      BY <2>6, <2>9, FS_Subset
    <3> QED BY <2>9, <3>1, FS_CardinalityType
  <2>11. Cardinality(days) - 1 <= Cardinality(Occurrences) /\ Occurrences \subseteq days
    BY <2>3, <2>7, <2>10
  <2> QED BY <2>11, Zenon DEF days
<1>7. CASE ~ InWindow(dateNext)
  <2>1. ~ (b <= e)
    BY <1>1, <1>3, <1>7, BeforeByDays DEF InWindow
  <2>2. ASSUME NEW t \in days PROVE FALSE
    <3>1. t \in Date /\ n(t) \in Int /\ n(t) <= e /\ ~ Before(t, dateNext)
      BY <1>4
    <3>2. ~ (n(t) < b)
      BY <1>1, <3>1, BeforeByDays
    <3> HIDE DEF n, b, e
    <3> QED BY <1>3, <2>1, <3>1, <3>2
  <2>3. days = {} /\ Occurrences = {}
    BY <1>5, <2>2
  <2> HIDE DEF days
  <2>4. Cardinality(days) = 0 /\ Cardinality(Occurrences) = 0
    BY <2>3, FS_EmptySet
  <2>5. Cardinality(days) - 1 <= Cardinality(Occurrences) /\ Occurrences \subseteq days
    BY <2>3, <2>4
  <2> QED BY <2>5, Zenon DEF days
<1> QED BY <1>6, <1>7

(* Where FrequencyOccurrences is not exact it is off as its comment        *)
(* admits: a date in months is late by three days at most, and twiceAMonth *)
(* misses at most one date of a week.                                      *)
THEOREM OffOnlyAsAdmitted == RecurrenceSpec => []OffAsAdmitted
<1>1. RecurrenceIInv /\ TrackInv => OffAsAdmitted
  BY DriftFollows, TwiceFollows DEF OffAsAdmitted
<1> QED BY <1>1, TrackInvariance, PTL

-----------------------------------------------------------------------------
(* TaskReads: ynab_spending_check and ynab_weekly_checkin.                 *)

(* The states of the plan.                                                 *)
Plans == [rows : [Ids -> Row \cup {NoRow}], months : [Months -> MonthStates \cup {NoMonth}]]

(* Whose row it is, by its side of the item.                               *)
SideFits(i, row) == i[2] \in Sides(row.of) /\ row.amount = RowOf(row.of, i[2], 1).amount

(* The history of the plan: a row changes only to one stamped later.       *)
HistoryOK ==
  /\ hist \in Seq(Plans) /\ Len(hist) \in 1..MaxVersion
  /\ \A k \in DOMAIN hist : \A i \in Ids :
       LET row == hist[k].rows[i]
       IN  /\ row # NoRow => SideFits(i, row)
           /\ row = hist[1].rows[i] \/ (row # NoRow /\ row.at > 1)

(* What the cache held when the call began.                                *)
Primed ==
  IF primedFrom = NoDate THEN EmptyEntry
  ELSE [knowledge |-> 1, items |-> OnOrAfter(hist[1].rows, primedFrom)]

(* What the delta request of a check-in answers.                           *)
DeltasTo(rows) ==
  [i \in Ids |-> IF /\ rows[i] # NoRow
                    /\ rows[i].at > Primed.knowledge
                    /\ ~ Before(rows[i].of.date, PriorStart(call))
                    /\ rows[i].deleted => Primed.knowledge > 0
                   THEN rows[i] ELSE NoRow]

(* What the answers to a check-in's first request hold.                    *)
Period(k) == MergedItems(Primed, k, DeltasTo(hist[k].rows))

(* The answers to a request for rows, cut or not.                          *)
Part(rows, kept) == [i \in Ids |-> IF i \in kept THEN rows[i] ELSE NoRow]

Answers(rows, k) ==
  {[at |-> k, rows |-> Part(rows, kept), truncated |-> kept # Held(rows)] :
     kept \in SUBSET Held(rows)}

(* The k-th answer of a call is what the plan held when it was given, all  *)
(* of it or cut and marked as cut.                                         *)
AnswerFits(k) ==
  LET at == got[k].at
  IN  IF call.tool = "check"
        THEN got[k] \in Answers(InCategory(hist[at].rows, call.categories[k], call.from), at)
      ELSE /\ k = 1 => got[k] \in Answers(Period(at), at)
           /\ k = 2 => got[k] \in Answers(Unapproved(hist[at].rows), at)
           /\ k = 3 => /\ got[k] = [at |-> at, month |-> hist[at].months[call.asOf.month]]
                       /\ got[k].month # NoMonth
           /\ k = 4 => got[k] = [at |-> at, month |-> hist[at].months[PriorMonthDate(call).month]]

(* Each answer is of the plan at its time, and the times ascend.           *)
AnswersOK ==
  /\ start \in 1..Len(hist)
  /\ got \in Seq({got[k] : k \in DOMAIN got}) /\ Len(got) <= Len(Requests(call))
  /\ \A k \in DOMAIN got :
       /\ got[k].at \in start..Len(hist)
       /\ \A l \in DOMAIN got : k <= l => got[k].at <= got[l].at
       /\ AnswerFits(k)

(* The entry of the cache is as the call found it until a check-in has had *)
(* its first answer.                                                       *)
EntryOK ==
  /\ call.tool = "check" \/ Len(got) = 0 => entry = Primed
  /\ entry.knowledge \in 0..Len(hist)
  /\ \A i \in Ids : entry.items[i] # NoRow => entry.items[i] \in Row /\ ~ entry.items[i].deleted

(* The call, and how many answers a finished one has.                      *)
CallTyped ==
  /\ call \in Calls /\ primedFrom \in Primings \cup {NoDate}
  /\ pc \in {"idle", "calling", "done", "failed"}
  /\ pc = "idle" => got = <<>>
  /\ pc = "done" => Len(got) = Len(Requests(call))

(* The inductive invariant of the two tools.                               *)
ReadsInv == CallTyped /\ HistoryOK /\ AnswersOK /\ EntryOK

(* No row is what stands for none.                                         *)
LEMMA RowsAreRows == NoRow \notin Row
<1>1. Row \subseteq [at : Nat, deleted : BOOLEAN, of : Entries, amount : Int]
  BY TaskAssumption DEF Row
<1> QED BY <1>1, TaskAssumption

(* A new row of an entry is a row of its side of the item.                 *)
LEMMA RowOfFits ==
  ASSUME NEW e \in Entries, NEW i \in Ids, i[2] \in Sides(e), NEW k \in 1..MaxVersion
  PROVE  /\ RowOf(e, i[2], k) \in Row /\ RowOf(e, i[2], k) # NoRow
         /\ RowOf(e, i[2], k).at = k /\ ~ RowOf(e, i[2], k).deleted
         /\ SideFits(i, RowOf(e, i[2], k))
<1>1. e.amount \in Int /\ - e.amount \in Int
  BY TaskAssumption DEF IsEntry
<1>2. RowOf(e, i[2], k) \in Row
  BY <1>1 DEF RowOf, Row
<1>3. SideFits(i, RowOf(e, i[2], k))
  BY DEF SideFits, RowOf
<1> QED BY <1>2, <1>3, RowsAreRows DEF RowOf

(* An entry, an edit or a deletion changes the rows of an item, stamps     *)
(* them, and leaves them what they are.                                    *)
LEMMA SuccessorFits ==
  ASSUME NEW state \in Plans, NEW k \in 1..MaxVersion, NEW p \in Successors(state, k)
  PROVE  /\ p \in Plans
         /\ \A i \in Ids : \/ p.rows[i] = state.rows[i]
                           \/ /\ p.rows[i] # NoRow /\ p.rows[i].at = k
                              /\ (state.rows[i] # NoRow => SideFits(i, state.rows[i]))
                                   => SideFits(i, p.rows[i])
<1> DEFINE R == [Ids -> Row \cup {NoRow}]
           M == [Months -> MonthStates \cup {NoMonth}]
<1>1. state.rows \in R /\ state.months \in M /\ state = [rows |-> state.rows, months |-> state.months]
  BY DEF Plans
<1>2. CASE \E n \in Items, e \in Entries : p = [state EXCEPT !.rows = Recorded(@, n, e, k)]
  <2>1. PICK n \in Items, e \in Entries : p = [state EXCEPT !.rows = Recorded(@, n, e, k)]
    BY <1>2
  <2>2. p = [rows |-> Recorded(state.rows, n, e, k), months |-> state.months]
    BY <1>1, <2>1
  <2>3. ASSUME NEW i \in Ids
        PROVE  \/ Recorded(state.rows, n, e, k)[i] = state.rows[i]
               \/ i[2] \in Sides(e) /\ Recorded(state.rows, n, e, k)[i] = RowOf(e, i[2], k)
    BY DEF Recorded
  <2>4. Recorded(state.rows, n, e, k) \in R
    <3>1. \A i \in Ids : Recorded(state.rows, n, e, k)[i] \in Row \cup {NoRow}
      BY <1>1, <2>3, RowOfFits
    <3>2. Recorded(state.rows, n, e, k) = [i \in Ids |-> Recorded(state.rows, n, e, k)[i]]
      BY DEF Recorded
    <3> HIDE DEF R
    <3> QED BY <3>1, <3>2 DEF R
  <2>5. p \in Plans
    BY <1>1, <2>2, <2>4 DEF Plans
  <2>6. p.rows = Recorded(state.rows, n, e, k)
    BY <2>2
  <2> QED BY <2>3, <2>5, <2>6, RowOfFits
<1>3. CASE \E n \in Items : p = [state EXCEPT !.rows = Removed(@, n, k)]
  <2>1. PICK n \in Items : p = [state EXCEPT !.rows = Removed(@, n, k)]
    BY <1>3
  <2>2. p = [rows |-> Removed(state.rows, n, k), months |-> state.months]
    BY <1>1, <2>1
  <2>3. ASSUME NEW i \in Ids, NEW row \in Row, row = state.rows[i]
        PROVE  /\ [row EXCEPT !.at = k, !.deleted = TRUE] \in Row
               /\ [row EXCEPT !.at = k, !.deleted = TRUE].at = k
               /\ SideFits(i, row) => SideFits(i, [row EXCEPT !.at = k, !.deleted = TRUE])
    BY DEF Row, SideFits
  <2>4. ASSUME NEW i \in Ids
        PROVE  \/ Removed(state.rows, n, k)[i] = state.rows[i]
               \/ /\ state.rows[i] \in Row
                  /\ Removed(state.rows, n, k)[i] = [state.rows[i] EXCEPT !.at = k, !.deleted = TRUE]
    BY <1>1 DEF Removed
  <2>5. ASSUME NEW i \in Ids
        PROVE  /\ Removed(state.rows, n, k)[i] \in Row \cup {NoRow}
               /\ \/ Removed(state.rows, n, k)[i] = state.rows[i]
                  \/ /\ Removed(state.rows, n, k)[i] # NoRow /\ Removed(state.rows, n, k)[i].at = k
                     /\ (state.rows[i] # NoRow => SideFits(i, state.rows[i]))
                          => SideFits(i, Removed(state.rows, n, k)[i])
    <3>1. CASE Removed(state.rows, n, k)[i] = state.rows[i]
      BY <1>1, <3>1
    <3>2. CASE /\ state.rows[i] \in Row
               /\ Removed(state.rows, n, k)[i] = [state.rows[i] EXCEPT !.at = k, !.deleted = TRUE]
      <4> DEFINE was == state.rows[i]
                 is == [was EXCEPT !.at = k, !.deleted = TRUE]
      <4>1. is \in Row /\ is.at = k /\ (SideFits(i, was) => SideFits(i, is))
        BY <2>3, <3>2
      <4>2. was # NoRow /\ is # NoRow
        BY <3>2, <4>1, RowsAreRows
      <4>3. Removed(state.rows, n, k)[i] = is
        BY <3>2
      <4> HIDE DEF is, was
      <4> QED BY <4>1, <4>2, <4>3 DEF was
    <3> QED BY <2>4, <3>1, <3>2
  <2>6. Removed(state.rows, n, k) \in R
    <3>1. Removed(state.rows, n, k) = [i \in Ids |-> Removed(state.rows, n, k)[i]]
      BY DEF Removed
    <3> HIDE DEF R
    <3> QED BY <2>5, <3>1 DEF R
  <2>7. p \in Plans
    BY <1>1, <2>2, <2>6 DEF Plans
  <2>8. p.rows = Removed(state.rows, n, k)
    BY <2>2
  <2> QED BY <2>5, <2>7, <2>8
<1>4. CASE \E m \in Months, x \in MonthStates : p = [state EXCEPT !.months[m] = x]
  <2>1. PICK m \in Months, x \in MonthStates : p = [state EXCEPT !.months[m] = x]
    BY <1>4
  <2>2. p = [rows |-> state.rows, months |-> [state.months EXCEPT ![m] = x]]
    BY <1>1, <2>1
  <2>3. [state.months EXCEPT ![m] = x] \in M
    BY <1>1
  <2> QED BY <1>1, <2>2, <2>3 DEF Plans
<1> QED BY <1>2, <1>3, <1>4 DEF Successors

(* The requests of a call.                                                 *)
LEMMA TheRequests ==
  ASSUME call \in Calls
  PROVE  /\ call.tool \in {"check", "checkin"}
         /\ Len(Requests(call)) \in Nat \ {0}
         /\ call.tool = "check" =>
              /\ IsCheck(call) /\ Len(Requests(call)) = Len(call.categories)
              /\ DOMAIN call.categories = 1..Len(Requests(call))
              /\ \A k \in 1..Len(Requests(call)) :
                   Requests(call)[k] =
                     [get |-> "category", category |-> call.categories[k], since |-> call.from]
         /\ call.tool = "checkin" =>
              /\ IsCheckIn(call) /\ Len(Requests(call)) = 4
              /\ Requests(call)[1] = [get |-> "period", since |-> PriorStart(call)]
              /\ Requests(call)[2] = [get |-> "unapproved"]
              /\ Requests(call)[3] = [get |-> "month", month |-> call.asOf.month]
              /\ Requests(call)[4] = [get |-> "month", month |-> PriorMonthDate(call).month]
<1>1. IsCheck(call) \/ IsCheckIn(call)
  BY TaskAssumption
<1>2. CASE IsCheck(call)
  <2>1. call.tool = "check" /\ call.categories \in Seq(Range(call.categories)) \ {<<>>}
    BY <1>2 DEF IsCheck
  <2> DEFINE n == Len(call.categories)
             r == Requests(call)
  <2>2. DOMAIN call.categories = 1..n /\ n \in Nat \ {0}
    BY <2>1
  <2>3. r = [k \in 1..n |-> [get |-> "category", category |-> call.categories[k], since |-> call.from]]
    BY <2>1, <2>2 DEF Requests
  <2> HIDE DEF n, r
  <2>4. Len(r) = n
    BY <2>2, <2>3
  <2> QED BY <1>2, <2>1, <2>2, <2>3, <2>4 DEF n, r
<1>3. CASE IsCheckIn(call)
  <2>1. call.tool = "checkin"
    BY <1>3 DEF IsCheckIn
  <2>2. Requests(call) =
          <<[get |-> "period", since |-> PriorStart(call)],
            [get |-> "unapproved"],
            [get |-> "month", month |-> call.asOf.month],
            [get |-> "month", month |-> PriorMonthDate(call).month]>>
    BY <2>1 DEF Requests
  <2> QED BY <1>3, <2>1, <2>2
<1> QED BY <1>1, <1>2, <1>3

(* A call begins with no answer.                                           *)
LEMMA ReadsBegin == Init => ReadsInv
<1> SUFFICES ASSUME Init PROVE ReadsInv
  OBVIOUS
<1>1. PICK p \in InitialPlans : hist = <<p>>
  BY DEF Init
<1>2. PICK choice \in [Items -> Entries \cup {NoRow}] : p.rows = Ledger(choice)
  BY TaskAssumption
<1>3. p.months \in [Months -> MonthStates \cup {NoMonth}] /\ p = [rows |-> p.rows, months |-> p.months]
  BY TaskAssumption
<1>4. MaxVersion \in Nat \ {0} /\ 1 \in 1..MaxVersion
  BY TaskAssumption
<1>5. ASSUME NEW i \in Ids
      PROVE  /\ p.rows[i] \in Row \cup {NoRow}
             /\ p.rows[i] # NoRow => SideFits(i, p.rows[i])
  <2> DEFINE e == choice[i[1]]
  <2>1. e \in Entries \cup {NoRow}
    BY DEF Ids
  <2>2. p.rows[i] = IF e # NoRow /\ i[2] \in Sides(e) THEN RowOf(e, i[2], 1) ELSE NoRow
    BY <1>2 DEF Ledger
  <2> HIDE DEF e
  <2> QED BY <1>4, <2>1, <2>2, RowOfFits
<1>6. p.rows \in [Ids -> Row \cup {NoRow}]
  BY <1>2, <1>5 DEF Ledger
<1>7. p \in Plans
  BY <1>3, <1>6 DEF Plans
<1>8. hist \in Seq(Plans) /\ Len(hist) = 1 /\ hist[1] = p /\ DOMAIN hist = {1}
  BY <1>1, <1>7
<1>9. HistoryOK
  BY <1>4, <1>5, <1>8 DEF HistoryOK
<1>10. CallTyped
  <2>1. got = <<>> /\ pc = "idle" /\ call \in Calls /\ primedFrom \in Primings \cup {NoDate}
    BY DEF Init
  <2> QED BY <2>1 DEF CallTyped
<1>11. AnswersOK
  <2>1. start = 1 /\ got = <<>> /\ call \in Calls
    BY DEF Init
  <2>2. Len(got) = 0 /\ DOMAIN got = {} /\ got \in Seq({got[k] : k \in DOMAIN got})
    BY <2>1
  <2>3. Len(got) <= Len(Requests(call))
    BY <2>1, <2>2, TheRequests
  <2> QED BY <1>8, <2>1, <2>2, <2>3 DEF AnswersOK
<1>12. EntryOK
  <2>1. entry = Primed
    BY <1>1 DEF Init, Primed
  <2>2. EmptyEntry.knowledge = 0 /\ \A i \in Ids : EmptyEntry.items[i] = NoRow
    BY DEF EmptyEntry, NoItems
  <2>3. ASSUME primedFrom # NoDate, NEW i \in Ids, entry.items[i] # NoRow
        PROVE  entry.items[i] \in Row /\ ~ entry.items[i].deleted
    <3>1. entry.items = OnOrAfter(hist[1].rows, primedFrom)
      BY <2>1, <2>3 DEF Primed
    <3> QED BY <1>5, <1>8, <2>3, <3>1 DEF OnOrAfter, IsLive
  <2>4. entry.knowledge \in 0..1
    BY <2>1, <2>2 DEF Primed
  <2>5. primedFrom = NoDate => entry = EmptyEntry
    BY <2>1 DEF Primed
  <2> QED BY <1>8, <2>1, <2>2, <2>3, <2>4, <2>5 DEF EntryOK
<1> QED BY <1>9, <1>10, <1>11, <1>12 DEF ReadsInv

(* What no longer changes: the past of the plan, and with it what the      *)
(* answers given are compared with.                                        *)
Past ==
  /\ UNCHANGED <<call, primedFrom>>
  /\ Len(hist') \in Nat /\ Len(hist) <= Len(hist')
  /\ \A k \in 1..Len(hist) : hist'[k] = hist[k]

(* What the cache held when the call began does not depend on later        *)
(* changes.                                                                *)
LEMMA PrimedStays ==
  ASSUME ReadsInv, Past
  PROVE  /\ Primed' = Primed
         /\ \A k \in 1..Len(hist) : Period(k)' = Period(k)
<1>1. hist'[1] = hist[1] /\ call' = call /\ primedFrom' = primedFrom
  BY DEF ReadsInv, HistoryOK, Past
<1>2. Primed' = Primed
  BY <1>1 DEF Primed
<1>3. ASSUME NEW k \in 1..Len(hist) PROVE Period(k)' = Period(k)
  <2>1. hist'[k].rows = hist[k].rows
    BY DEF Past
  <2> QED BY <1>1, <1>2, <2>1 DEF Period, DeltasTo
<1> QED BY <1>2, <1>3

(* Nor does an answer that was given.                                      *)
LEMMA AnswerStays ==
  ASSUME ReadsInv, Past, NEW k \in DOMAIN got, got'[k] = got[k]
  PROVE  AnswerFits(k)'
<1>1. AnswerFits(k) /\ got[k].at \in 1..Len(hist)
  BY DEF ReadsInv, AnswersOK, HistoryOK
<1> DEFINE at == got[k].at
<1>2. hist'[at] = hist[at] /\ call' = call /\ primedFrom' = primedFrom /\ Primed' = Primed
  BY <1>1, PrimedStays DEF Past
<1>3. got'[k].at = at
  OBVIOUS
<1>4. Period(got[k].at)' = Period(at)
  BY <1>2, <1>3 DEF Period, DeltasTo
<1> QED BY <1>1, <1>2, <1>3, <1>4 DEF AnswerFits

(* The plan changes.                                                       *)
LEMMA ChangeKeepsReads == ReadsInv /\ Change => ReadsInv'
<1> SUFFICES ASSUME ReadsInv, Change PROVE ReadsInv'
  OBVIOUS
<1> DEFINE n == Len(hist)
<1>1. hist \in Seq(Plans) /\ n \in 1..MaxVersion /\ n < MaxVersion /\ MaxVersion \in Nat
      /\ DOMAIN hist = 1..n
  BY TaskAssumption DEF ReadsInv, HistoryOK, Change
<1>2. PICK p \in Successors(hist[n], n + 1) : hist' = Append(hist, p)
  BY DEF Change, Now
<1>3. hist[n] \in Plans /\ n + 1 \in 1..MaxVersion
  BY <1>1
<1>4. /\ p \in Plans
      /\ \A i \in Ids : \/ p.rows[i] = hist[n].rows[i]
                        \/ /\ p.rows[i] # NoRow /\ p.rows[i].at = n + 1
                           /\ (hist[n].rows[i] # NoRow => SideFits(i, hist[n].rows[i]))
                                => SideFits(i, p.rows[i])
  BY <1>2, <1>3, SuccessorFits
<1>5. /\ hist' \in Seq(Plans) /\ Len(hist') = n + 1
      /\ DOMAIN hist' = 1..(n + 1) /\ hist'[n + 1] = p
      /\ \A k \in 1..n : hist'[k] = hist[k]
  BY <1>1, <1>2, <1>4, Grows
<1>6. UNCHANGED <<entry, primedFrom, call, pc, got, start>>
  BY DEF Change
<1>7. Past
  BY <1>1, <1>5, <1>6 DEF Past
<1>8. HistoryOK'
  <2>1. \A k \in 1..n : \A i \in Ids :
          LET row == hist[k].rows[i]
          IN  /\ row # NoRow => SideFits(i, row)
              /\ row = hist[1].rows[i] \/ (row # NoRow /\ row.at > 1)
    BY <1>1 DEF ReadsInv, HistoryOK
  <2>2. ASSUME NEW i \in Ids
        PROVE  LET row == p.rows[i]
               IN  /\ row # NoRow => SideFits(i, row)
                   /\ row = hist[1].rows[i] \/ (row # NoRow /\ row.at > 1)
    BY <1>1, <1>4, <2>1
  <2>3. hist'[1] = hist[1]
    BY <1>1, <1>5
  <2>4. ASSUME NEW k \in 1..(n + 1), NEW i \in Ids
        PROVE  LET row == hist'[k].rows[i]
               IN  /\ row # NoRow => SideFits(i, row)
                   /\ row = hist'[1].rows[i] \/ (row # NoRow /\ row.at > 1)
    <3>1. CASE k \in 1..n
      BY <1>5, <2>1, <2>3, <3>1
    <3>2. CASE k = n + 1
      BY <1>5, <2>2, <2>3, <3>2
    <3> QED BY <1>1, <3>1, <3>2
  <2> QED BY <1>3, <1>5, <2>4 DEF HistoryOK, SideFits
<1>9. CallTyped'
  BY <1>6 DEF ReadsInv, CallTyped
<1>10. AnswersOK'
  <2>1. \A k \in DOMAIN got : AnswerFits(k)'
    BY <1>6, <1>7, AnswerStays
  <2> HIDE DEF Past
  <2>2. /\ start \in 1..n
        /\ got \in Seq({got[k] : k \in DOMAIN got}) /\ Len(got) <= Len(Requests(call))
        /\ \A k \in DOMAIN got :
             /\ got[k].at \in start..n
             /\ \A l \in DOMAIN got : k <= l => got[k].at <= got[l].at
    BY DEF ReadsInv, AnswersOK
  <2>3. start \in 1..(n + 1) /\ \A k \in DOMAIN got : got[k].at \in start..(n + 1)
    BY <1>1, <2>2
  <2>4. Requests(call)' = Requests(call)
    BY <1>6 DEF Requests, PriorStart, PriorMonthDate
  <2> QED BY <1>5, <1>6, <2>1, <2>2, <2>3, <2>4 DEF AnswersOK
<1>11. EntryOK'
  <2>1. Primed' = Primed
    BY <1>7, PrimedStays
  <2>2. entry.knowledge \in 0..(n + 1)
    BY <1>1 DEF ReadsInv, EntryOK
  <2> QED BY <1>5, <1>6, <2>1, <2>2 DEF ReadsInv, EntryOK
<1> QED BY <1>8, <1>9, <1>10, <1>11 DEF ReadsInv

(* A step that leaves the history alone leaves the past alone.             *)
LEMMA PastOfItself ==
  ASSUME ReadsInv, UNCHANGED <<hist, call, primedFrom>>
  PROVE  Past
<1>1. Len(hist) \in Nat
  BY DEF ReadsInv, HistoryOK
<1> QED BY <1>1 DEF Past

(* A sequence is one of its own elements.                                  *)
LEMMA SequenceOfItsOwn ==
  ASSUME NEW S, NEW s \in Seq(S)
  PROVE  s \in Seq({s[k] : k \in DOMAIN s})
<1> DEFINE n == Len(s)
           T == {s[k] : k \in DOMAIN s}
           g == [k \in 1..n |-> s[k]]
<1>1. n \in Nat /\ DOMAIN s = 1..n /\ s = g
  OBVIOUS
<1>2. \A k \in 1..n : g[k] \in T
  BY <1>1
<1>3. g \in Seq(T)
  <2> HIDE DEF T, n
  <2> QED BY <1>1, <1>2
<1> QED BY <1>1, <1>3

(* The answer to the request the call is at, given by the plan as it is.   *)
NextFits(r) ==
  LET n == Len(got) + 1
      rows == hist[Len(hist)].rows
      months == hist[Len(hist)].months
  IN  /\ r.at = Len(hist)
      /\ IF call.tool = "check"
           THEN r \in Answers(InCategory(rows, call.categories[n], call.from), Len(hist))
         ELSE /\ n = 1 => r \in Answers(Period(Len(hist)), Len(hist))
              /\ n = 2 => r \in Answers(Unapproved(rows), Len(hist))
              /\ n = 3 => /\ r = [at |-> Len(hist), month |-> months[call.asOf.month]]
                          /\ r.month # NoMonth
              /\ n = 4 => r = [at |-> Len(hist), month |-> months[PriorMonthDate(call).month]]

(* An answer that fits the plan as it is may be appended.                  *)
LEMMA AnswerKeeps ==
  ASSUME ReadsInv, Asking, UNCHANGED <<hist, primedFrom, call, pc, start>>,
         NEW r, got' = Append(got, r), NextFits(r)
  PROVE  CallTyped' /\ HistoryOK' /\ AnswersOK' /\ Len(got') = Len(got) + 1 /\ Len(got) \in Nat
<1> DEFINE n == Len(got)
           S == {got[k] : k \in DOMAIN got} \cup {r}
<1>1. /\ pc = "calling" /\ Len(got) < Len(Requests(call)) /\ call \in Calls
      /\ Len(Requests(call)) \in Nat /\ Requests(call)' = Requests(call)
  <2>1. call \in Calls
    BY DEF ReadsInv, CallTyped
  <2>2. Requests(call)' = Requests(call)
    BY DEF Requests, PriorStart, PriorMonthDate
  <2> QED BY <2>1, <2>2, TheRequests DEF Asking
<1>2. got \in Seq({got[k] : k \in DOMAIN got})
  BY DEF ReadsInv, AnswersOK
<1>3. DOMAIN got = 1..n /\ n \in Nat
  BY <1>2
<1>4. got \in Seq(S) /\ r \in S
  BY <1>2
<1>5. /\ Len(got') = n + 1 /\ DOMAIN got' = 1..(n + 1)
      /\ got'[n + 1] = r /\ \A k \in 1..n : got'[k] = got[k]
      /\ got' \in Seq(S)
  <2> HIDE DEF S
  <2> QED BY <1>4, Grows
<1>6. got' \in Seq({got'[k] : k \in DOMAIN got'})
  <2> HIDE DEF S
  <2> QED BY <1>5, SequenceOfItsOwn
<1>7. Past
  BY PastOfItself
<1>8. \A k \in 1..n : AnswerFits(k)'
  <2> HIDE DEF Past
  <2> QED BY <1>3, <1>5, <1>7, AnswerStays
<1>9. hist \in Seq(Plans) /\ Len(hist) \in Nat /\ DOMAIN hist = 1..Len(hist) /\ 1 <= Len(hist)
      /\ start \in 1..Len(hist)
  BY DEF ReadsInv, HistoryOK, AnswersOK
<1>10. ASSUME NEW k, k = n + 1 PROVE AnswerFits(k)'
  <2> DEFINE a == Len(hist)
  <2>1. got'[k] = r /\ r.at = a /\ k = n + 1
    BY <1>5, <1>10 DEF NextFits
  <2>2. Period(got[k].at)' = Period(a)
    <3>1. Primed' = Primed
      BY <1>7, PrimedStays
    <3>2. hist'[a] = hist[a] /\ call' = call
      OBVIOUS
    <3> QED BY <2>1, <3>1, <3>2 DEF Period, DeltasTo
  <2>3. call' = call /\ hist'[a] = hist[a]
    OBVIOUS
  <2> QED BY <2>1, <2>2, <2>3 DEF AnswerFits, NextFits
<1>11. \A k \in 1..n : got[k].at \in start..Len(hist)
         /\ \A l \in 1..n : k <= l => got[k].at <= got[l].at
  BY <1>3 DEF ReadsInv, AnswersOK
<1>12. ASSUME NEW k \in 1..(n + 1)
       PROVE  /\ got'[k].at \in start..Len(hist)
              /\ \A l \in 1..(n + 1) : k <= l => got'[k].at <= got'[l].at
              /\ AnswerFits(k)'
  <2>1. r.at = Len(hist)
    BY DEF NextFits
  <2>2. CASE k \in 1..n
    <3>1. got'[k].at \in start..Len(hist) /\ got'[k] = got[k]
      BY <1>5, <1>11, <2>2
    <3>2. ASSUME NEW l \in 1..(n + 1), k <= l PROVE got'[k].at <= got'[l].at
      <4>1. CASE l \in 1..n
        BY <1>5, <1>11, <2>2, <3>2, <4>1
      <4>2. CASE l = n + 1
        BY <1>5, <1>9, <2>1, <3>1, <4>2
      <4> QED BY <1>3, <4>1, <4>2
    <3> QED BY <1>8, <2>2, <3>1, <3>2
  <2>3. CASE k = n + 1
    <3>1. \A l \in 1..(n + 1) : k <= l => l = n + 1
      BY <1>3, <2>3
    <3>2. got'[k] = r /\ AnswerFits(k)'
      BY <1>5, <1>10, <2>3
    <3>3. got'[k].at = Len(hist) /\ Len(hist) \in start..Len(hist) /\ Len(hist) <= Len(hist)
      BY <1>9, <2>1, <3>2
    <3> QED BY <2>3, <3>1, <3>2, <3>3
  <2> QED BY <1>3, <2>2, <2>3
<1>13. Len(got') <= Len(Requests(call))
  BY <1>1, <1>3, <1>5
<1>14. AnswersOK'
  BY <1>1, <1>5, <1>6, <1>9, <1>12, <1>13 DEF AnswersOK
<1>15. HistoryOK'
  BY DEF ReadsInv, HistoryOK
<1>16. CallTyped'
  BY <1>1 DEF ReadsInv, CallTyped
<1> QED BY <1>3, <1>5, <1>14, <1>15, <1>16

(* Each request, with the rows that answer it.                             *)
LEMMA CheckRequest ==
  ASSUME ReadsInv, Asking, call.tool = "check"
  PROVE  /\ request.get = "category"
         /\ Matching = InCategory(hist[Len(hist)].rows, call.categories[Len(got) + 1], call.from)
<1>1. call \in Calls /\ Len(got) \in Nat /\ Len(got) < Len(Requests(call))
  BY DEF ReadsInv, CallTyped, AnswersOK, Asking
<1>2. Len(got) + 1 \in 1..Len(Requests(call))
  BY <1>1, TheRequests
<1>3. request = [get |-> "category", category |-> call.categories[Len(got) + 1], since |-> call.from]
  BY <1>1, <1>2, TheRequests DEF request
<1> QED BY <1>3 DEF Matching, Now

LEMMA CheckInRequest ==
  ASSUME ReadsInv, Asking, call.tool = "checkin"
  PROVE  /\ Len(got) \in 0..3 /\ IsCheckIn(call)
         /\ Len(got) = 0 => /\ request = [get |-> "period", since |-> PriorStart(call)]
                            /\ Deltas = DeltasTo(hist[Len(hist)].rows)
                            /\ Matching = Period(Len(hist))
                            /\ entry = Primed
         /\ Len(got) = 1 => /\ request = [get |-> "unapproved"]
                            /\ Matching = Unapproved(hist[Len(hist)].rows)
         /\ Len(got) = 2 => request = [get |-> "month", month |-> call.asOf.month]
         /\ Len(got) = 3 => request = [get |-> "month", month |-> PriorMonthDate(call).month]
<1> DEFINE n == Len(got)
<1>1. call \in Calls /\ n \in Nat /\ n < Len(Requests(call))
  BY DEF ReadsInv, CallTyped, AnswersOK, Asking
<1>2. n \in 0..3
  <2>1. Len(Requests(call)) = 4
    BY <1>1, TheRequests
  <2> HIDE DEF n
  <2> QED BY <1>1, <2>1
<1>3. ASSUME n = 0
      PROVE  /\ request = [get |-> "period", since |-> PriorStart(call)]
             /\ Deltas = DeltasTo(hist[Len(hist)].rows)
             /\ Matching = Period(Len(hist))
             /\ entry = Primed
  <2>1. request = [get |-> "period", since |-> PriorStart(call)]
    BY <1>1, <1>3, TheRequests DEF request
  <2>2. entry = Primed
    BY <1>3 DEF ReadsInv, EntryOK
  <2>3. Deltas = DeltasTo(hist[Len(hist)].rows)
    BY <2>1, <2>2 DEF Deltas, DeltasTo, Now
  <2>4. Matching = Period(Len(hist))
    BY <2>1, <2>2, <2>3 DEF Matching, Period
  <2> QED BY <2>1, <2>2, <2>3, <2>4
<1>4. ASSUME n = 1
      PROVE  /\ request = [get |-> "unapproved"]
             /\ Matching = Unapproved(hist[Len(hist)].rows)
  <2>1. request = [get |-> "unapproved"]
    BY <1>1, <1>4, TheRequests DEF request
  <2> QED BY <2>1 DEF Matching, Now
<1>5. n = 2 => request = [get |-> "month", month |-> call.asOf.month]
  BY <1>1, TheRequests DEF request
<1>6. n = 3 => request = [get |-> "month", month |-> PriorMonthDate(call).month]
  BY <1>1, TheRequests DEF request
<1>7. IsCheckIn(call)
  BY <1>1, TheRequests
<1> QED BY <1>2, <1>3, <1>4, <1>5, <1>6, <1>7

(* A cut takes rows away and adds none.                                    *)
LEMMA CutsArePart ==
  ASSUME NEW rows, NEW kept \in Cuts(rows)
  PROVE  kept \in SUBSET Held(rows)
BY DEF Cuts, kSubset

(* The merge of a delta answer into the entry holds rows, none of them     *)
(* deleted.                                                                *)
LEMMA PeriodTypes ==
  ASSUME ReadsInv, NEW i \in Ids
  PROVE  LET e == MergedEntry(Primed, Len(hist), DeltasTo(hist[Len(hist)].rows))
         IN  /\ e.knowledge \in 0..Len(hist)
             /\ (Primed.items[i] # NoRow => Primed.items[i] \in Row /\ ~ Primed.items[i].deleted)
                  => (e.items[i] # NoRow => e.items[i] \in Row /\ ~ e.items[i].deleted)
<1> DEFINE D == DeltasTo(hist[Len(hist)].rows)
           k == Len(hist)
           e == MergedEntry(Primed, k, D)
           items == Apply(Primed.items, D)
<1>1. /\ k \in Nat /\ 1 <= k /\ hist[k].rows[i] \in Row \cup {NoRow}
  <2>1. hist \in Seq(Plans) /\ k \in Nat /\ 1 <= k
    BY DEF ReadsInv, HistoryOK
  <2>2. hist[k] \in Plans
    BY <2>1
  <2>3. hist[k].rows \in [Ids -> Row \cup {NoRow}]
    BY <2>2 DEF Plans
  <2> QED BY <2>1, <2>3
<1>2. Primed.knowledge \in 0..1
  BY DEF Primed, EmptyEntry
<1>3. D[i] = hist[k].rows[i] \/ D[i] = NoRow
  BY DEF DeltasTo
<1>4. items[i] = IF D[i] = NoRow THEN Primed.items[i] ELSE IF D[i].deleted THEN NoRow ELSE D[i]
  BY DEF Apply
<1>5. EmptyEntry.knowledge = 0 /\ EmptyEntry.items[i] = NoRow
  BY DEF EmptyEntry, NoItems
<1>6. e = Primed \/ e = EmptyEntry \/ e = [knowledge |-> k, items |-> items]
  BY DEF MergedEntry
<1> HIDE DEF D, items, e, k
<1>7. e.knowledge \in 0..k
  BY <1>1, <1>2, <1>5, <1>6
<1>8. ASSUME Primed.items[i] # NoRow => Primed.items[i] \in Row /\ ~ Primed.items[i].deleted,
             e.items[i] # NoRow
      PROVE  e.items[i] \in Row /\ ~ e.items[i].deleted
  <2>1. items[i] # NoRow => items[i] \in Row /\ ~ items[i].deleted
    BY <1>1, <1>3, <1>4, <1>8, RowsAreRows DEF Row
  <2> QED BY <1>5, <1>6, <1>8, <2>1
<1> QED BY <1>7, <1>8 DEF e, D, k

(* What an entry may be, for whatever the plan has become.                 *)
EntryTyped(e) ==
  /\ e.knowledge \in 0..Len(hist)
  /\ \A i \in Ids : e.items[i] # NoRow => e.items[i] \in Row /\ ~ e.items[i].deleted

(* A request for rows.                                                     *)
LEMMA FetchRowsKeepsReads == ReadsInv /\ FetchRows => ReadsInv'
<1> SUFFICES ASSUME ReadsInv, FetchRows PROVE ReadsInv'
  OBVIOUS
<1>1. Asking /\ UNCHANGED <<hist, primedFrom, call, pc, start>> /\ request.get # "month"
      /\ entry' = IF request.get = "period" THEN MergedEntry(entry, Len(hist), Deltas) ELSE entry
  BY DEF FetchRows
<1>2. PICK kept \in Cuts(Matching) :
        got' = Append(got, [at |-> Len(hist),
                            rows |-> [i \in Ids |-> IF i \in kept THEN Matching[i] ELSE NoRow],
                            truncated |-> kept # Held(Matching)])
  BY DEF FetchRows
<1> DEFINE r == [at |-> Len(hist),
                 rows |-> [i \in Ids |-> IF i \in kept THEN Matching[i] ELSE NoRow],
                 truncated |-> kept # Held(Matching)]
<1>3. r \in Answers(Matching, Len(hist)) /\ r.at = Len(hist)
  BY CutsArePart DEF Answers, Part
<1>4. call \in Calls /\ call.tool \in {"check", "checkin"}
  BY TheRequests DEF ReadsInv, CallTyped
<1>5. NextFits(r)
  <2> HIDE DEF r
  <2>1. CASE call.tool = "check"
    <3>1. r \in Answers(InCategory(hist[Len(hist)].rows, call.categories[Len(got) + 1], call.from),
                        Len(hist))
      BY <1>1, <1>3, <2>1, CheckRequest
    <3> QED BY <1>3, <2>1, <3>1 DEF NextFits
  <2>2. CASE call.tool = "checkin"
    <3>1. Len(got) \in 0..3
      BY <1>1, <2>2, CheckInRequest
    <3>2. Len(got) \in {0, 1}
      BY <1>1, <2>2, <3>1, CheckInRequest
    <3>3. Len(got) = 0 => r \in Answers(Period(Len(hist)), Len(hist))
      BY <1>1, <1>3, <2>2, CheckInRequest
    <3>4. Len(got) = 1 => r \in Answers(Unapproved(hist[Len(hist)].rows), Len(hist))
      BY <1>1, <1>3, <2>2, CheckInRequest
    <3>5. call.tool # "check"
      BY <2>2
    <3>6. CASE Len(got) = 0
      <4>1. Len(got) + 1 = 1
        BY <3>6
      <4> QED BY <1>3, <3>3, <3>5, <3>6, <4>1 DEF NextFits
    <3>7. CASE Len(got) = 1
      <4>1. Len(got) + 1 = 2
        BY <3>7
      <4> QED BY <1>3, <3>4, <3>5, <3>7, <4>1 DEF NextFits
    <3> QED BY <3>2, <3>6, <3>7
  <2> QED BY <1>4, <2>1, <2>2
<1>6. CallTyped' /\ HistoryOK' /\ AnswersOK' /\ Len(got') = Len(got) + 1 /\ Len(got) \in Nat
  <2>1. got' = Append(got, r)
    BY <1>2
  <2> HIDE DEF r
  <2> QED BY <1>1, <1>5, <2>1, AnswerKeeps
<1>7. Primed' = Primed
  BY <1>1, PastOfItself, PrimedStays
<1>8. EntryOK'
  <2>0. EntryTyped(entry) /\ (call.tool = "check" \/ Len(got) = 0 => entry = Primed)
    BY DEF ReadsInv, EntryOK, EntryTyped
  <2>1. CASE call.tool = "check"
    <3>1. entry' = entry
      BY <1>1, <2>1, CheckRequest
    <3> QED BY <1>1, <1>7, <2>0, <2>1, <3>1 DEF EntryOK, EntryTyped
  <2>2. CASE call.tool = "checkin"
    <3>1. Len(got') # 0 /\ call.tool # "check"
      BY <1>6, <2>2
    <3>2. EntryTyped(entry')
      <4>1. Len(got) \in {0, 1, 2, 3}
        BY <1>1, <2>2, CheckInRequest
      <4>2. CASE Len(got) = 0
        <5>1. entry = Primed /\ entry' = MergedEntry(Primed, Len(hist), DeltasTo(hist[Len(hist)].rows))
          BY <1>1, <2>2, <4>2, CheckInRequest
        <5>2. \A i \in Ids : Primed.items[i] # NoRow => Primed.items[i] \in Row /\ ~ Primed.items[i].deleted
          BY <2>0, <5>1 DEF EntryTyped
        <5>3. entry'.knowledge \in 0..Len(hist)
          <6>1. CASE Ids = {}
            <7>1. Primed.knowledge \in 0..1 /\ EmptyEntry.knowledge = 0
              BY DEF Primed, EmptyEntry
            <7>2. Len(hist) \in Nat /\ 1 <= Len(hist)
              BY DEF ReadsInv, HistoryOK
            <7>3. \/ entry' = Primed \/ entry' = EmptyEntry
                  \/ entry' = [knowledge |-> Len(hist),
                               items |-> Apply(Primed.items, DeltasTo(hist[Len(hist)].rows))]
              BY <5>1 DEF MergedEntry
            <7> QED BY <7>1, <7>2, <7>3
          <6>2. CASE Ids # {}
            BY <5>1, <6>2, PeriodTypes
          <6> QED BY <6>1, <6>2
        <5>4. ASSUME NEW i \in Ids, entry'.items[i] # NoRow
              PROVE  entry'.items[i] \in Row /\ ~ entry'.items[i].deleted
          BY <5>1, <5>2, <5>4, PeriodTypes
        <5> QED BY <5>3, <5>4 DEF EntryTyped
      <4>3. CASE Len(got) # 0
        <5>1. request.get # "period"
          BY <1>1, <2>2, <4>1, <4>3, CheckInRequest
        <5> QED BY <1>1, <2>0, <5>1
      <4> QED BY <4>2, <4>3
    <3> QED BY <1>1, <3>1, <3>2 DEF EntryOK, EntryTyped
  <2> QED BY <1>4, <2>1, <2>2
<1> QED BY <1>6, <1>8 DEF ReadsInv

(* A request for a month.                                                  *)
LEMMA FetchMonthKeepsReads == ReadsInv /\ FetchMonth => ReadsInv'
<1> SUFFICES ASSUME ReadsInv, FetchMonth PROVE ReadsInv'
  OBVIOUS
<1>1. Asking /\ UNCHANGED <<hist, entry, primedFrom, call, start>> /\ request.get = "month"
  BY DEF FetchMonth
<1>2. call \in Calls /\ call.tool = "checkin"
  <2>1. call \in Calls
    BY DEF ReadsInv, CallTyped
  <2>2. call.tool # "check"
    BY <1>1, CheckRequest
  <2> QED BY <2>1, <2>2, TheRequests
<1>3. Len(got) \in {2, 3}
  <2>1. Len(got) \in {0, 1, 2, 3}
    BY <1>1, <1>2, CheckInRequest
  <2> QED BY <1>1, <1>2, <2>1, CheckInRequest
<1>4. Primed' = Primed
  BY <1>1, PastOfItself, PrimedStays
<1> DEFINE mth == hist[Len(hist)].months[request.month]
           r == [at |-> Len(hist), month |-> mth]
<1>5. CASE mth = NoMonth /\ Len(got) = 2
  <2>1. pc' = "failed" /\ UNCHANGED got
    BY <1>5 DEF FetchMonth, Now
  <2>2. CallTyped'
    BY <1>1, <2>1 DEF ReadsInv, CallTyped, Asking
  <2>3. HistoryOK'
    BY <1>1 DEF ReadsInv, HistoryOK
  <2>4. AnswersOK'
    <3>1. \A k \in DOMAIN got : AnswerFits(k)'
      BY <1>1, <2>1, PastOfItself, AnswerStays
    <3>2. Requests(call)' = Requests(call)
      BY <1>1 DEF Requests, PriorStart, PriorMonthDate
    <3> QED BY <1>1, <2>1, <3>1, <3>2 DEF ReadsInv, AnswersOK
  <2>5. EntryOK'
    BY <1>1, <1>4, <2>1 DEF ReadsInv, EntryOK
  <2> QED BY <2>2, <2>3, <2>4, <2>5 DEF ReadsInv
<1>6. CASE ~ (mth = NoMonth /\ Len(got) = 2)
  <2>1. got' = Append(got, r) /\ pc' = pc
    BY <1>6 DEF FetchMonth, Now
  <2>2. NextFits(r)
    <3>1. CASE Len(got) = 2
      <4>1. Len(got) + 1 = 3 /\ request.month = call.asOf.month /\ mth # NoMonth
        BY <1>1, <1>2, <1>6, <3>1, CheckInRequest
      <4>2. r = [at |-> Len(hist), month |-> hist[Len(hist)].months[call.asOf.month]] /\ r.month # NoMonth
        BY <4>1
      <4> HIDE DEF r
      <4> QED BY <1>2, <4>1, <4>2 DEF NextFits
    <3>2. CASE Len(got) = 3
      <4>1. Len(got) + 1 = 4 /\ request.month = PriorMonthDate(call).month
        BY <1>1, <1>2, <3>2, CheckInRequest
      <4>2. r = [at |-> Len(hist), month |-> hist[Len(hist)].months[PriorMonthDate(call).month]]
        BY <4>1
      <4> HIDE DEF r
      <4> QED BY <1>2, <4>1, <4>2 DEF NextFits
    <3> QED BY <1>3, <3>1, <3>2
  <2>3. CallTyped' /\ HistoryOK' /\ AnswersOK' /\ Len(got') = Len(got) + 1 /\ Len(got) \in Nat
    <3> HIDE DEF r
    <3> QED BY <1>1, <2>1, <2>2, AnswerKeeps
  <2>4. EntryOK'
    <3>1. Len(got') # 0 /\ call.tool # "check"
      BY <1>2, <2>3
    <3> QED BY <1>1, <1>4, <3>1 DEF ReadsInv, EntryOK
  <2> QED BY <2>3, <2>4 DEF ReadsInv
<1> QED BY <1>5, <1>6

(* Steps that leave the plan and the answers alone.                        *)
LEMMA QuietKeepsReads ==
  ASSUME ReadsInv, UNCHANGED <<hist, entry, primedFrom, call, got>>,
         start' \in {start, Len(hist)}, start' = start \/ got = <<>>, CallTyped'
  PROVE  ReadsInv'
<1>1. HistoryOK'
  BY DEF ReadsInv, HistoryOK
<1>2. AnswersOK'
  <2>1. Past /\ \A k \in DOMAIN got : AnswerFits(k)'
    BY PastOfItself, AnswerStays
  <2>2. Requests(call)' = Requests(call)
    BY DEF Requests, PriorStart, PriorMonthDate
  <2>3. Len(hist) \in Nat /\ 1 <= Len(hist) /\ start \in 1..Len(hist)
    BY DEF ReadsInv, HistoryOK, AnswersOK
  <2>4. got = <<>> => DOMAIN got = {}
    OBVIOUS
  <2>5. start' \in 1..Len(hist)
    BY <2>3
  <2> HIDE DEF Past
  <2>6. \A k \in DOMAIN got : got[k].at \in start'..Len(hist)
    BY <2>4 DEF ReadsInv, AnswersOK
  <2> QED BY <2>1, <2>2, <2>5, <2>6 DEF ReadsInv, AnswersOK
<1>3. EntryOK'
  BY PastOfItself, PrimedStays DEF ReadsInv, EntryOK
<1> QED BY <1>1, <1>2, <1>3 DEF ReadsInv

(* A call begins.                                                          *)
LEMMA BeginKeepsReads == ReadsInv /\ Begin => ReadsInv'
<1> SUFFICES ASSUME ReadsInv, Begin PROVE ReadsInv'
  OBVIOUS
<1>1. /\ UNCHANGED <<hist, entry, primedFrom, call, got>>
      /\ start' = Len(hist) /\ pc = "idle" /\ pc' = "calling"
  BY DEF Begin
<1>2. got = <<>> /\ CallTyped'
  BY <1>1 DEF ReadsInv, CallTyped
<1> QED BY <1>1, <1>2, QuietKeepsReads

(* A call ends, with or without an answer.                                 *)
LEMMA EndKeepsReads == ReadsInv /\ (Fail \/ Finish) => ReadsInv'
<1> SUFFICES ASSUME ReadsInv, Fail \/ Finish PROVE ReadsInv'
  OBVIOUS
<1>1. /\ UNCHANGED <<hist, entry, primedFrom, call, got>> /\ start' = start
      /\ pc' = "failed" \/ (pc' = "done" /\ Len(got) = Len(Requests(call)))
  BY DEF Fail, Finish
<1>2. Requests(call)' = Requests(call)
  BY <1>1 DEF Requests, PriorStart, PriorMonthDate
<1>3. CallTyped'
  BY <1>1, <1>2 DEF ReadsInv, CallTyped
<1> QED BY <1>1, <1>3, QuietKeepsReads

(* Nothing happens.                                                        *)
LEMMA StutterKeepsReads == ReadsInv /\ UNCHANGED vars => ReadsInv'
<1> SUFFICES ASSUME ReadsInv, UNCHANGED vars PROVE ReadsInv'
  OBVIOUS
<1>1. UNCHANGED <<hist, entry, primedFrom, call, got, pc, start>>
  BY DEF vars
<1>2. Requests(call)' = Requests(call)
  BY <1>1 DEF Requests, PriorStart, PriorMonthDate
<1>3. CallTyped'
  BY <1>1, <1>2 DEF ReadsInv, CallTyped
<1> QED BY <1>1, <1>3, QuietKeepsReads

(* The answers of a call are what the plan held when they were given, in   *)
(* the order of the requests.                                              *)
THEOREM ReadsInvariance == Spec => []ReadsInv
<1>1. ReadsInv /\ [Next]_vars => ReadsInv'
  BY ChangeKeepsReads, BeginKeepsReads, FetchRowsKeepsReads, FetchMonthKeepsReads,
     EndKeepsReads, StutterKeepsReads DEF Next
<1> QED BY ReadsBegin, <1>1, PTL DEF Spec

(* What the answers hold is of the plan.                                   *)
LEMMA AnswerRows ==
  ASSUME ReadsInv, NEW k \in DOMAIN got, "rows" \in DOMAIN got[k], NEW i \in Held(got[k].rows)
  PROVE  got[k].rows[i] \in Row /\ ~ got[k].rows[i].deleted
<1> DEFINE at == got[k].at
           P == Period(at)
<1>1. /\ k \in 1..Len(got) /\ Len(got) \in Nat /\ Len(got) <= Len(Requests(call))
      /\ at \in 1..Len(hist) /\ AnswerFits(k) /\ hist \in Seq(Plans) /\ call \in Calls
      /\ EntryOK
  BY DEF ReadsInv, AnswersOK, HistoryOK, CallTyped
<1>2. hist[at].rows \in [Ids -> Row \cup {NoRow}]
  <2>1. hist[at] \in Plans
    BY <1>1
  <2> QED BY <2>1 DEF Plans
<1>3. i \in Ids /\ got[k].rows[i] # NoRow
  BY DEF Held
<1>4. ASSUME NEW rows, got[k] \in Answers(rows, at),
             rows[i] # NoRow => rows[i] \in Row /\ ~ rows[i].deleted
      PROVE  got[k].rows[i] \in Row /\ ~ got[k].rows[i].deleted
  BY <1>3, <1>4 DEF Answers, Part
<1>5. CASE call.tool = "check"
  <2> DEFINE c == call.categories[k]
  <2>1. LET rows == InCategory(hist[at].rows, c, call.from)
        IN  rows[i] # NoRow => rows[i] \in Row /\ ~ rows[i].deleted
    BY <1>2, <1>3 DEF InCategory, IsLive
  <2>2. got[k] \in Answers(InCategory(hist[at].rows, c, call.from), at)
    BY <1>1, <1>5 DEF AnswerFits
  <2> QED BY <1>4, <2>1, <2>2
<1>6. CASE call.tool = "checkin"
  <2>1. k \in {1, 2, 3, 4}
    <3>1. Len(Requests(call)) = 4
      BY <1>1, <1>6, TheRequests
    <3> QED BY <1>1, <3>1
  <2>2. CASE k = 1
    <3>1. Primed.items[i] # NoRow => Primed.items[i] \in Row /\ ~ Primed.items[i].deleted
      <4>1. hist[1].rows \in [Ids -> Row \cup {NoRow}]
        <5>1. hist[1] \in Plans
          BY <1>1
        <5> QED BY <5>1 DEF Plans
      <4> QED BY <1>3, <4>1 DEF Primed, EmptyEntry, NoItems, OnOrAfter, IsLive
    <3>2. P[i] # NoRow => P[i] \in Row /\ ~ P[i].deleted
      BY <1>2, <1>3, <3>1 DEF Period, MergedItems, Apply, DeltasTo
    <3>3. got[k] \in Answers(P, at)
      BY <1>1, <1>6, <2>2 DEF AnswerFits
    <3> QED BY <1>4, <3>2, <3>3
  <2>3. CASE k = 2
    <3>1. LET rows == Unapproved(hist[at].rows)
          IN  rows[i] # NoRow => rows[i] \in Row /\ ~ rows[i].deleted
      BY <1>2, <1>3 DEF Unapproved, IsLive
    <3>2. got[k] \in Answers(Unapproved(hist[at].rows), at)
      BY <1>1, <1>6, <2>3 DEF AnswerFits
    <3> QED BY <1>4, <3>1, <3>2
  <2>4. CASE k \in {3, 4}
    <3>1. DOMAIN got[k] = {"at", "month"}
      BY <1>1, <1>6, <2>4 DEF AnswerFits
    <3> QED BY <3>1
  <2> QED BY <2>1, <2>2, <2>3, <2>4
<1> QED BY <1>1, <1>5, <1>6, TheRequests

(* The types follow.                                                       *)
LEMMA ReadsTypes == ReadsInv => TypeOK
<1> SUFFICES ASSUME ReadsInv PROVE TypeOK
  OBVIOUS
<1>1. hist \in Seq(Plans) /\ Len(hist) \in 1..MaxVersion /\ MaxVersion \in Nat /\ Len(hist) \in Nat
  BY TaskAssumption DEF ReadsInv, HistoryOK
<1>2. ASSUME NEW k \in DOMAIN hist, NEW i \in Ids PROVE hist[k].rows[i] \in Row \cup {NoRow}
  <2>1. hist[k] \in Plans
    BY <1>1, <1>2
  <2> QED BY <2>1 DEF Plans
<1>3. start \in 1..MaxVersion /\ \A k \in DOMAIN got : got[k].at \in 1..MaxVersion
  BY <1>1 DEF ReadsInv, AnswersOK
<1>4. entry.knowledge \in 0..MaxVersion
  BY <1>1 DEF ReadsInv, EntryOK
<1>5. Len(got) <= Len(Requests(call))
  BY DEF ReadsInv, AnswersOK
<1> QED BY <1>2, <1>3, <1>4, <1>5, AnswerRows DEF ReadsInv, TypeOK, EntryOK, CallTyped

(* Every variable of the two tools keeps its type.                         *)
THEOREM ReadsTyped == Spec => []TypeOK
BY ReadsInvariance, ReadsTypes, PTL

(* An answer that is not cut holds all the rows there are.                 *)
LEMMA WholeAnswer ==
  ASSUME NEW rows, NEW k, NEW r \in Answers(rows, k), NEW i \in Ids
  PROVE  r.at = k /\ r.rows[i] \in {rows[i], NoRow} /\ (~ r.truncated => r.rows[i] = rows[i])
<1>1. PICK kept \in SUBSET Held(rows) :
        r = [at |-> k, rows |-> Part(rows, kept), truncated |-> kept # Held(rows)]
  BY DEF Answers
<1>2. r.rows[i] = IF i \in kept THEN rows[i] ELSE NoRow
  BY <1>1 DEF Part
<1>3. rows[i] # NoRow <=> i \in Held(rows)
  BY DEF Held
<1> QED BY <1>1, <1>2, <1>3

(* The answers of a spending check, once all are there.                    *)
LEMMA CheckAnswers ==
  ASSUME ReadsInv, Checked
  PROVE  /\ IsCheck(call) /\ Len(got) \in Nat \ {0}
         /\ DOMAIN got = 1..Len(got) /\ DOMAIN call.categories = DOMAIN got
         /\ \A k \in DOMAIN got :
              /\ got[k].at \in 1..Len(hist)
              /\ got[k].at \in got[1].at..got[Len(got)].at
              /\ hist[got[k].at].rows \in [Ids -> Row \cup {NoRow}]
              /\ got[k] \in Answers(InCategory(hist[got[k].at].rows, call.categories[k], call.from),
                                    got[k].at)
<1>1. /\ call \in Calls /\ call.tool = "check" /\ Len(got) = Len(Requests(call))
      /\ got \in Seq({got[k] : k \in DOMAIN got}) /\ hist \in Seq(Plans)
      /\ Len(hist) \in Nat /\ start \in 1..Len(hist)
  BY DEF ReadsInv, CallTyped, AnswersOK, HistoryOK, Checked
<1>2. /\ IsCheck(call) /\ Len(got) \in Nat \ {0}
      /\ DOMAIN got = 1..Len(got) /\ DOMAIN call.categories = DOMAIN got
  BY <1>1, TheRequests
<1>3. 1 \in DOMAIN got /\ Len(got) \in DOMAIN got
  BY <1>2
<1>4. ASSUME NEW k \in DOMAIN got
      PROVE  /\ got[k].at \in 1..Len(hist)
             /\ got[k].at \in got[1].at..got[Len(got)].at
  <2>1. \A l \in DOMAIN got : got[l].at \in start..Len(hist)
    BY DEF ReadsInv, AnswersOK
  <2>2. got[1].at <= got[k].at /\ got[k].at <= got[Len(got)].at
    <3>1. 1 <= k /\ k <= Len(got)
      BY <1>2
    <3> QED BY <1>3, <3>1 DEF ReadsInv, AnswersOK
  <2> QED BY <1>1, <1>3, <2>1, <2>2
<1>5. ASSUME NEW k \in DOMAIN got PROVE hist[got[k].at].rows \in [Ids -> Row \cup {NoRow}]
  <2>1. hist[got[k].at] \in Plans
    BY <1>1, <1>4
  <2> QED BY <2>1 DEF Plans
<1>6. \A k \in DOMAIN got : AnswerFits(k)
  BY DEF ReadsInv, AnswersOK
<1> QED BY <1>1, <1>2, <1>4, <1>5, <1>6 DEF AnswerFits

(* A spending check compares with the budget only what is complete.        *)
LEMMA CompleteFollows == ReadsInv => VerdictIsComplete
<1> SUFFICES ASSUME ReadsInv, Checked, OnPlan # "absent", NEW k \in DOMAIN got, NEW i \in Ids,
                    IsLive(hist[got[k].at].rows[i]),
                    hist[got[k].at].rows[i].of.category = call.categories[k],
                    ~ Before(hist[got[k].at].rows[i].of.date, call.from)
             PROVE  got[k].rows[i] = hist[got[k].at].rows[i]
  BY DEF VerdictIsComplete
<1>1. ~ got[k].truncated
  BY DEF OnPlan, Truncated
<1>2. got[k].rows[i] = InCategory(hist[got[k].at].rows, call.categories[k], call.from)[i]
  BY <1>1, CheckAnswers, WholeAnswer
<1> QED BY <1>2 DEF InCategory

(* ynab_spending_check says over or under budget only of a sum that no cut *)
(* answer went into, for every number of categories.                       *)
THEOREM VerdictsComplete == Spec => []VerdictIsComplete
BY ReadsInvariance, CompleteFollows, PTL

(* Numbers up to n have a greatest among them.                             *)
LEMMA Greatest ==
  ASSUME NEW n \in Nat, NEW S \in SUBSET (1..n), S # {}
  PROVE  Max(S) \in S
<1> DEFINE T == {y \in 0..n : n - y \in S}
<1>1. PICK m \in T : \A y \in T : m <= y
  <2>1. PICK x \in S : x \in 1..n
    OBVIOUS
  <2>2. n - x \in 0..n /\ n - (n - x) = x
    BY <2>1
  <2>3. T # {}
    BY <2>1, <2>2
  <2>4. T \in SUBSET Nat
    OBVIOUS
  <2> HIDE DEF T
  <2> QED BY <2>3, <2>4, Smallest
<1>2. n - m \in S
  BY <1>1
<1>3. ASSUME NEW y \in S PROVE n - m >= y
  <2>1. y \in 1..n /\ n - y \in 0..n /\ n - (n - y) = y
    OBVIOUS
  <2>2. m <= n - y
    BY <1>1, <2>1
  <2> QED BY <1>1, <2>1, <2>2
<1>4. \E x \in S : \A y \in S : x >= y
  BY <1>2, <1>3
<1> QED BY <1>4 DEF Max

(* Scope in the terms of the code.                                         *)
LEMMA ScopeByDates ==
  ASSUME IsCheck(call), NEW row \in Row
  PROVE  InScope(row) <=> ~ row.deleted /\ row.of.category \in Listed /\ Counted(row)
<1>1. row.of \in Entries /\ row # NoRow
  BY RowsAreRows DEF Row
<1>2. row.of.date \in Date /\ call.from \in Date /\ call.to \in Date
  BY <1>1, TaskAssumption DEF IsEntry, IsCheck
<1> DEFINE d == DayNumber(row.of.date)
           f == DayNumber(call.from)
           t == DayNumber(call.to)
<1>3. /\ d \in Int /\ f \in Int /\ t \in Int
      /\ Before(row.of.date, call.from) <=> d < f
      /\ Before(call.to, row.of.date) <=> t < d
  BY <1>2, BeforeByDays
<1>4. DaysBetween(call.from, row.of.date) = d - f /\ DaysBetween(row.of.date, call.to) = t - d
  BY DEF DaysBetween
<1>5. InScope(row) <=> /\ ~ row.deleted /\ row.of.category \in Listed
                       /\ d - f >= 0 /\ t - d >= 0 /\ row.of.payee \notin call.excluded
  BY <1>1, <1>4 DEF InScope, IsLive
<1>6. Counted(row) <=> ~ (t < d) /\ ~ (d < f) /\ row.of.payee \notin call.excluded
  BY <1>3 DEF Counted
<1> HIDE DEF d, f, t
<1> QED BY <1>3, <1>5, <1>6

(* A row in scope throughout the requests is counted once, one never in    *)
(* scope is not.                                                           *)
LEMMA SeenFollows == ReadsInv => SpendingCountsWhatStays
<1> SUFFICES ASSUME ReadsInv, Checked, ~ Truncated, NEW i \in Ids
             PROVE  LET moments == got[1].at..got[Len(got)].at
                        stays == /\ \A k \in moments : InScope(hist[k].rows[i])
                                 /\ \A k, l \in moments :
                                      hist[k].rows[i].of.category = hist[l].rows[i].of.category
                    IN  /\ stays => Seen[i] # NoRow
                        /\ Seen[i] # NoRow =>
                             \E k \in moments : InScope(hist[k].rows[i]) /\ hist[k].rows[i] = Seen[i]
  BY DEF SpendingCountsWhatStays
<1> DEFINE moments == got[1].at..got[Len(got)].at
           ks == {k \in DOMAIN got : got[k].rows[i] # NoRow /\ Counted(got[k].rows[i])}
<1>1. /\ IsCheck(call) /\ Len(got) \in Nat \ {0}
      /\ DOMAIN got = 1..Len(got) /\ DOMAIN call.categories = DOMAIN got
  BY CheckAnswers
<1>2. ASSUME NEW k \in DOMAIN got
      PROVE  /\ got[k].at \in moments
             /\ hist[got[k].at].rows[i] \in Row \cup {NoRow}
             /\ got[k].rows[i] = InCategory(hist[got[k].at].rows, call.categories[k], call.from)[i]
  <2>1. ~ got[k].truncated
    BY DEF Truncated
  <2> QED BY <2>1, CheckAnswers, WholeAnswer
<1>3. Seen[i] = IF ks = {} THEN NoRow ELSE got[Max(ks)].rows[i]
  BY DEF Seen
<1>4. ks # {} => Max(ks) \in ks
  BY <1>1, Greatest
<1> HIDE DEF moments
<1>5. ASSUME \A k \in moments : InScope(hist[k].rows[i]),
             \A k, l \in moments : hist[k].rows[i].of.category = hist[l].rows[i].of.category
      PROVE  Seen[i] # NoRow
  <2>1. 1 \in DOMAIN got
    BY <1>1
  <2>2. PICK k \in DOMAIN got : hist[got[1].at].rows[i].of.category = call.categories[k]
    BY <1>1, <1>2, <1>5, <2>1 DEF InScope, Listed
  <2> DEFINE row == hist[got[k].at].rows[i]
  <2>3. row.of.category = call.categories[k] /\ InScope(row)
    BY <1>2, <1>5, <2>1, <2>2
  <2>4. row \in Row
    BY <1>2, <2>3 DEF InScope, IsLive
  <2>5. Counted(row) /\ ~ row.deleted
    <3> HIDE DEF row
    <3> QED BY <1>1, <2>3, <2>4, ScopeByDates
  <2>6. got[k].rows[i] = row
    BY <1>2, <2>3, <2>4, <2>5, RowsAreRows DEF InCategory, IsLive, Counted
  <2>7. k \in ks
    BY <2>4, <2>5, <2>6, RowsAreRows
  <2> QED BY <1>3, <1>4, <2>7
<1>6. ASSUME Seen[i] # NoRow
      PROVE  \E k \in moments : InScope(hist[k].rows[i]) /\ hist[k].rows[i] = Seen[i]
  <2>1. ks # {}
    BY <1>3, <1>6
  <2> DEFINE m == Max(ks)
             row == hist[got[m].at].rows[i]
  <2>2. m \in ks /\ Seen[i] = got[m].rows[i]
    BY <1>3, <1>4, <2>1
  <2>3. m \in DOMAIN got /\ got[m].rows[i] # NoRow /\ Counted(got[m].rows[i])
    BY <2>2
  <2> HIDE DEF m, ks
  <2>4. row = got[m].rows[i] /\ IsLive(row) /\ row.of.category = call.categories[m]
    BY <1>2, <2>3 DEF InCategory
  <2>5. row \in Row /\ Counted(row) /\ ~ row.deleted /\ row.of.category \in Listed
    BY <1>1, <1>2, <2>3, <2>4 DEF IsLive, Listed
  <2>6. InScope(row)
    <3> HIDE DEF row
    <3> QED BY <1>1, <2>5, ScopeByDates
  <2> QED BY <1>2, <2>2, <2>3, <2>4, <2>6
<1> QED BY <1>5, <1>6 DEF moments

(* Amounts add up to a number.                                             *)
LEMMA AmountType ==
  ASSUME NEW rows, NEW S \in SUBSET Ids, \A i \in S : rows[i].amount \in Int
  PROVE  AmountIn(rows, S) \in Int /\ IsFiniteSet(S) /\ IsFiniteSet(Ids)
<1>1. IsFiniteSet(Ids)
  <2>1. IsFiniteSet(Items) /\ IsFiniteSet({"out", "in"})
    <3>1. {"out", "in"} = {"out"} \cup {"in"}
      OBVIOUS
    <3>2. IsFiniteSet({"out"})
      BY FS_Singleton
    <3>3. IsFiniteSet({"out"} \cup {"in"})
      BY <3>2, FS_AddElement
    <3> QED BY <3>1, <3>3, TaskAssumption
  <2> QED BY <2>1, FS_Product DEF Ids
<1>2. IsFiniteSet(S)
  BY <1>1, FS_Subset
<1> DEFINE f == [i \in S |-> rows[i].amount]
<1>3. DOMAIN f = S /\ \A i \in S : f[i] \in Int
  OBVIOUS
<1>4. AmountIn(rows, S) = SumFunctionOnSet(f, S)
  BY <1>3 DEF AmountIn, SumFunction
<1> HIDE DEF f
<1> QED BY <1>1, <1>2, <1>3, <1>4, SumType

(* If the plan stayed as it was and no answer was cut, the sum is the      *)
(* spending.                                                               *)
LEMMA ExactFollows == ReadsInv => SpendingExact
<1> SUFFICES ASSUME ReadsInv, Checked, ~ Truncated, got[1].at = got[Len(got)].at
             PROVE  LET rows == hist[got[1].at].rows
                        spent == - AmountIn(rows, {i \in Ids : InScope(rows[i])})
                    IN  Actual = spent /\ (OnPlan = "yes" <=> spent <= call.budget)
  BY DEF SpendingExact
<1> DEFINE at == got[1].at
           rows == hist[at].rows
           S == {i \in Ids : InScope(rows[i])}
<1>1. /\ IsCheck(call) /\ 1 \in DOMAIN got /\ at \in 1..Len(hist)
      /\ rows \in [Ids -> Row \cup {NoRow}]
  BY CheckAnswers
<1>2. at \in Int /\ got[1].at..got[Len(got)].at = {at}
  BY <1>1
<1>3. ASSUME NEW i \in Ids
      PROVE  /\ Seen[i] # NoRow <=> InScope(rows[i])
             /\ Seen[i] # NoRow => Seen[i] = rows[i]
  <2>1. LET moments == got[1].at..got[Len(got)].at
            stays == /\ \A k \in moments : InScope(hist[k].rows[i])
                     /\ \A k, l \in moments :
                          hist[k].rows[i].of.category = hist[l].rows[i].of.category
        IN  /\ stays => Seen[i] # NoRow
            /\ Seen[i] # NoRow =>
                 \E k \in moments : InScope(hist[k].rows[i]) /\ hist[k].rows[i] = Seen[i]
    BY SeenFollows DEF SpendingCountsWhatStays
  <2> QED BY <1>2, <2>1
<1>4. Held(Seen) = S
  BY <1>3 DEF Held
<1>5. [i \in S |-> Seen[i].amount] = [i \in S |-> rows[i].amount]
  BY <1>3
<1>6. Actual = - AmountIn(rows, S)
  BY <1>4, <1>5 DEF Actual, AmountIn
<1>7. AmountIn(rows, S) \in Int
  <2>1. \A i \in S : rows[i] \in Row
    BY <1>1 DEF InScope, IsLive
  <2>2. \A i \in S : rows[i].amount \in Int
    BY <2>1 DEF Row
  <2> HIDE DEF rows
  <2> QED BY <2>2, AmountType
<1>8. call.budget \in Int
  BY <1>1 DEF IsCheck
<1> HIDE DEF S, rows
<1>9. OnPlan = "yes" <=> - AmountIn(rows, S) <= call.budget
  BY <1>6, <1>7, <1>8 DEF OnPlan
<1> QED BY <1>6, <1>9 DEF S, rows

(* What ynab_spending_check calls spent is the spending of the categories  *)
(* asked for: exactly so if the plan did not change under way, and         *)
(* otherwise with every row that was in scope throughout, once, and none   *)
(* that never was.                                                         *)
THEOREM SpendingIsTrue == Spec => []SpendingTrue
<1>1. ReadsInv => SpendingTrue
  BY ExactFollows, SeenFollows DEF SpendingTrue
<1> QED BY ReadsInvariance, <1>1, PTL

(* Up to the 28th a month earlier is the month before.                     *)
LEMMA MonthBefore ==
  ASSUME IsCheckIn(call), call.asOf.day <= 28
  PROVE  PriorMonthDate(call).month = call.asOf.month - 1
<1> DEFINE m == call.asOf.month - 1
           d == call.asOf.day + 0
<1>1. call.asOf.month \in Nat /\ call.asOf.month > 0 /\ call.asOf.day \in 1..31
  BY DEF IsCheckIn, Date
<1>2. m \in Nat /\ d \in 1..28 /\ call.asOf.month + (-1) = m
  BY <1>1
<1>3. MonthLength(m) \in 28..31
  BY <1>2, MonthLengthRange
<1>4. PriorMonthDate(call) = Normal(m, d)
  BY <1>2 DEF PriorMonthDate, AddDate
<1> HIDE DEF m, d
<1>5. ~ (d > MonthLength(m)) /\ ~ (d < 1)
  BY <1>2, <1>3
<1>6. Normal(m, d) = [month |-> m, day |-> d]
  BY <1>5 DEF Normal
<1> QED BY <1>4, <1>6 DEF m

(* Up to the 28th the two months are this month and the one before.        *)
LEMMA MonthsFollow == ReadsInv => MonthsCompared
<1> SUFFICES ASSUME ReadsInv, CheckedIn, call.asOf.day <= 28 PROVE MonthsCompared
  BY DEF MonthsCompared
<1> DEFINE m3 == got[3].month
           m4 == got[4].month
           a3 == got[3].at
           a4 == got[4].at
           this == call.asOf.month
<1>1. /\ call \in Calls /\ call.tool = "checkin" /\ Len(got) = 4 /\ IsCheckIn(call)
      /\ got \in Seq({got[k] : k \in DOMAIN got})
  BY TheRequests DEF ReadsInv, CallTyped, AnswersOK, CheckedIn
<1>2. 3 \in DOMAIN got /\ 4 \in DOMAIN got
  BY <1>1
<1>3. AnswerFits(3) /\ AnswerFits(4)
  BY <1>2 DEF ReadsInv, AnswersOK
<1>4. m3 = hist[a3].months[this] /\ m3 # NoMonth
  BY <1>1, <1>3 DEF AnswerFits
<1>5. m4 = hist[a4].months[this - 1]
  <2>1. got[4] = [at |-> a4, month |-> hist[a4].months[PriorMonthDate(call).month]]
    BY <1>1, <1>3 DEF AnswerFits
  <2>2. m4 = hist[a4].months[PriorMonthDate(call).month]
    BY <2>1
  <2> QED BY <1>1, <2>2, MonthBefore
<1> HIDE DEF m3, m4, a3, a4, this
<1>6. ASSUME NEW c
      PROVE  /\ c \in OverspentIn(m3) <=> Overspent(a3, this, c)
             /\ c \in OverspentIn(m4) <=> Overspent(a4, this - 1, c)
  BY <1>4, <1>5 DEF OverspentIn, Overspent
<1>7. AgeOf(a3, this) = m3.age /\ AgeOf(a4, this - 1) = (IF m4 = NoMonth THEN NoAge ELSE m4.age)
  BY <1>4, <1>5 DEF AgeOf
<1>8. ASSUME NEW c \in DOMAIN m3.balance
      PROVE  /\ c \in NewlyOverspent <=> Overspent(a3, this, c) /\ ~ Overspent(a4, this - 1, c)
             /\ c \in Resolved <=> Overspent(a4, this - 1, c) /\ ~ Overspent(a3, this, c)
  BY <1>6, <1>8 DEF NewlyOverspent, Resolved, m3, m4
<1>9. AgeDelta = IF m4 = NoMonth \/ m3.age = NoAge THEN NoAge
                 ELSE IF m4.age = NoAge THEN NoAge ELSE m3.age - m4.age
  BY DEF AgeDelta, m3, m4
<1>10. LET now == AgeOf(a3, this)
           before == AgeOf(a4, this - 1)
       IN  AgeDelta = IF NoAge \in {now, before} THEN NoAge ELSE now - before
  BY <1>7, <1>9
<1> QED BY <1>8, <1>10 DEF MonthsCompared, m3, a3, a4, this

(* Up to the 28th ynab_weekly_checkin reports as newly overspent, as       *)
(* resolved and as the change of the age of money what this month and the  *)
(* one before it held when each was read.                                  *)
THEOREM MonthsAreCompared == Spec => []MonthsCompared
BY ReadsInvariance, MonthsFollow, PTL

(* The answers a finished check-in has about transactions.                 *)
LEMMA CheckInAnswers ==
  ASSUME ReadsInv, CheckedIn
  PROVE  /\ IsCheckIn(call) /\ call \in Calls
         /\ \A k \in {1, 2} : LET at == got[k].at
                              IN  /\ at \in start..Len(hist) /\ at \in 1..Len(hist) /\ at \in DOMAIN hist
                                  /\ hist[at].rows \in [Ids -> Row \cup {NoRow}]
         /\ hist[1].rows \in [Ids -> Row \cup {NoRow}]
         /\ got[1] \in Answers(Period(got[1].at), got[1].at)
         /\ got[2] \in Answers(Unapproved(hist[got[2].at].rows), got[2].at)
<1>1. /\ call \in Calls /\ call.tool = "checkin" /\ Len(got) = 4 /\ IsCheckIn(call)
      /\ got \in Seq({got[k] : k \in DOMAIN got}) /\ hist \in Seq(Plans)
      /\ Len(hist) \in Nat /\ start \in 1..Len(hist) /\ DOMAIN hist = 1..Len(hist)
  BY TheRequests DEF ReadsInv, CallTyped, AnswersOK, HistoryOK, CheckedIn
<1>2. 1 \in DOMAIN got /\ 2 \in DOMAIN got
  BY <1>1
<1>3. AnswerFits(1) /\ AnswerFits(2)
  BY <1>2 DEF ReadsInv, AnswersOK
<1>4. ASSUME NEW k \in {1, 2}
      PROVE  got[k].at \in start..Len(hist) /\ got[k].at \in 1..Len(hist)
  <2>1. got[k].at \in start..Len(hist)
    BY <1>2 DEF ReadsInv, AnswersOK
  <2> QED BY <1>1, <2>1
<1>5. ASSUME NEW a \in 1..Len(hist) PROVE hist[a].rows \in [Ids -> Row \cup {NoRow}]
  <2>1. hist[a] \in Plans
    BY <1>1
  <2> QED BY <2>1 DEF Plans
<1>6. 1 \in 1..Len(hist)
  BY <1>1
<1> QED BY <1>1, <1>3, <1>4, <1>5, <1>6 DEF AnswerFits

(* The three other ends of the two weeks, in days.                         *)
LEMMA EndsOfWeeks ==
  ASSUME IsCheckIn(call)
  PROVE  /\ call.asOf \in Date
         /\ ThisStart(call) \in Date /\ DayNumber(ThisStart(call)) = DayNumber(call.asOf) - 6
         /\ PriorEnd(call) \in Date /\ DayNumber(PriorEnd(call)) = DayNumber(call.asOf) - 7
         /\ PriorStart(call) \in Date /\ DayNumber(PriorStart(call)) = DayNumber(call.asOf) - 13
<1> DEFINE t == call.asOf
<1>1. t \in Date /\ t.month > 0
  BY DEF IsCheckIn
<1>2. /\ -6 \in -28..28 /\ -7 \in -28..28 /\ -13 \in -28..28 /\ DayNumber(t) \in Int
  BY <1>1, BeforeByDays
<1> DEFINE n == DayNumber(t)
<1>3. n + (-6) = n - 6 /\ n + (-7) = n - 7 /\ n + (-13) = n - 13
  <2> HIDE DEF n
  <2>1. n \in Int
    BY <1>2 DEF n
  <2> QED BY <2>1
<1> HIDE DEF n
<1>4. ASSUME NEW d \in -28..28 PROVE AddDate(t, 0, d) \in Date /\ DayNumber(AddDate(t, 0, d)) = n + d
  BY <1>1, DaysAdded DEF n
<1>5. /\ ThisStart(call) = AddDate(t, 0, -6) /\ PriorEnd(call) = AddDate(t, 0, -7)
      /\ PriorStart(call) = AddDate(t, 0, -13)
  BY DEF ThisStart, PriorEnd, PriorStart
<1> QED BY <1>1, <1>2, <1>3, <1>4, <1>5 DEF n

(* What is dated in a week is less than seven days old.                    *)
LEMMA WeeksByAge ==
  ASSUME IsCheckIn(call), NEW d \in Date
  PROVE  /\ DaysBetween(d, call.asOf) \in 0..6 <=>
              ~ Before(d, ThisStart(call)) /\ ~ Before(call.asOf, d)
         /\ DaysBetween(d, call.asOf) \in 7..13 <=>
              ~ Before(d, PriorStart(call)) /\ ~ Before(PriorEnd(call), d)
         /\ DaysBetween(d, call.asOf) \in 0..13 => ~ Before(d, PriorStart(call))
<1> DEFINE x == DayNumber(d)
           n == DayNumber(call.asOf)
           s == DayNumber(ThisStart(call))
           e == DayNumber(PriorEnd(call))
           b == DayNumber(PriorStart(call))
<1>1. /\ x \in Int /\ n \in Int /\ s = n - 6 /\ e = n - 7 /\ b = n - 13
      /\ Before(d, ThisStart(call)) <=> x < s
      /\ Before(call.asOf, d) <=> n < x
      /\ Before(d, PriorStart(call)) <=> x < b
      /\ Before(PriorEnd(call), d) <=> e < x
  BY EndsOfWeeks, BeforeByDays
<1>2. DaysBetween(d, call.asOf) = n - x
  BY DEF DaysBetween
<1> HIDE DEF x, n, s, e, b
<1> QED BY <1>1, <1>2

(* Under CacheFits the first answer is what the plan holds of both weeks.  *)
LEMMA PeriodIsPlan ==
  ASSUME ReadsInv, CheckedIn, CacheFits, NEW i \in Ids
  PROVE  LET row == hist[got[1].at].rows[i]
             p == Period(got[1].at)[i]
         IN  /\ IsLive(row) /\ ~ Before(row.of.date, PriorStart(call)) => p = row
             /\ p # NoRow /\ ~ Before(p.of.date, PriorStart(call)) => p = row /\ IsLive(row)
<1> DEFINE at == got[1].at
           row == hist[at].rows[i]
           first == hist[1].rows[i]
           from == PriorStart(call)
           D == DeltasTo(hist[at].rows)
           p == Period(at)[i]
           item == Primed.items[i]
<1>1. /\ at \in 1..Len(hist) /\ at \in DOMAIN hist /\ at \in Nat /\ 1 <= at
      /\ row \in Row \cup {NoRow} /\ first \in Row \cup {NoRow}
      /\ IsCheckIn(call)
  BY CheckInAnswers
<1>2. row = first \/ (row # NoRow /\ row.at > 1)
  BY <1>1 DEF ReadsInv, HistoryOK
<1>3. from \in Date
  BY <1>1, EndsOfWeeks
<1>4. ~ Regresses(Primed, at)
  <2>1. Primed.knowledge \in {0, 1}
    BY DEF Primed, EmptyEntry
  <2> HIDE DEF at
  <2> QED BY <1>1, <2>1 DEF Regresses
<1>5. p = IF D[i] = NoRow THEN item ELSE IF D[i].deleted THEN NoRow ELSE D[i]
  BY <1>4 DEF Period, MergedItems, Apply
<1>6. D[i] = IF /\ row # NoRow /\ row.at > Primed.knowledge /\ ~ Before(row.of.date, from)
                /\ row.deleted => Primed.knowledge > 0
             THEN row ELSE NoRow
  BY DEF DeltasTo
<1>7. row # NoRow => row \in Row /\ row.at \in Nat /\ 1 <= row.at /\ row.of.date \in Date
                     /\ row.deleted \in BOOLEAN
  BY <1>1, TaskAssumption DEF Row, IsEntry
<1>8. first # NoRow => first \in Row /\ first.at \in Nat /\ 1 <= first.at /\ first.of.date \in Date
  BY <1>1, TaskAssumption DEF Row, IsEntry
<1> HIDE DEF at, row, first, from, D, p, item
<1>9. CASE primedFrom = NoDate
  <2>1. Primed.knowledge = 0 /\ item = NoRow
    BY <1>9 DEF Primed, EmptyEntry, NoItems, item
  <2>2. p = IF row # NoRow /\ ~ Before(row.of.date, from) /\ ~ row.deleted THEN row ELSE NoRow
    <3>1. D[i] = IF row # NoRow /\ ~ Before(row.of.date, from) /\ ~ row.deleted THEN row ELSE NoRow
      BY <1>6, <1>7, <2>1
    <3> QED BY <1>5, <2>1, <3>1
  <2>3. IsLive(row) <=> row # NoRow /\ ~ row.deleted
    BY DEF IsLive
  <2>4. /\ IsLive(row) /\ ~ Before(row.of.date, from) => p = row
        /\ p # NoRow /\ ~ Before(p.of.date, from) => p = row /\ IsLive(row)
    BY <2>2, <2>3
  <2> QED BY <2>4 DEF at, row, from, p
<1>10. CASE primedFrom # NoDate
  <2>1. Primed.knowledge = 1
        /\ item = IF IsLive(first) /\ ~ Before(first.of.date, primedFrom) THEN first ELSE NoRow
    BY <1>10 DEF Primed, OnOrAfter, item, first
  <2>2. /\ ~ Before(from, primedFrom)
        /\ row # NoRow /\ Before(row.of.date, from) => ~ IsLive(first) \/ Before(first.of.date, from)
    BY <1>10 DEF CacheFits, from, row, first, at
  <2>3. primedFrom \in Date
    BY <1>10, TaskAssumption DEF ReadsInv, CallTyped
  <2>4. ASSUME first # NoRow, ~ Before(first.of.date, from) PROVE ~ Before(first.of.date, primedFrom)
    <3>1. DayNumber(from) >= DayNumber(primedFrom) /\ DayNumber(first.of.date) >= DayNumber(from)
      BY <1>3, <1>8, <2>2, <2>3, <2>4, BeforeByDays
    <3> QED BY <1>3, <1>8, <2>3, <2>4, <3>1, BeforeByDays
  <2>5. ASSUME IsLive(row), ~ Before(row.of.date, from) PROVE p = row
    <3>1. row # NoRow /\ ~ row.deleted
      BY <2>5 DEF IsLive
    <3>2. CASE row.at > 1
      BY <1>5, <1>6, <2>1, <2>5, <3>1, <3>2
    <3>3. CASE ~ (row.at > 1)
      <4>1. row = first /\ D[i] = NoRow
        BY <1>2, <1>6, <2>1, <3>3
      <4> QED BY <1>5, <2>1, <2>4, <2>5, <3>1, <4>1
    <3> QED BY <3>2, <3>3
  <2>6. ASSUME p # NoRow, ~ Before(p.of.date, from) PROVE p = row /\ IsLive(row)
    <3>1. CASE D[i] # NoRow
      BY <1>5, <1>6, <2>6, <3>1 DEF IsLive
    <3>2. CASE D[i] = NoRow
      <4>1. p = first /\ IsLive(first)
        BY <1>5, <2>1, <2>6, <3>2
      <4>2. row = first
        BY <1>2, <1>6, <2>1, <2>2, <2>6, <3>2, <4>1
      <4> QED BY <4>1, <4>2
    <3> QED BY <3>1, <3>2
  <2> QED BY <2>5, <2>6 DEF at, row, from, p
<1> QED BY <1>9, <1>10

(* What is left out of a sum tells how it compares with the whole.         *)
LEMMA PartialSums ==
  ASSUME NEW rows, NEW seen, NEW S \in SUBSET Ids, NEW T \in SUBSET S,
         \A i \in S : rows[i].amount \in Int, \A i \in T : seen[i] = rows[i]
  PROVE  /\ AmountIn(seen, T) \in Int /\ AmountIn(rows, S) \in Int
         /\ (\A i \in S \ T : rows[i].amount >= 0) => AmountIn(seen, T) <= AmountIn(rows, S)
         /\ (\A i \in S \ T : rows[i].amount <= 0) => AmountIn(rows, S) <= AmountIn(seen, T)
<1> DEFINE f == [i \in S |-> rows[i].amount]
           g == [i \in T |-> seen[i].amount]
           h == [i \in S |-> IF i \in T THEN rows[i].amount ELSE 0]
<1>1. AmountIn(rows, S) \in Int /\ IsFiniteSet(S)
  BY AmountType
<1>2. T \in SUBSET Ids /\ \A i \in T : seen[i].amount \in Int
  OBVIOUS
<1>3. AmountIn(seen, T) \in Int
  BY <1>2, AmountType
<1>4. DOMAIN f = S /\ DOMAIN g = T
  OBVIOUS
<1>5. AmountIn(rows, S) = SumFunctionOnSet(f, S) /\ AmountIn(seen, T) = SumFunctionOnSet(g, T)
  BY <1>4 DEF AmountIn, SumFunction
<1>6. /\ \A i \in S : f[i] = rows[i].amount /\ f[i] \in Int /\ h[i] \in Int
      /\ \A i \in T : g[i] \in Int /\ g[i] = rows[i].amount
      /\ \A i \in S : h[i] = IF i \in T THEN g[i] ELSE 0
  BY <1>2
<1> HIDE DEF f, g, h
<1>7. SumFunctionOnSet(h, S) = SumFunctionOnSet(g, T)
  BY <1>1, <1>6, SumOfPart
<1>8. ASSUME \A i \in S \ T : rows[i].amount >= 0
      PROVE  SumFunctionOnSet(h, S) <= SumFunctionOnSet(f, S)
  <2>1. \A i \in S : h[i] <= f[i]
    BY <1>6, <1>8
  <2> QED BY <1>1, <1>6, <2>1, SumMonotone
<1>9. ASSUME \A i \in S \ T : rows[i].amount <= 0
      PROVE  SumFunctionOnSet(f, S) <= SumFunctionOnSet(h, S)
  <2>1. \A i \in S : f[i] <= h[i]
    BY <1>6, <1>9
  <2> QED BY <1>1, <1>6, <2>1, SumMonotone
<1> QED BY <1>1, <1>3, <1>5, <1>7, <1>8, <1>9

(* A week is told by its first and last date or by the ages of its days.   *)
IsWeek(from, to, ages) ==
  \A d \in Date : /\ DaysBetween(d, call.asOf) \in ages <=> ~ Before(d, from) /\ ~ Before(to, d)
                  /\ DaysBetween(d, call.asOf) \in ages => ~ Before(d, PriorStart(call))

(* The live rows of an age in days, and what they add up to by sign.       *)
Aged(rows, ages) ==
  {i \in Ids : /\ IsLive(rows[i]) /\ ~ rows[i].of.transfer
               /\ DaysBetween(rows[i].of.date, call.asOf) \in ages}

Gain(rows, ages) == AmountIn(rows, {i \in Aged(rows, ages) : rows[i].amount > 0})
Loss(rows, ages) == - AmountIn(rows, {i \in Aged(rows, ages) : rows[i].amount < 0})

(* One of the two weeks, from one date to another.                         *)
LEMMA OneWeek ==
  ASSUME ReadsInv, CheckedIn, CacheFits, NEW from, NEW to, NEW ages, IsWeek(from, to, ages)
  PROVE  LET rows == hist[got[1].at].rows
             S == DatedIn(from, to)
         IN  /\ Inflow(S) <= Gain(rows, ages) /\ Outflow(S) <= Loss(rows, ages)
             /\ ~ got[1].truncated => Inflow(S) = Gain(rows, ages) /\ Outflow(S) = Loss(rows, ages)
<1> DEFINE at == got[1].at
           rows == hist[at].rows
           seen == got[1].rows
           aged == Aged(rows, ages)
           S == DatedIn(from, to)
           P == Period(at)
           DateOK(d) == ~ Before(d, from) /\ ~ Before(to, d)
<1>1. /\ rows \in [Ids -> Row \cup {NoRow}]
      /\ \A i \in Ids : seen[i] \in {P[i], NoRow} /\ (~ got[1].truncated => seen[i] = P[i])
  <2>1. got[1] \in Answers(P, at)
    BY CheckInAnswers
  <2> QED BY <2>1, CheckInAnswers, WholeAnswer
<1>2. ASSUME NEW i \in Ids, rows[i] # NoRow
      PROVE  rows[i] \in Row /\ rows[i].of.date \in Date /\ rows[i].amount \in Int
  <2>1. rows[i] \in Row
    BY <1>1, <1>2
  <2> HIDE DEF rows
  <2> QED BY <2>1, TaskAssumption DEF Row, IsEntry
<1>3. ASSUME NEW i \in Ids
      PROVE  /\ IsLive(rows[i]) /\ ~ Before(rows[i].of.date, PriorStart(call)) => P[i] = rows[i]
             /\ P[i] # NoRow /\ ~ Before(P[i].of.date, PriorStart(call)) =>
                  P[i] = rows[i] /\ IsLive(rows[i])
  BY PeriodIsPlan
<1>4. S = {i \in Ids : seen[i] # NoRow /\ ~ seen[i].of.transfer /\ DateOK(seen[i].of.date)}
  BY DEF DatedIn, Spendable, Held
<1>5. seen = got[1].rows
  OBVIOUS
<1> HIDE DEF rows, seen, S, P, at
<1>6. ASSUME NEW i \in S PROVE i \in aged /\ seen[i] = rows[i]
  <2>1. i \in Ids /\ seen[i] # NoRow /\ ~ seen[i].of.transfer /\ DateOK(seen[i].of.date)
    BY <1>4
  <2>2. seen[i] = P[i]
    BY <1>1, <2>1
  <2>3. seen[i].of.date \in Date
    <3>1. ReadsInv => TypeOK
      BY ReadsTypes
    <3>2. i \in Held(got[1].rows) /\ "rows" \in DOMAIN got[1] /\ 1 \in DOMAIN got
      <4>1. got[1] \in Answers(P, at)
        BY CheckInAnswers DEF P, at
      <4>2. "rows" \in DOMAIN got[1]
        BY <4>1 DEF Answers
      <4>3. 1 \in DOMAIN got
        <5>1. Len(got) = 4 /\ got \in Seq({got[k] : k \in DOMAIN got})
          BY TheRequests DEF ReadsInv, CallTyped, AnswersOK, CheckedIn
        <5> QED BY <5>1
      <4> QED BY <1>5, <2>1, <4>2, <4>3 DEF Held
    <3>3. got[1].rows[i] \in Row
      BY <3>2, AnswerRows
    <3>4. seen[i] \in Row
      BY <1>5, <3>3
    <3> QED BY <3>4, TaskAssumption DEF Row, IsEntry
  <2>4. ~ Before(seen[i].of.date, PriorStart(call)) /\ DaysBetween(seen[i].of.date, call.asOf) \in ages
    BY <2>1, <2>3 DEF IsWeek
  <2> QED BY <1>3, <2>1, <2>2, <2>4 DEF Aged
<1>7. ASSUME ~ got[1].truncated, NEW i \in aged PROVE i \in S
  <2>1. IsLive(rows[i]) /\ rows[i] # NoRow /\ i \in Ids /\ ~ rows[i].of.transfer
        /\ DaysBetween(rows[i].of.date, call.asOf) \in ages
    BY DEF IsLive, Aged
  <2>2. DateOK(rows[i].of.date) /\ ~ Before(rows[i].of.date, PriorStart(call))
    BY <1>2, <2>1 DEF IsWeek
  <2>3. seen[i] = rows[i]
    BY <1>1, <1>3, <1>7, <2>1, <2>2
  <2> QED BY <1>4, <2>1, <2>2, <2>3
<1>8. ASSUME NEW i \in aged PROVE rows[i].amount \in Int
  BY <1>2 DEF IsLive, Aged
<1> DEFINE Gs == {i \in S : seen[i].amount > 0}
           Gr == {i \in aged : rows[i].amount > 0}
           Ls == {i \in S : seen[i].amount <= 0}
           Lr == {i \in aged : rows[i].amount < 0}
           L0 == {i \in aged : rows[i].amount <= 0}
<1>9. aged \subseteq Ids
  BY DEF Aged
<1> HIDE DEF aged
<1>10. /\ Gr \in SUBSET Ids /\ Gs \in SUBSET Gr /\ \A i \in Gs : seen[i] = rows[i]
       /\ L0 \in SUBSET Ids /\ Ls \in SUBSET L0 /\ \A i \in Ls : seen[i] = rows[i]
       /\ Lr \in SUBSET L0
       /\ \A i \in Gr : rows[i].amount \in Int /\ rows[i].amount >= 0
       /\ \A i \in L0 : rows[i].amount \in Int /\ rows[i].amount <= 0
       /\ \A i \in L0 \ Lr : rows[i].amount >= 0 /\ rows[i].amount <= 0
       /\ ~ got[1].truncated => Gs = Gr /\ Ls = L0
  BY <1>6, <1>7, <1>8, <1>9
<1> HIDE DEF Gs, Gr, Ls, Lr, L0
<1>11. /\ AmountIn(seen, Gs) \in Int /\ AmountIn(rows, Gr) \in Int
       /\ AmountIn(seen, Gs) <= AmountIn(rows, Gr)
       /\ ~ got[1].truncated => AmountIn(rows, Gr) <= AmountIn(seen, Gs)
  <2>1. \A i \in Gr \ Gs : rows[i].amount >= 0
    BY <1>10
  <2>2. ~ got[1].truncated => \A i \in Gr \ Gs : rows[i].amount <= 0
    BY <1>10
  <2> QED BY <1>10, <2>1, <2>2, PartialSums
<1>12. /\ AmountIn(seen, Ls) \in Int /\ AmountIn(rows, L0) \in Int
       /\ AmountIn(rows, L0) <= AmountIn(seen, Ls)
       /\ ~ got[1].truncated => AmountIn(seen, Ls) <= AmountIn(rows, L0)
  <2>1. \A i \in L0 \ Ls : rows[i].amount <= 0
    BY <1>10
  <2>2. ~ got[1].truncated => \A i \in L0 \ Ls : rows[i].amount >= 0
    BY <1>10
  <2> QED BY <1>10, <2>1, <2>2, PartialSums
<1>13. AmountIn(rows, Lr) \in Int /\ AmountIn(rows, Lr) = AmountIn(rows, L0)
  <2>1. \A i \in Lr : rows[i] = rows[i]
    OBVIOUS
  <2>2. /\ AmountIn(rows, Lr) \in Int /\ AmountIn(rows, L0) \in Int
        /\ AmountIn(rows, Lr) <= AmountIn(rows, L0) /\ AmountIn(rows, L0) <= AmountIn(rows, Lr)
    BY <1>10, <2>1, PartialSums
  <2> QED BY <2>2
<1>14. Inflow(S) = AmountIn(seen, Gs) /\ Outflow(S) = - AmountIn(seen, Ls)
  BY <1>5 DEF Inflow, Outflow, Gs, Ls
<1>15. /\ Inflow(S) <= AmountIn(rows, Gr) /\ Outflow(S) <= - AmountIn(rows, Lr)
       /\ ~ got[1].truncated => Inflow(S) = AmountIn(rows, Gr) /\ Outflow(S) = - AmountIn(rows, Lr)
  BY <1>11, <1>12, <1>13, <1>14
<1> QED BY <1>15 DEF Gain, Loss, Gr, Lr, aged, S, rows, at

(* The two weeks, as they are and as the plan has them.                    *)
LEMMA BothWeeks ==
  ASSUME ReadsInv, CheckedIn, CacheFits
  PROVE  LET whole == TotalsOf(hist[got[1].at].rows)
         IN  /\ \A field \in DOMAIN whole : Totals[field] <= whole[field]
             /\ ~ got[1].truncated => Totals = whole
<1> DEFINE rows == hist[got[1].at].rows
           this == DatedIn(ThisStart(call), call.asOf)
           prior == DatedIn(PriorStart(call), PriorEnd(call))
<1>1. IsCheckIn(call) /\ 0..6 \subseteq 0..13 /\ 7..13 \subseteq 0..13
  BY CheckInAnswers
<1>2. IsWeek(ThisStart(call), call.asOf, 0..6) /\ IsWeek(PriorStart(call), PriorEnd(call), 7..13)
  BY <1>1, WeeksByAge DEF IsWeek
<1>3. /\ Inflow(this) <= Gain(rows, 0..6) /\ Outflow(this) <= Loss(rows, 0..6)
      /\ ~ got[1].truncated => Inflow(this) = Gain(rows, 0..6) /\ Outflow(this) = Loss(rows, 0..6)
  BY <1>2, OneWeek
<1>4. /\ Inflow(prior) <= Gain(rows, 7..13) /\ Outflow(prior) <= Loss(rows, 7..13)
      /\ ~ got[1].truncated => Inflow(prior) = Gain(rows, 7..13) /\ Outflow(prior) = Loss(rows, 7..13)
  BY <1>2, OneWeek
<1>5. Totals = [thisIn |-> Inflow(this), priorIn |-> Inflow(prior),
                thisOut |-> Outflow(this), priorOut |-> Outflow(prior)]
  BY DEF Totals
<1>6. TotalsOf(rows) = [thisIn |-> Gain(rows, 0..6), priorIn |-> Gain(rows, 7..13),
                        thisOut |-> Loss(rows, 0..6), priorOut |-> Loss(rows, 7..13)]
  BY DEF TotalsOf, Gain, Loss, Aged
<1> HIDE DEF this, prior
<1>7. \A field \in DOMAIN TotalsOf(rows) : Totals[field] <= TotalsOf(rows)[field]
  BY <1>3, <1>4, <1>5, <1>6
<1>8. ~ got[1].truncated => Totals = TotalsOf(rows)
  BY <1>3, <1>4, <1>5, <1>6
<1> QED BY <1>7, <1>8

(* The totals of the two weeks follow.                                     *)
LEMMA WeeksFollow == ReadsInv => WeeksOfOneMoment /\ TotalsAreLowerBounds
<1>1. ASSUME ReadsInv, CheckedIn, ~ got[1].truncated, CacheFits
      PROVE  \E k \in start..Len(hist) : Totals = TotalsOf(hist[k].rows)
  <2>1. got[1].at \in start..Len(hist)
    BY <1>1, CheckInAnswers
  <2> QED BY <1>1, <2>1, BothWeeks
<1>2. ASSUME ReadsInv, CheckedIn, CacheFits
      PROVE  LET whole == TotalsOf(hist[got[1].at].rows)
             IN  \A field \in DOMAIN whole : Totals[field] <= whole[field]
  BY <1>2, BothWeeks
<1> QED BY <1>1, <1>2 DEF WeeksOfOneMoment, TotalsAreLowerBounds

(* Each unapproved item is counted by the one row that is no mirror.       *)
LEMMA UnapprovedFollows == ReadsInv => UnapprovedOnce
<1> SUFFICES ASSUME ReadsInv, CheckedIn, ~ got[2].truncated
             PROVE  LET rows == hist[got[2].at].rows
                    IN  UnapprovedCount = Cardinality({n \in Items :
                          IsLive(rows[<<n, "out">>]) /\ ~ rows[<<n, "out">>].of.approved})
  BY DEF UnapprovedOnce
<1> DEFINE at == got[2].at
           rows == hist[at].rows
           seen == got[2].rows
           A == {i \in Held(seen) : seen[i].of.transfer => seen[i].amount < 0}
           B == {n \in Items : IsLive(rows[<<n, "out">>]) /\ ~ rows[<<n, "out">>].of.approved}
           f == [n \in B |-> <<n, "out">>]
<1>1. /\ rows \in [Ids -> Row \cup {NoRow}]
      /\ \A i \in Ids : seen[i] = Unapproved(rows)[i]
      /\ \A i \in Ids : rows[i] # NoRow => SideFits(i, rows[i])
  <2>1. got[2] \in Answers(Unapproved(rows), at) /\ at \in DOMAIN hist
    BY CheckInAnswers
  <2>2. \A i \in Ids : rows[i] # NoRow => SideFits(i, rows[i])
    BY <2>1 DEF ReadsInv, HistoryOK
  <2> QED BY <2>1, <2>2, CheckInAnswers, WholeAnswer
<1>2. UnapprovedCount = Cardinality(A)
  BY DEF UnapprovedCount
<1> HIDE DEF rows, seen
<1>3. ASSUME NEW i \in Ids
      PROVE  i \in A <=> /\ IsLive(rows[i]) /\ ~ rows[i].of.approved
                         /\ rows[i].of.transfer => rows[i].amount < 0
  BY <1>1, <1>3 DEF Held, Unapproved, IsLive
<1>4. ASSUME NEW i \in Ids, IsLive(rows[i])
      PROVE  /\ rows[i].of.transfer \in BOOLEAN
             /\ i[2] = "out" => (rows[i].of.transfer => rows[i].amount < 0)
             /\ i[2] = "in" => rows[i].of.transfer /\ ~ (rows[i].amount < 0)
  <2> DEFINE e == rows[i].of
  <2>1. e \in Entries /\ SideFits(i, rows[i])
    BY <1>1, <1>4 DEF IsLive, Row
  <2>2. /\ e.transfer \in BOOLEAN /\ e.amount \in Int /\ (e.transfer => e.amount > 0)
    BY <2>1, TaskAssumption DEF IsEntry
  <2>3. rows[i].amount = (IF e.transfer /\ i[2] = "out" THEN - e.amount ELSE e.amount)
    BY <2>1 DEF SideFits, RowOf
  <2>4. i[2] = "in" => e.transfer
    BY <2>1 DEF SideFits, Sides
  <2> HIDE DEF e
  <2> QED BY <2>2, <2>3, <2>4 DEF e
<1>5. ASSUME NEW n \in B PROVE <<n, "out">> \in A
  <2>1. <<n, "out">> \in Ids /\ <<n, "out">>[2] = "out"
    BY DEF Ids
  <2> DEFINE i == <<n, "out">>
  <2>2. i \in Ids /\ i[2] = "out" /\ IsLive(rows[i]) /\ ~ rows[i].of.approved
    BY <2>1
  <2> HIDE DEF i, A
  <2> QED BY <1>3, <1>4, <2>2 DEF i
<1>6. ASSUME NEW i \in A PROVE \E n \in B : i = <<n, "out">>
  <2>1. i \in Ids
    BY DEF Held
  <2>2. IsLive(rows[i]) /\ ~ rows[i].of.approved /\ (rows[i].of.transfer => rows[i].amount < 0)
    BY <1>3, <2>1
  <2>3. i[2] # "in"
    BY <1>4, <2>1, <2>2
  <2>4. i = <<i[1], "out">> /\ i[1] \in Items
    BY <2>1, <2>3 DEF Ids
  <2> QED BY <2>2, <2>4
<1> HIDE DEF A, B
<1>7. f \in Bijection(B, A)
  <2>1. f \in [B -> A]
    BY <1>5
  <2>2. \A n, m \in B : f[n] = f[m] => n = m
    OBVIOUS
  <2>3. \A i \in A : \E n \in B : f[n] = i
    BY <1>6
  <2> QED BY <2>1, <2>2, <2>3 DEF Bijection, Injection, Surjection, IsInjective
<1>8. IsFiniteSet(B)
  <2>1. B \in SUBSET Items /\ IsFiniteSet(Items)
    BY TaskAssumption DEF B
  <2> QED BY <2>1, FS_Subset
<1>9. Cardinality(A) = Cardinality(B)
  <2>1. ExistsBijection(B, A)
    BY <1>7 DEF ExistsBijection
  <2> QED BY <1>8, <2>1, FS_Bijection
<1> QED BY <1>2, <1>9 DEF B, rows

(* What ynab_weekly_checkin reports of two weeks and of unapproved         *)
(* transactions is what the plan held when it was read.                    *)
THEOREM CheckInsAreTrue == Spec => []CheckInTrue
<1>1. ReadsInv => CheckInTrue
  BY WeeksFollow, UnapprovedFollows DEF CheckInTrue
<1> QED BY ReadsInvariance, <1>1, PTL
=============================================================================
