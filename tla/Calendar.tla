------------------------------ MODULE Calendar ------------------------------
(***************************************************************************)
(* Dates as whole numbers, the first of January 2026 being 0, and weekdays *)
(* with Monday 0: Python's date, as conditions/wdfw_seasons.py,            *)
(* pass_closures.py and ferries.py use it, and the floating holidays they  *)
(* compute with it.  Right from 1901 to 2099.                              *)
(***************************************************************************)
EXTENDS Integers, FiniteSetsExt

Jan1(y) == 365 * (y - 2026) + ((y - 2025) \div 4)

MonthLength(y, m) == CASE m = 2 -> IF y % 4 = 0 THEN 29 ELSE 28
                       [] m \in {4, 6, 9, 11} -> 30
                       [] OTHER -> 31

\* the days of the year before the month
DaysBefore(y, m) ==
    <<0, 31, 59, 90, 120, 151, 181, 212, 243, 273, 304, 334>>[m] + (IF m > 2 /\ y % 4 = 0 THEN 1 ELSE 0)

Date(y, m, d) == Jan1(y) + DaysBefore(y, m) + d - 1

\* the days for which this is Python's date
Days == Jan1(1901)..Jan1(2100) - 1

YearOf(day) == CHOOSE y \in (2025 + day \div 366)..(2027 + day \div 365) : Jan1(y) <= day /\ day < Jan1(y + 1)
MonthOf(day) == Max({m \in 1..12 : Date(YearOf(day), m, 1) <= day})

Weekday(day) == (day + 3) % 7
Monday == 0
Thursday == 3
Friday == 4

\* the n-th such weekday of a month
NthWeekday(y, m, weekday, n) ==
    LET first == Date(y, m, 1) IN first + ((weekday - Weekday(first)) % 7) + 7 * (n - 1)

MemorialDay(y) == LET last == Date(y, 5, 31) IN last - Weekday(last)
LaborDay(y) == NthWeekday(y, 9, Monday, 1)
Thanksgiving(y) == NthWeekday(y, 11, Thursday, 4)
=============================================================================
