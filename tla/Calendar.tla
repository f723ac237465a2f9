------------------------------ MODULE Calendar ------------------------------
(***************************************************************************)
(* The arithmetic of JavaScript dates that the services advance schedules  *)
(* with: setDate and setMonth accept a day that does not exist and carry   *)
(* it into the month after.  A date is a month, counted from the January   *)
(* of FirstYear, and a day.                                                *)
(***************************************************************************)
EXTENDS Integers, FiniteSetsExt

CONSTANT FirstYear      \* the year of month 0

ASSUME CalendarAssumption == FirstYear \in Nat

Date == [m: Nat, d: 1..31]

Leap(year) == year % 4 = 0 /\ (year % 100 # 0 \/ year % 400 = 0)

MonthLength(m) ==
  CASE m % 12 = 1              -> IF Leap(FirstYear + m \div 12) THEN 29 ELSE 28
    [] m % 12 \in {3, 5, 8, 10} -> 30
    [] OTHER                   -> 31

\* A day past the end of its month falls in the next one; no caller goes
\* further than that.
Carried(m, d) == IF d > MonthLength(m) THEN [m |-> m + 1, d |-> d - MonthLength(m)]
                 ELSE [m |-> m, d |-> d]

\* setDate(getDate() + n), n at most 28.
AddDays(date, n) == Carried(date.m, date.d + n)

\* setMonth(getMonth() + n), and setFullYear for n = 12.
AddMonths(date, n) == Carried(date.m + n, date.d)

-----------------------------------------------------------------------------
(* The reference the properties compare with.                              *)

\* Days from the start of month 0.
DayNumber(date) == date.d + MapThenSumSet(MonthLength, 0..(date.m - 1))

Before(a, b) == a.m < b.m \/ (a.m = b.m /\ a.d < b.d)
=============================================================================
