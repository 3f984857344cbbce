------------------------------- MODULE Calendar -------------------------------
(***************************************************************************)
(* nextPeriod: the dates at which billing periods end.  A date is a month, *)
(* counted from January of the year 0, and a day of it; the time of day    *)
(* never changes.  setMonth and setFullYear do not stop at the end of a    *)
(* short month: the days that are too many spill into the month after.     *)
(***************************************************************************)
EXTENDS Integers

YearOf(m) == m \div 12
MonthOf(m) == (m % 12) + 1

IsLeap(y) == y % 4 = 0 /\ (y % 100 # 0 \/ y % 400 = 0)

Lengths == <<31, 28, 31, 30, 31, 30, 31, 31, 30, 31, 30, 31>>

DaysIn(m) == IF MonthOf(m) = 2 /\ IsLeap(YearOf(m)) THEN 29 ELSE Lengths[MonthOf(m)]

Date == {x \in [m : Nat, d : 1 .. 31] : x.d <= DaysIn(x.m)}

\* The days before the first of month m: of its year, and of the years before.
BeforeMonth == <<0, 31, 59, 90, 120, 151, 181, 212, 243, 273, 304, 334>>

LeapsBefore(y) == ((y + 3) \div 4) - ((y + 99) \div 100) + ((y + 399) \div 400)

DaysBefore(m) ==
  365 * YearOf(m) + LeapsBefore(YearOf(m)) + BeforeMonth[MonthOf(m)]
    + (IF MonthOf(m) > 2 /\ IsLeap(YearOf(m)) THEN 1 ELSE 0)

\* getTime, in days.
Serial(x) == DaysBefore(x.m) + x.d

\* addDays; addWeeks is seven times as many.
AddDays(x, n) ==
  CHOOSE y \in [m : x.m .. x.m + n, d : 1 .. 31] :
    y.d <= DaysIn(y.m) /\ Serial(y) = Serial(x) + n

\* Faulty Spill: it keeps day 31 and goes on a whole month.
SpillMonth(m, d) == IF d <= DaysIn(m) THEN [m |-> m, d |-> d] ELSE [m |-> m + 1, d |-> d]

\* The date that setMonth makes of day d of month m.
Spill(m, d) ==
  IF d <= DaysIn(m) THEN [m |-> m, d |-> d] ELSE [m |-> m + 1, d |-> d - DaysIn(m)]

AddMonths(x, n) == Spill(x.m + n, x.d)
AddYears(x, n) == Spill(x.m + 12 * n, x.d)

Intervals == {"DAILY", "WEEKLY", "MONTHLY", "YEARLY"}

NextPeriod(from, interval, count) ==
  CASE interval = "DAILY"   -> AddDays(from, count)
    [] interval = "WEEKLY"  -> AddDays(from, 7 * count)
    [] interval = "MONTHLY" -> AddMonths(from, count)
    [] interval = "YEARLY"  -> AddYears(from, count)
=============================================================================
