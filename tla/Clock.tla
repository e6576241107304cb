-------------------------------- MODULE Clock --------------------------------
(***************************************************************************)
(* The calendar of the Device object: the date current_utc makes of the    *)
(* days since 1 January 1970, a Thursday.  Weekdays count from Monday = 1. *)
(***************************************************************************)
EXTENDS Integers, Sequences

\* A fault: every fourth year, centuries included.
IsLeap_Julian(y) == y % 4 = 0

IsLeap(y) == (y % 4 = 0 /\ y % 100 # 0) \/ y % 400 = 0

YearLength(y) == IF IsLeap(y) THEN 366 ELSE 365

MonthLengths(y) == <<31, IF IsLeap(y) THEN 29 ELSE 28, 31, 30, 31, 30, 31, 31, 30, 31, 30, 31>>

\* Whole years are taken off while there are any; left[n] days are left after
\* n of them.
YearOf(days) ==
  LET left[n \in Nat] == IF n = 0 THEN days ELSE left[n - 1] - YearLength(1969 + n)
      n == CHOOSE k \in 0..days : left[k] \in 0..YearLength(1970 + k) - 1
  IN [year |-> 1970 + n, days |-> left[n]]

\* Then whole months; left[m] days are left when the loop comes to month m.
MonthOf(days, lengths) ==
  LET left[m \in 1..13] == IF m = 1 THEN days ELSE left[m - 1] - lengths[m - 1]
      stops == {m \in 1..12 : left[m] \in 0..lengths[m] - 1}
      month == CHOOSE m \in stops : TRUE
  IN IF stops = {} THEN [month |-> 1, day |-> left[13] + 1]
     ELSE [month |-> month, day |-> left[month] + 1]

\* A date has 16 bits for the year.
CurrentUtc(days) ==
  LET y == YearOf(days)
      m == MonthOf(y.days, MonthLengths(y.year))
  IN [year |-> y.year % 65536, month |-> m.month, day |-> m.day, weekday |-> ((days + 3) % 7) + 1]

-----------------------------------------------------------------------------
(* The calendar's definition, in closed form: how many days lie between    *)
(* 1 January 1970 and a date.                                              *)

\* The leap days of the Gregorian calendar before 1 January of year y.
LeapDays(y) == (y - 1) \div 4 - (y - 1) \div 100 + (y - 1) \div 400

Gregorian(y) == y % 4 = 0 /\ (y % 100 = 0 => y % 400 = 0)

\* The days before each month of a common year.
DaysBefore == <<0, 31, 59, 90, 120, 151, 181, 212, 243, 273, 304, 334, 365>>

DayNumber(d) ==
  365 * (d.year - 1970) + LeapDays(d.year) - LeapDays(1970)
    + DaysBefore[d.month] + (IF Gregorian(d.year) /\ d.month > 2 THEN 1 ELSE 0) + d.day - 1

\* 1 January 2001 was a Monday.
WeekdayOf(n) == ((n - DayNumber([year |-> 2001, month |-> 1, day |-> 1])) % 7) + 1

\* The last day whose date fits.
LastDay == DayNumber([year |-> 65536, month |-> 1, day |-> 1]) - 1

IsDate(d) ==
  /\ d.month \in 1..12
  /\ d.day \in 1..DaysBefore[d.month + 1] - DaysBefore[d.month]
                + (IF Gregorian(d.year) /\ d.month = 2 THEN 1 ELSE 0)
=============================================================================
