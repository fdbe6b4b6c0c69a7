---------------------------- MODULE TodoCalendar ----------------------------
(***************************************************************************)
(* The calendar of repeating tasks: NextRepeatDate in internal/todo/domain *)
(* /task.go on top of Go's time.AddDate.  A date is the number of days     *)
(* since January 1 of year 1, a Monday of the Gregorian calendar.          *)
(***************************************************************************)
EXTENDS Integers, FiniteSets

CONSTANT Years      \* the years a date may lie in, without gaps
ASSUME YearsAreNumbers == Years \subseteq Nat \ {0}

IsLeap(y) == y % 4 = 0 /\ (y % 100 # 0 \/ y % 400 = 0)

\* Days from the start of a year to the first of each of its months.
DaysBefore == <<0, 31, 59, 90, 120, 151, 181, 212, 243, 273, 304, 334>>

FirstOfMonth(y, m) ==
    LET past == y - 1
    IN  365 * past + past \div 4 - past \div 100 + past \div 400
          + DaysBefore[m] + (IF m > 2 /\ IsLeap(y) THEN 1 ELSE 0)

\* time.Date: months beyond the twelfth carry into the year, days beyond the
\* last into the month after.
DateOf(y, m, d) == FirstOfMonth(y + (m - 1) \div 12, ((m - 1) % 12) + 1) + d - 1

\* The year, month and day of a date.
Civil(date) ==
    LET y == CHOOSE n \in Years :
               FirstOfMonth(n, 1) <= date /\ date < FirstOfMonth(n + 1, 1)
        m == CHOOSE n \in 1 .. 12 :
               /\ FirstOfMonth(y, n) <= date
               /\ n < 12 => date < FirstOfMonth(y, n + 1)
    IN  [year |-> y, month |-> m, day |-> date - FirstOfMonth(y, m) + 1]

IsWorkday(date) == date % 7 < 5
Matches(frequency, date) ==
    IF frequency = "weekdays" THEN IsWorkday(date) ELSE ~IsWorkday(date)

\* Slip: the interval counts days, not matching days.
NextMatchingInDays(frequency, interval, date) ==
    CHOOSE d \in date + interval .. date + interval + 6 :
        /\ Matches(frequency, d)
        /\ \A x \in date + interval .. d - 1 : ~Matches(frequency, x)
\* nextMatchingDay: left[d] matching days are left to count once candidate d
\* has been looked at; a week has at least two.
NextMatchingDay(frequency, interval, date) ==
    LET left[d \in date .. date + 7 * interval] ==
            IF d = date THEN interval
            ELSE left[d - 1] - (IF Matches(frequency, d) THEN 1 ELSE 0)
    IN  CHOOSE d \in DOMAIN left : Matches(frequency, d) /\ left[d] = 0

\* Slip: a day the month does not have becomes its last.
AddMonthsClamped(date, months) ==
    LET c == Civil(date)
        last == DateOf(c.year, c.month + months + 1, 1) - 1
        same == DateOf(c.year, c.month + months, c.day)
    IN  IF same > last THEN last ELSE same
\* AddDate(0, months, 0)
AddMonths(date, months) ==
    LET c == Civil(date) IN DateOf(c.year, c.month + months, c.day)

\* The switch of NextRepeatDate.
NextDate(frequency, interval, date) ==
    CASE frequency = "daily"   -> date + interval
      [] frequency = "weekly"  -> date + 7 * interval
      [] frequency = "monthly" -> AddMonths(date, interval)
      [] frequency = "yearly"  -> AddMonths(date, 12 * interval)
      [] frequency \in {"weekdays", "weekends"} ->
            NextMatchingDay(frequency, interval, date)
=============================================================================
