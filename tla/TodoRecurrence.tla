--------------------------- MODULE TodoRecurrence ---------------------------
(***************************************************************************)
(* TodoSchedule in the calendar of TodoCalendar: a user posts a task that  *)
(* repeats until the last day there is, and then completes it again and    *)
(* again.  The properties compare each step of the due date with what a    *)
(* calendar on the wall says.                                              *)
(***************************************************************************)
EXTENDS TodoSchedule, TodoCalendar

\* The next date is the one of NextRepeatDate; every date lies in one of the
\* years, and there is a last one, as there is of PostgreSQL's type.
ASSUME FollowsTheCalendar ==
    \A r \in Repeats, i \in Intervals, d \in Dates : Following(r, i, d) = NextDate(r, i, d)
ASSUME DatesHaveAYear ==
    \A d \in Dates : \E y \in Years : FirstOfMonth(y, 1) <= d /\ d < FirstOfMonth(y + 1, 1)
ASSUME DatesEnd == \E d \in Dates : \A x \in Dates : x <= d

LastDate == CHOOSE d \in Dates : \A x \in Dates : x <= d

Posted ==
    [status : {"todo"}, due : Dates, timed : {FALSE}, repeat : Repeats,
     interval : Intervals, until : {LastDate}]

\* A PATCH of the status alone.
Completion ==
    [status |-> "done", due |-> Unset, timed |-> Unset, repeat |-> Unset,
     interval |-> Unset, until |-> Unset]
Complete(c) == Quiet /\ BeginUpdate(c, Completion)

Post(c) == row = NoTask /\ \E in \in Posted : BeginCreate(c, in)

WalkNext == \E c \in Clients : Post(c) \/ Complete(c) \/ Continue(c)

\* The user keeps completing the task, and the database does not fail every
\* time.
WalkSpec ==
    /\ Init /\ [][WalkNext]_vars
    /\ \A c \in Clients : WF_vars(Complete(c)) /\ SF_vars(Update(c))

-----------------------------------------------------------------------------
(* Properties *)

Advances == row \in Task /\ row' \in Task /\ row'.due # row.due
MatchingDaysPassed ==
    Cardinality({d \in row.due + 1 .. row'.due : Matches(row.repeat, d)})

\* From one due date to the next lie exactly as many days, weeks, workdays or
\* weekend days as the interval says, and a task of workdays or weekends moves
\* to one, whatever day it was first due on (task.go:321-326, 358-373).
CountsEveryDay ==
    [][Advances =>
         /\ row.repeat = "daily" => row'.due = row.due + row.interval
         /\ row.repeat = "weekly" => row'.due = row.due + 7 * row.interval
         /\ row.repeat \in {"weekdays", "weekends"} =>
              /\ Matches(row.repeat, row'.due)
              /\ MatchingDaysPassed = row.interval]_vars

LengthOfMonth(y, m) == DateOf(y, m + 1, 1) - DateOf(y, m, 1)
MonthNumber(c) == 12 * c.year + c.month - 1     \* a civil date's, counted on
MonthlyStep ==
    LET old == Civil(row.due)
        new == Civil(row'.due)
        month == MonthNumber(old)
                   + (IF row.repeat = "monthly" THEN row.interval ELSE 12 * row.interval)
        length == LengthOfMonth(month \div 12, (month % 12) + 1)
    IN  /\ old.day <= length => new.day = old.day /\ MonthNumber(new) = month
        /\ old.day > length =>
             new.day = old.day - length /\ MonthNumber(new) = month + 1

\* A monthly or yearly task keeps its day in a month that has it.  In a month
\* that is too short it spills over into the first days of the next, which are
\* then its days: January 31 becomes March 3, and the 3rd of every month after
\* (task.go:327-330).
KeepsOrSpillsTheDay ==
    [][(Advances /\ row.repeat \in {"monthly", "yearly"}) => MonthlyStep]_vars

\* Completed again and again, the task reaches the end of its repetition and
\* is closed for good: "after which the task is finally closed"
\* (docs/audit/current-state.md:105).
Closed == row \in Task /\ row.status = "done"
RepetitionEnds == row \in Task ~> []Closed
=============================================================================
