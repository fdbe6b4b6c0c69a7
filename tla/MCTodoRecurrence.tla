-------------------------- MODULE MCTodoRecurrence --------------------------
(* Every day of a leap year and of the years around it, for TLC. *)
EXTENDS TodoRecurrence

MCYears == 2027 .. 2029
MCDates == DateOf(2027, 1, 1) .. DateOf(2029, 12, 31)

\* NextDate as a table, which TLC computes once.
NextDates == [r \in Repeats, i \in Intervals, d \in Dates |-> NextDate(r, i, d)]
MCFollowing(repeat, interval, date) == NextDates[repeat, interval, date]
=============================================================================
