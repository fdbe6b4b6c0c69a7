------------------------------ MODULE TaskViews ------------------------------
(***************************************************************************)
(* The lists of tasks: which tasks a view shows, and in which order.  Both *)
(* are written twice, in Go (application/filter.go), which the tests of    *)
(* the service and of the handlers run on lists in memory, and in the SQL  *)
(* of listTasksQuery, which the program runs.  Times of day, creation      *)
(* times and titles are numbers; the search text is left out.              *)
(***************************************************************************)
EXTENDS TodoSchedule, Sequences

CONSTANTS
    Projects,
    Times,          \* of the day
    Ranks           \* of priorities, titles and creation times

ASSUME NoneIsNoTime == Times \cup Ranks \subseteq Int /\ None \notin Projects

Views == {"", "inbox", "today", "upcoming", "overdue", "scheduled", "flagged"}
Sorts == {"smart", "due", "created", "title", "priority"}
Directions == {"asc", "desc"}

TaskListFilter ==
    [view : Views, status : Statuses \cup {None}, project : Projects \cup {None},
     today : Dates, now : Times]

-----------------------------------------------------------------------------
(* In Go *)

IsDone(t) == t.status = "done"

TaskOverdue(t, f) ==
    /\ t.due # None
    /\ t.due < f.today \/ (t.due = f.today /\ t.time # None /\ t.time < f.now)

TaskMatchesFilter(t, f) ==
    /\ f.view # "" => ~IsDone(t)
    /\ f.view = "inbox" => t.project = None
    /\ f.view = "today" => t.due # None /\ ~(t.due > f.today)
    /\ f.view = "upcoming" => t.due # None /\ t.due > f.today
    /\ f.view = "overdue" => TaskOverdue(t, f)
    /\ f.view = "scheduled" => t.due # None
    /\ f.view = "flagged" => t.flagged
    /\ f.status # None => t.status = f.status
    /\ f.project # None => t.project = f.project

\* A comparison is that of two sequences of numbers, from the left.
Precedes(k, l) ==
    \E i \in DOMAIN k : k[i] < l[i] /\ \A j \in 1 .. i - 1 : k[j] = l[j]

Rank(condition) == IF condition THEN 1 ELSE 0
Negated(k) == [i \in DOMAIN k |-> -k[i]]

\* A value that is missing comes after all others.
Missing(x) == Rank(x = None)
Given(x) == IF x = None THEN 0 ELSE x

\* compareDue, with compareNullableDate and compareNullableString.
DueKey(t) == <<Missing(t.due), Given(t.due), Missing(t.time), Given(t.time)>>

\* compareTasks, without its first line.
SortKey(t, sort) ==
    CASE sort = "smart" -> DueKey(t) \o <<-t.priority, -Rank(t.flagged), -t.created>>
      [] sort = "due" -> DueKey(t)
      [] sort = "created" -> <<t.created>>
      [] sort = "title" -> <<t.title>>
      [] sort = "priority" -> <<t.priority>>

\* sortTasks, up to the ids that decide between equal tasks.
GoKey(t, sort, direction) ==
    IF direction = "desc" /\ sort # "smart" THEN Negated(SortKey(t, sort))
                                            ELSE SortKey(t, sort)
GoPrecedes(t, u, sort, direction) ==
    \/ Rank(IsDone(t)) < Rank(IsDone(u))
    \/ /\ Rank(IsDone(t)) = Rank(IsDone(u))
       /\ Precedes(GoKey(t, sort, direction), GoKey(u, sort, direction))

-----------------------------------------------------------------------------
(* In SQL, where a comparison with NULL is NULL, and a WHERE takes a row only
   when its condition is true *)

Compared(x, y, holds) == IF None \in {x, y} THEN "null" ELSE IF holds THEN "true" ELSE "false"
Less(x, y) == Compared(x, y, x < y)
Equal(x, y) == Compared(x, y, x = y)
Either(p, q) ==
    IF "true" \in {p, q} THEN "true" ELSE IF "null" \in {p, q} THEN "null" ELSE "false"
Both(p, q) ==
    IF "false" \in {p, q} THEN "false" ELSE IF "null" \in {p, q} THEN "null" ELSE "true"
Holds(p) == p = "true"

\* Slip: the day of the reminder is compared, but not its hour.
OverdueByDay(t, f) == Holds(Less(t.due, f.today))
OverdueCondition(t, f) ==
    Holds(Either(Less(t.due, f.today),
                 Both(Equal(t.due, f.today), Less(t.time, f.now))))

ListTasksQuery(t, f) ==
    /\ f.view # "" => t.status # "done"
    /\ f.view = "inbox" => t.project = None
    /\ f.view = "today" => Holds(Either(Less(t.due, f.today), Equal(t.due, f.today)))
    /\ f.view = "upcoming" => Holds(Less(f.today, t.due))
    /\ f.view = "overdue" => OverdueCondition(t, f)
    /\ f.view = "scheduled" => t.due # None
    /\ f.view = "flagged" => t.flagged
    /\ f.status # None => t.status = f.status
    /\ IF f.project # None THEN Holds(Equal(t.project, f.project))
                           ELSE t.project = None \/ ~t.archived

Directed(x, direction) == IF direction = "desc" THEN -x ELSE x
\* NULLS LAST holds in either direction.
DueColumns(t, direction) ==
    <<Missing(t.due), Directed(Given(t.due), direction),
      Missing(t.time), Directed(Given(t.time), direction)>>
OrderByClause(t, sort, direction) ==
    CASE sort = "smart" ->
            DueColumns(t, "asc") \o <<-t.priority, -Rank(t.flagged), -t.created>>
      [] sort = "due" -> DueColumns(t, direction)
      [] sort = "created" -> <<Directed(t.created, direction)>>
      [] sort = "title" -> <<Directed(t.title, direction)>>
      [] sort = "priority" -> <<Directed(t.priority, direction)>>
SqlPrecedes(t, u, sort, direction) ==
    \/ Rank(t.status = "done") < Rank(u.status = "done")
    \/ /\ Rank(t.status = "done") = Rank(u.status = "done")
       /\ Precedes(OrderByClause(t, sort, direction), OrderByClause(u, sort, direction))

-----------------------------------------------------------------------------
(* Properties *)

\* The row of the state, with what TodoSchedule leaves out.
Listed(time, project, archived, flagged, rank) ==
    [status |-> row.status, due |-> row.due, time |-> IF row.timed THEN time ELSE None,
     project |-> project, archived |-> project # None /\ archived, flagged |-> flagged,
     priority |-> rank, created |-> rank, title |-> rank]

\* The rows it is sorted among.
OtherTasks ==
    {t \in [status : {"todo", "done"}, due : OptionalDate, time : Times \cup {None},
            flagged : BOOLEAN, priority : {0}, created : Ranks, title : {0}] :
        t.due = None => t.time = None}

FiltersAgree(t, f) ==
    LET hidden == t.archived /\ f.project = None
    IN  ListTasksQuery(t, f) <=> TaskMatchesFilter(t, f) /\ ~hidden

\* When the days run backwards, the Go puts tasks without a day or an hour
\* first and the SQL puts them last.
Reversed(t, u, sort, direction) ==
    /\ sort = "due" /\ direction = "desc" /\ IsDone(t) = IsDone(u)
    /\ \/ (t.due = None) # (u.due = None)
       \/ t.due = u.due /\ (t.time = None) # (u.time = None)
OrdersAgree(t, u, sort, direction) ==
    (GoPrecedes(t, u, sort, direction) <=> SqlPrecedes(t, u, sort, direction))
      <=> ~Reversed(t, u, sort, direction)

\* Whatever becomes of a task, the list it is in is the one the tests of the
\* service run on, for every filter, day and hour: the SQL shows it unless its
\* project is archived and not asked for, and puts it on the same side of any
\* other task, but for tasks without a date sorted by date backwards
\* (filter.go:87-270, repository.go:302-394 of todo).
ListsAgree ==
    Quiet /\ row \in Task =>
        \A time \in Times, flagged \in BOOLEAN :
            /\ \A project \in Projects \cup {None}, archived \in BOOLEAN, f \in TaskListFilter :
                 FiltersAgree(Listed(time, project, archived, flagged, 0), f)
            /\ \A rank \in Ranks, other \in OtherTasks, sort \in Sorts, direction \in Directions :
                 OrdersAgree(Listed(time, None, FALSE, flagged, rank), other, sort, direction)
=============================================================================
