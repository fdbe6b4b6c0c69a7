---------------------------- MODULE TodoSchedule ----------------------------
(***************************************************************************)
(* The life of a task: its status, its due date and its repetition, as     *)
(* internal/todo/domain/task.go validates and advances them, the service   *)
(* merges them from a request, and the CHECKs of todo_tasks accept them.   *)
(* One task is followed from its INSERT to its DELETE; a request reads it, *)
(* computes the new row from that copy and writes it in a later statement. *)
(*                                                                         *)
(* A date is the number of a day.  The code compares instants: midnights   *)
(* in time.Local for a date of a request, in UTC for one the database      *)
(* returns.  They are the same where the process runs in UTC, as the       *)
(* Docker image does; elsewhere the two are hours apart.                   *)
(***************************************************************************)
EXTENDS Integers

CONSTANTS
    Dates,      \* calendar days, in order
    Repeats,    \* the frequencies that repeat
    Intervals,
    Clients,    \* connections, each with at most one request in flight
    None,       \* SQL NULL, nil
    Unset,      \* a field the body of a PATCH leaves out
    NoTask, Deleted,    \* in the place of a row: none yet, none any more
    MaxClock,   \* bound: the clock stops here
    Following(_, _, _)  \* the date after one, by frequency and interval

ASSUME DatesAreNumbers == Dates \subseteq Int /\ None \notin Int
ASSUME IntervalsArePositive == Intervals \subseteq Nat \ {0} /\ 1 \in Intervals
ASSUME RepeatsRepeat == "none" \notin Repeats
ASSUME ClockRuns == MaxClock \in Nat
ASSUME TimeMovesOn ==
    \A r \in Repeats, i \in Intervals, d \in Dates :
        Following(r, i, d) \in Int /\ Following(r, i, d) > d

VARIABLES
    clock,      \* what time.Now() says, in ticks
    row,        \* the row of the task
    pc,         \* pc[c]: the statement client c's request executes next
    pending     \* pending[c]: the row it will write

vars == <<clock, row, pc, pending>>

-----------------------------------------------------------------------------
(* Values *)

Statuses == {"todo", "in_progress", "done"}
Frequencies == Repeats \cup {"none"}
OptionalDate == Dates \cup {None}

Task ==
    [status : Statuses, due : OptionalDate, timed : BOOLEAN,
     repeat : Frequencies, interval : Intervals, until : OptionalDate,
     completed : (0 .. MaxClock) \cup {None}]

ASSUME MarkersAreNotRows == NoTask \notin Task /\ Deleted \notin Task

\* What POST /tasks and PATCH /tasks/{id} send; timed says that there is a
\* due time.  An interval that is left out of a POST is 1.
NewTaskInput ==
    [status : Statuses, due : OptionalDate, timed : BOOLEAN,
     repeat : Frequencies, interval : Intervals, until : OptionalDate]
UpdateTaskInput ==
    [status : Statuses \cup {Unset}, due : OptionalDate \cup {Unset},
     timed : BOOLEAN \cup {Unset}, repeat : Frequencies \cup {Unset},
     interval : Intervals \cup {Unset}, until : OptionalDate \cup {Unset}]

-----------------------------------------------------------------------------
(* The domain *)

Active(t) == t.repeat # "none"

\* Slip: the end of the repetition is not compared with the due date.
ValidWithoutEnd(t) ==
    /\ t.timed => t.due # None
    /\ Active(t) => t.due # None
ValidateSchedule(t) ==
    /\ t.timed => t.due # None
    /\ Active(t) =>
         /\ t.due # None
         /\ t.until # None => t.until >= t.due

\* Slip: a second completion overwrites the time of the first.
ApplyStatusAnew(t, status, now) ==
    [t EXCEPT !.status = status, !.completed = IF status = "done" THEN now ELSE None]
ApplyStatus(t, status, now) ==
    [t EXCEPT !.status = status,
              !.completed = IF status # "done" THEN None
                            ELSE IF @ = None THEN now ELSE @]

\* Slip: the repetition ends one date early.
NextRepeatDateBeforeEnd(t) ==
    LET next == Following(t.repeat, t.interval, t.due)
    IN  IF ~Active(t) \/ t.due = None \/ (t.until # None /\ next >= t.until)
          THEN None ELSE next
\* Slip: the end of the repetition is not looked at.
NextRepeatDateForEver(t) ==
    IF ~Active(t) \/ t.due = None THEN None
    ELSE Following(t.repeat, t.interval, t.due)
NextRepeatDate(t) ==
    LET next == Following(t.repeat, t.interval, t.due)
    IN  IF ~Active(t) \/ t.due = None \/ (t.until # None /\ next > t.until)
          THEN None ELSE next

\* Slip: only a task that does not repeat is ever closed.
CloseOrAdvanceRepeat(t, now) ==
    IF ~Active(t) THEN ApplyStatus(t, "done", now)
    ELSE IF NextRepeatDate(t) = None THEN t
    ELSE [t EXCEPT !.due = NextRepeatDate(t), !.status = "todo", !.completed = None]
CompleteOrAdvanceRepeat(t, now) ==
    IF NextRepeatDate(t) = None
      THEN ApplyStatus(t, "done", now)
      ELSE [t EXCEPT !.due = NextRepeatDate(t), !.status = "todo", !.completed = None]

\* A frequency "none" forgets the interval and the end.
SetRepeat(t, frequency, interval, until) ==
    [t EXCEPT !.repeat = frequency,
              !.interval = IF frequency = "none" THEN 1 ELSE interval,
              !.until = IF frequency = "none" THEN None ELSE until]

\* NewTask before ValidateSchedule and after it.
Draft(in) ==
    [status |-> "todo", due |-> in.due, timed |-> in.timed, repeat |-> in.repeat,
     interval |-> in.interval, until |-> in.until, completed |-> None]
NewTask(in, now) == ApplyStatus(Draft(in), in.status, now)

-----------------------------------------------------------------------------
(* The service *)

Or(field, column) == IF field = Unset THEN column ELSE field
NamesRepeat(in) == in.repeat # Unset \/ in.interval # Unset \/ in.until # Unset

\* Slip: the fields of the repetition are assigned one by one.
RescheduledRaw(t, in) ==
    [t EXCEPT !.due = Or(in.due, @), !.timed = Or(in.timed, @),
              !.repeat = Or(in.repeat, @), !.interval = Or(in.interval, @),
              !.until = Or(in.until, @)]
\* UpdateTask up to ValidateSchedule and after it.
Rescheduled(t, in) ==
    LET moved == [t EXCEPT !.due = Or(in.due, @), !.timed = Or(in.timed, @)]
    IN  IF NamesRepeat(in)
          THEN SetRepeat(moved, Or(in.repeat, t.repeat), Or(in.interval, t.interval),
                         Or(in.until, t.until))
          ELSE moved
UpdatedTask(t, in, now) ==
    LET s == Rescheduled(t, in)
    IN  IF in.status = Unset THEN s
        ELSE IF in.status = "done" THEN CompleteOrAdvanceRepeat(s, now)
        ELSE ApplyStatus(s, in.status, now)

\* The CHECKs of todo_tasks.
ChecksHold(t) ==
    /\ t.status = "done" <=> t.completed # None
    /\ t.timed => t.due # None
    /\ t.repeat # "none" => t.due # None
    /\ t.repeat = "none" => t.until = None
    /\ (t.until # None /\ t.due # None) => t.until >= t.due

-----------------------------------------------------------------------------
(* Requests *)

Init ==
    /\ clock = 0
    /\ row = NoTask
    /\ pc = [c \in Clients |-> "idle"]
    /\ pending = [c \in Clients |-> NoTask]

\* Slip: a connection keeps the row of its last request.
AnswerKeepingRow(c) == pc' = [pc EXCEPT ![c] = "idle"] /\ UNCHANGED pending
\* The handler answers and forgets the request.
Answer(c) ==
    /\ pc' = [pc EXCEPT ![c] = "idle"]
    /\ pending' = [pending EXCEPT ![c] = NoTask]

\* CreateTask up to the INSERT; a POST for another task is not followed.
BeginCreate(c, in) ==
    /\ pc[c] = "idle"
    /\ row = NoTask
    /\ \A d \in Clients : pc[d] # "insert"
    /\ ValidateSchedule(Draft(in))
    /\ pc' = [pc EXCEPT ![c] = "insert"]
    /\ pending' = [pending EXCEPT ![c] = NewTask(in, clock)]
    /\ UNCHANGED <<clock, row>>

\* GetTask and the changes to the copy; the next date lies in Dates.
BeginUpdate(c, in) ==
    /\ pc[c] = "idle"
    /\ row \in Task
    /\ ValidateSchedule(Rescheduled(row, in))
    /\ UpdatedTask(row, in, clock).due \in OptionalDate
    /\ pc' = [pc EXCEPT ![c] = "update"]
    /\ pending' = [pending EXCEPT ![c] = UpdatedTask(row, in, clock)]
    /\ UNCHANGED <<clock, row>>

Insert(c) ==
    /\ pc[c] = "insert"
    /\ ChecksHold(pending[c])
    /\ row' = pending[c]
    /\ Answer(c)
    /\ UNCHANGED clock

\* UPDATE of every column of the row.
Update(c) ==
    /\ pc[c] = "update"
    /\ row \in Task
    /\ ChecksHold(pending[c])
    /\ row' = pending[c]
    /\ Answer(c)
    /\ UNCHANGED clock

\* The statement fails: a CHECK does not hold, the row went, the client went
\* away or the database did.
Fail(c) ==
    /\ pc[c] # "idle"
    /\ Answer(c)
    /\ UNCHANGED <<clock, row>>

DeleteTask ==
    /\ row \in Task
    /\ row' = Deleted
    /\ UNCHANGED <<clock, pc, pending>>

Tick ==
    /\ clock < MaxClock
    /\ clock' = clock + 1
    /\ UNCHANGED <<row, pc, pending>>

-----------------------------------------------------------------------------
(* Specifications *)

Begin(c) ==
    \/ \E in \in NewTaskInput : BeginCreate(c, in)
    \/ \E in \in UpdateTaskInput : BeginUpdate(c, in)
Continue(c) == Insert(c) \/ Update(c) \/ Fail(c)

Next == Tick \/ DeleteTask \/ \E c \in Clients : Begin(c) \/ Continue(c)
Spec == Init /\ [][Next]_vars

\* The same program used by one client that waits for every answer.
Quiet == \A c \in Clients : pc[c] = "idle"
SerialNext ==
    \/ Tick
    \/ Quiet /\ (DeleteTask \/ \E c \in Clients : Begin(c))
    \/ \E c \in Clients : Continue(c)
SerialSpec == Init /\ [][SerialNext]_vars

-----------------------------------------------------------------------------
(* Properties *)

TypeOK ==
    /\ clock \in 0 .. MaxClock
    /\ row \in Task \cup {NoTask, Deleted}
    /\ pc \in [Clients -> {"idle", "insert", "update"}]
    /\ pending \in [Clients -> Task \cup {NoTask}]
    /\ \A c \in Clients : pending[c] = NoTask <=> pc[c] = "idle"

\* What the service lets through satisfies the four CHECKs of the schedule:
\* whatever a PATCH changes of whatever row, the Go validation is no weaker than
\* they are, so that no PATCH ends in a 500 for one of them (task.go:375-397,
\* migrations 000002 and 000004).  An interval beyond the 32 bits of its column
\* is not among the Intervals.
UpdatesAreAccepted ==
    \A c \in Clients : pc[c] = "update" => ChecksHold(pending[c])

\* The same for POST.
CreatesAreAccepted ==
    \A c \in Clients : pc[c] = "insert" => ChecksHold(pending[c])

\* A repeating task that is open is closed by a PATCH only when its next date
\* lies beyond the end of its repetition (task.go:292-307).
ClosesOnlyAtTheEnd ==
    [][(/\ row \in Task /\ row.status # "done"
        /\ row' \in Task /\ row'.status = "done" /\ Active(row')) =>
            /\ row'.until # None
            /\ Following(row'.repeat, row'.interval, row'.due) > row'.until]_vars

\* A task that stays done keeps the time it was completed at, however often
\* it is completed or edited again (task.go:274-290).
CompletionTimeIsKept ==
    [][(/\ row \in Task /\ row.status = "done"
        /\ row' \in Task /\ row'.status = "done") =>
            row'.completed = row.completed]_vars

=============================================================================
