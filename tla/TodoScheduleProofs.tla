------------------------- MODULE TodoScheduleProofs -------------------------
(***************************************************************************)
(* Proofs about TodoSchedule, for any calendar, any number of clients and  *)
(* any request: what the service computes is a row the table takes, and    *)
(* requests that do not overlap close a task only at its end.  After them, *)
(* that the lists of TaskViews are the same in Go and in SQL; and at last  *)
(* the calendar of TodoRecurrence, which nothing before it speaks of.      *)
(***************************************************************************)
EXTENDS TaskViews, TodoRecurrence, Sums, TLAPS

-----------------------------------------------------------------------------
(* The operators *)

\* The fields a PATCH names are fields of a task.
LEMMA RescheduledType ==
    ASSUME NEW t \in Task, NEW in \in UpdateTaskInput
    PROVE  Rescheduled(t, in) \in Task
<1> DEFINE moved == [t EXCEPT !.due = Or(in.due, @), !.timed = Or(in.timed, @)]
           frequency == Or(in.repeat, t.repeat)
           interval == Or(in.interval, t.interval)
           until == Or(in.until, t.until)
<1>1. Or(in.due, t.due) \in OptionalDate /\ Or(in.timed, t.timed) \in BOOLEAN
  BY DEF Or, Task, UpdateTaskInput
<1>2. frequency \in Frequencies /\ interval \in Intervals /\ until \in OptionalDate
  BY DEF Or, Task, UpdateTaskInput
<1>3. moved \in Task
  BY <1>1 DEF Task
<1>4. Rescheduled(t, in) \in {moved, SetRepeat(moved, frequency, interval, until)}
  BY DEF Rescheduled
<1> HIDE DEF moved, frequency, interval, until
<1>5. SetRepeat(moved, frequency, interval, until) \in Task
  BY <1>2, <1>3, IntervalsArePositive DEF SetRepeat, Task, OptionalDate
<1> QED BY <1>3, <1>4, <1>5

\* A PATCH turns a task into a task, as long as its due date is a date.
LEMMA UpdatedTaskType ==
    ASSUME NEW t \in Task, NEW in \in UpdateTaskInput, NEW now \in 0 .. MaxClock,
           UpdatedTask(t, in, now).due \in OptionalDate
    PROVE  UpdatedTask(t, in, now) \in Task
<1> DEFINE s == Rescheduled(t, in)
<1>1. s \in Task
  BY RescheduledType
<1>2. \A status \in Statuses : ApplyStatus(s, status, now) \in Task
  BY <1>1 DEF ApplyStatus, Task
<1>3. CASE in.status = Unset
  BY <1>1, <1>3 DEF UpdatedTask
<1>4. CASE in.status # Unset /\ in.status = "done"
  <2>1. UpdatedTask(t, in, now) = CompleteOrAdvanceRepeat(s, now)
    BY <1>4 DEF UpdatedTask
  <2> HIDE DEF s
  <2>2. CASE NextRepeatDate(s) = None
    BY <1>2, <2>1, <2>2 DEF CompleteOrAdvanceRepeat, Statuses
  <2>3. CASE NextRepeatDate(s) # None
    BY <1>1, <2>1, <2>3 DEF CompleteOrAdvanceRepeat, Task, Statuses
  <2> QED BY <2>2, <2>3
<1>5. CASE in.status # Unset /\ in.status # "done"
  BY <1>2, <1>5 DEF UpdatedTask, UpdateTaskInput
<1> QED BY <1>3, <1>4, <1>5

\* A POST makes a task.
LEMMA NewTaskType ==
    ASSUME NEW in \in NewTaskInput, NEW now \in 0 .. MaxClock
    PROVE  NewTask(in, now) \in Task
<1>1. Draft(in) \in Task
  BY DEF Draft, NewTaskInput, Task, Statuses
<1> QED BY <1>1 DEF NewTask, ApplyStatus, NewTaskInput, Task

\* What ValidateSchedule lets through is a row the table takes, if it comes
\* from one: SetRepeat clears the end of a task that does not repeat, and the
\* next date never passes the end.
LEMMA UpdatedTaskIsAccepted ==
    ASSUME NEW t \in Task, NEW in \in UpdateTaskInput, NEW now \in 0 .. MaxClock,
           ChecksHold(t), ValidateSchedule(Rescheduled(t, in))
    PROVE  ChecksHold(UpdatedTask(t, in, now))
<1> DEFINE s == Rescheduled(t, in)
<1>1. s \in Task
  BY RescheduledType
<1>2. s.repeat = "none" => s.until = None
  BY DEF Rescheduled, SetRepeat, NamesRepeat, Or, ChecksHold, Task
<1>3. s.status = t.status /\ s.completed = t.completed
  BY DEF Rescheduled, SetRepeat, Task
<1>4. ChecksHold(s)
  BY <1>1, <1>2, <1>3 DEF ChecksHold, ValidateSchedule, Active
<1>5. now # None
  BY DatesAreNumbers, ClockRuns
<1> HIDE DEF s
<1>6. \A status \in Statuses : ChecksHold(ApplyStatus(s, status, now))
  BY <1>1, <1>4, <1>5 DEF ApplyStatus, ChecksHold, Task
<1>7. CASE in.status = Unset
  BY <1>4, <1>7 DEF UpdatedTask, s
<1>8. CASE in.status # Unset /\ in.status = "done"
  <2>1. UpdatedTask(t, in, now) = CompleteOrAdvanceRepeat(s, now)
    BY <1>8 DEF UpdatedTask, s
  <2>2. CASE NextRepeatDate(s) = None
    BY <1>6, <2>1, <2>2 DEF CompleteOrAdvanceRepeat, Statuses
  <2>3. CASE NextRepeatDate(s) # None
    <3> DEFINE next == Following(s.repeat, s.interval, s.due)
    <3>1. Active(s) /\ s.due # None /\ (s.until # None => ~(next > s.until))
      BY <2>3 DEF NextRepeatDate
    <3>2. NextRepeatDate(s) = next
      BY <3>1 DEF NextRepeatDate
    <3>3. s.repeat \in Repeats /\ s.interval \in Intervals /\ s.due \in Dates
      BY <1>1, <3>1 DEF Active, Task, Frequencies, OptionalDate
    <3>4. next \in Int
      BY <3>3, TimeMovesOn
    <3> HIDE DEF next
    <3>a. s.until # None => s.until \in Int
      BY <1>1, DatesAreNumbers DEF Task, OptionalDate
    <3>b. s.until # None => ~(next > s.until)
      BY <3>1 DEF next
    <3>5. s.until # None => s.until >= next
      BY <3>4, <3>a, <3>b
    <3>6. UpdatedTask(t, in, now) =
            [s EXCEPT !.due = next, !.status = "todo", !.completed = None]
      BY <2>1, <2>3, <3>2 DEF CompleteOrAdvanceRepeat
    <3> DEFINE u == UpdatedTask(t, in, now)
    <3>7. next # None
      BY <3>4, DatesAreNumbers
    <3>8. /\ u.status = "todo" /\ u.completed = None /\ u.due = next
          /\ u.timed = s.timed /\ u.repeat = s.repeat /\ u.until = s.until
      BY <1>1, <3>6 DEF Task
    <3> HIDE DEF u
    <3>9. ChecksHold(u)
      BY <1>4, <3>5, <3>7, <3>8 DEF ChecksHold
    <3> QED BY <3>9 DEF u
  <2> QED BY <2>2, <2>3
<1>9. CASE in.status # Unset /\ in.status # "done"
  BY <1>6, <1>9 DEF UpdatedTask, UpdateTaskInput, s
<1> QED BY <1>7, <1>8, <1>9


-----------------------------------------------------------------------------
(* The specification *)

LEMMA TypeInit == Init => TypeOK
BY ClockRuns DEF Init, TypeOK

LEMMA TypeStep == TypeOK /\ [Next]_vars => TypeOK'
<1> SUFFICES ASSUME TypeOK, [Next]_vars PROVE TypeOK'
  OBVIOUS
<1> USE DEF TypeOK
<1>1. CASE Tick
  BY <1>1, ClockRuns DEF Tick
<1>2. CASE DeleteTask
  BY <1>2 DEF DeleteTask
<1>3. ASSUME NEW c \in Clients, NEW in \in NewTaskInput, BeginCreate(c, in)
      PROVE  TypeOK'
  <2>1. NewTask(in, clock) \in Task
    BY NewTaskType
  <2> QED BY <1>3, <2>1, MarkersAreNotRows DEF BeginCreate
<1>4. ASSUME NEW c \in Clients, NEW in \in UpdateTaskInput, BeginUpdate(c, in)
      PROVE  TypeOK'
  <2>1. UpdatedTask(row, in, clock) \in Task
    BY <1>4, UpdatedTaskType DEF BeginUpdate
  <2> QED BY <1>4, <2>1, MarkersAreNotRows DEF BeginUpdate
<1>5. ASSUME NEW c \in Clients, Insert(c) \/ Update(c) PROVE TypeOK'
  BY <1>5 DEF Insert, Update, Answer
<1>6. ASSUME NEW c \in Clients, Fail(c) PROVE TypeOK'
  BY <1>6 DEF Fail, Answer
<1>7. CASE UNCHANGED vars
  BY <1>7 DEF vars
<1> QED
  BY <1>1, <1>2, <1>3, <1>4, <1>5, <1>6, <1>7 DEF Next, Begin, Continue

\* The clock, the row and the requests keep their types (TypeOK), whatever
\* dates, frequencies and clients there are.
THEOREM TypeCorrect == Spec => []TypeOK
<1>1. Init => TypeOK
  BY TypeInit
<1>2. TypeOK /\ [Next]_vars => TypeOK'
  BY TypeStep
<1> QED BY <1>1, <1>2, PTL DEF Spec

\* The stored row satisfies the CHECKs, and so does every row a PATCH makes
\* of one: by UpdatedTaskIsAccepted, whichever row it read.
StoredIsSound == row \in Task => ChecksHold(row)
AcceptedInv == TypeOK /\ StoredIsSound /\ UpdatesAreAccepted

LEMMA AcceptedStep == AcceptedInv /\ [Next]_vars => AcceptedInv'
<1> SUFFICES ASSUME AcceptedInv, [Next]_vars PROVE AcceptedInv'
  OBVIOUS
<1> USE DEF AcceptedInv, StoredIsSound, UpdatesAreAccepted
<1>0. TypeOK'
  BY TypeStep
<1>1. CASE Tick
  BY <1>0, <1>1 DEF Tick
<1>2. CASE DeleteTask
  BY <1>0, <1>2, MarkersAreNotRows DEF DeleteTask
<1>3. ASSUME NEW c \in Clients, NEW in \in NewTaskInput, BeginCreate(c, in)
      PROVE  AcceptedInv'
  BY <1>0, <1>3 DEF BeginCreate, TypeOK
<1>4. ASSUME NEW c \in Clients, NEW in \in UpdateTaskInput, BeginUpdate(c, in)
      PROVE  AcceptedInv'
  <2>1. ChecksHold(UpdatedTask(row, in, clock))
    BY <1>4, UpdatedTaskIsAccepted DEF BeginUpdate, TypeOK
  <2> QED BY <1>0, <1>4, <2>1 DEF BeginUpdate, TypeOK
<1>5. ASSUME NEW c \in Clients, Insert(c) \/ Update(c) PROVE AcceptedInv'
  BY <1>0, <1>5 DEF Insert, Update, Answer, TypeOK
<1>6. ASSUME NEW c \in Clients, Fail(c) PROVE AcceptedInv'
  BY <1>0, <1>6 DEF Fail, Answer, TypeOK
<1>7. CASE UNCHANGED vars
  BY <1>0, <1>7 DEF vars
<1> QED
  BY <1>1, <1>2, <1>3, <1>4, <1>5, <1>6, <1>7 DEF Next, Begin, Continue

\* No PATCH of any task, with any combination of fields, is refused by the
\* CHECKs of the table after the service has let it through.
THEOREM PatchesAreAccepted == Spec => []UpdatesAreAccepted
<1>1. Init => AcceptedInv
  BY TypeInit, MarkersAreNotRows
     DEF Init, AcceptedInv, StoredIsSound, UpdatesAreAccepted
<1>2. AcceptedInv /\ [Next]_vars => AcceptedInv'
  BY AcceptedStep
<1>3. AcceptedInv => UpdatesAreAccepted
  BY DEF AcceptedInv
<1> QED BY <1>1, <1>2, <1>3, PTL DEF Spec

\* What the table can refuse of a POST: the end of a repetition that is none.
RefusedForItsEnd(t) == t.repeat = "none" /\ t.until # None
OnlyEndsRefused ==
    \A c \in Clients : pc[c] = "insert" => ChecksHold(pending[c]) \/ RefusedForItsEnd(pending[c])

LEMMA NewTaskIsAccepted ==
    ASSUME NEW in \in NewTaskInput, NEW now \in 0 .. MaxClock, ValidateSchedule(Draft(in))
    PROVE  ChecksHold(NewTask(in, now)) \/ RefusedForItsEnd(NewTask(in, now))
<1>. DEFINE t == NewTask(in, now)
<1>1. now # None
  BY DatesAreNumbers, ClockRuns
<1>2. /\ t.due = in.due /\ t.timed = in.timed /\ t.repeat = in.repeat /\ t.until = in.until
      /\ t.status = "done" <=> t.completed # None
  BY <1>1 DEF NewTask, Draft, ApplyStatus, NewTaskInput, Statuses
<1>3. /\ in.timed => in.due # None
      /\ in.repeat # "none" => in.due # None /\ (in.until # None => in.until >= in.due)
  BY DEF ValidateSchedule, Draft, Active
<1>. HIDE DEF t
<1>. QED
  BY <1>2, <1>3 DEF ChecksHold, RefusedForItsEnd, t

\* Of what POST lets through, the table refuses nothing but a task that has an
\* end of its repetition and no repetition (task.go:107-172, migration 000004):
\* the todo_create run shows that it does refuse this.
THEOREM PostsAreRefusedForTheirEnd == Spec => []OnlyEndsRefused
<1>1. Init => TypeOK /\ OnlyEndsRefused
  BY TypeInit DEF Init, OnlyEndsRefused
<1>2. TypeOK /\ OnlyEndsRefused /\ [Next]_vars => OnlyEndsRefused'
  <2>. SUFFICES ASSUME TypeOK, OnlyEndsRefused, [Next]_vars PROVE OnlyEndsRefused'
    OBVIOUS
  <2>. USE DEF OnlyEndsRefused
  <2>1. ASSUME NEW c \in Clients, NEW in \in NewTaskInput, BeginCreate(c, in)
        PROVE  OnlyEndsRefused'
    <3>1. ChecksHold(NewTask(in, clock)) \/ RefusedForItsEnd(NewTask(in, clock))
      BY <2>1, NewTaskIsAccepted DEF BeginCreate, TypeOK
    <3>. QED
      BY <2>1, <3>1 DEF BeginCreate, TypeOK
  <2>2. ASSUME NEW c \in Clients, NEW in \in UpdateTaskInput, BeginUpdate(c, in)
        PROVE  OnlyEndsRefused'
    BY <2>2 DEF BeginUpdate, TypeOK
  <2>3. ASSUME NEW c \in Clients, Continue(c) PROVE OnlyEndsRefused'
    BY <2>3 DEF Continue, Insert, Update, Fail, Answer, TypeOK
  <2>4. CASE Tick \/ DeleteTask \/ UNCHANGED vars
    BY <2>4 DEF Tick, DeleteTask, vars
  <2>. QED
    BY <2>1, <2>2, <2>3, <2>4 DEF Next, Begin
<1>3. TypeOK /\ [Next]_vars => TypeOK'
  BY TypeStep
<1>. QED
  BY <1>1, <1>2, <1>3, PTL DEF Spec

-----------------------------------------------------------------------------
(* Requests that do not overlap *)

\* What ClosesOnlyAtTheEnd and CompletionTimeIsKept say of a row and the next.
MayFollow(old, new) ==
    /\ (old.status # "done" /\ new.status = "done" /\ Active(new)) =>
          new.until # None /\ Following(new.repeat, new.interval, new.due) > new.until
    /\ (old.status = "done" /\ new.status = "done") => new.completed = old.completed

LEMMA UpdatedTaskMayFollow ==
    ASSUME NEW t \in Task, NEW in \in UpdateTaskInput, NEW now \in 0 .. MaxClock,
           ChecksHold(t), ValidateSchedule(Rescheduled(t, in))
    PROVE  MayFollow(t, UpdatedTask(t, in, now))
<1> DEFINE s == Rescheduled(t, in)
           u == UpdatedTask(t, in, now)
<1>1. s \in Task
  BY RescheduledType
<1>2. s.status = t.status /\ s.completed = t.completed
  BY DEF Rescheduled, SetRepeat, Task
<1>3. s.status = "done" <=> s.completed # None
  BY <1>2 DEF ChecksHold
<1>4. Active(s) => s.due # None
  BY DEF ValidateSchedule
<1> HIDE DEF s
<1>5. CASE in.status = Unset
  <2>1. u = s
    BY <1>5 DEF UpdatedTask, s
  <2> QED BY <1>2, <2>1 DEF MayFollow
<1>6. CASE in.status # Unset /\ in.status # "done"
  <2>1. u = ApplyStatus(s, in.status, now)
    BY <1>6 DEF UpdatedTask, s
  <2>2. u.status # "done"
    BY <1>1, <1>6, <2>1 DEF ApplyStatus, Task
  <2> HIDE DEF u
  <2> QED BY <2>2 DEF MayFollow, u
<1>7. CASE in.status # Unset /\ in.status = "done"
  <2>1. u = CompleteOrAdvanceRepeat(s, now)
    BY <1>7 DEF UpdatedTask, s
  <2>2. CASE NextRepeatDate(s) # None
    <3>1. u.status = "todo"
      BY <1>1, <2>1, <2>2 DEF CompleteOrAdvanceRepeat, Task
    <3> HIDE DEF u
    <3> QED BY <3>1 DEF MayFollow, u
  <2>3. CASE NextRepeatDate(s) = None
    <3>1. u = ApplyStatus(s, "done", now)
      BY <2>1, <2>3 DEF CompleteOrAdvanceRepeat
    <3>2. /\ u.repeat = s.repeat /\ u.interval = s.interval
          /\ u.due = s.due /\ u.until = s.until
          /\ s.completed # None => u.completed = s.completed
      BY <1>1, <3>1 DEF ApplyStatus, Task
    <3>3. ASSUME Active(s)
          PROVE  s.until # None /\ Following(s.repeat, s.interval, s.due) > s.until
      <4>1. s.repeat \in Repeats /\ s.interval \in Intervals /\ s.due \in Dates
        BY <1>1, <1>4, <3>3 DEF Active, Task, Frequencies, OptionalDate
      <4>2. Following(s.repeat, s.interval, s.due) # None
        BY <4>1, TimeMovesOn, DatesAreNumbers
      <4> QED BY <1>4, <2>3, <3>3, <4>2 DEF NextRepeatDate
    <3> HIDE DEF u
    <3> QED BY <1>2, <1>3, <3>2, <3>3 DEF MayFollow, Active, u
  <2> QED BY <2>2, <2>3
<1> QED BY <1>5, <1>6, <1>7

\* One request at a time: the row it will write was made of the row that is
\* still there.
OneRequest == \A c, d \in Clients : pc[c] # "idle" /\ pc[d] # "idle" => c = d
CopyIsFresh ==
    \A c \in Clients :
        /\ pc[c] = "insert" => row = NoTask
        /\ pc[c] = "update" => row \in Task /\ MayFollow(row, pending[c])
SerialInv == AcceptedInv /\ OneRequest /\ CopyIsFresh

LEMMA SerialIsNext == SerialNext => Next
BY DEF SerialNext, Next

LEMMA SerialInit == Init => SerialInv
BY TypeInit, MarkersAreNotRows
   DEF Init, SerialInv, AcceptedInv, StoredIsSound, UpdatesAreAccepted,
       OneRequest, CopyIsFresh

LEMMA SerialStep == SerialInv /\ [SerialNext]_vars => SerialInv'
<1> SUFFICES ASSUME SerialInv, [SerialNext]_vars PROVE SerialInv'
  OBVIOUS
<1>0. AcceptedInv'
  BY AcceptedStep, SerialIsNext DEF SerialInv
<1>t. TypeOK
  BY DEF SerialInv, AcceptedInv
<1> USE DEF SerialInv, OneRequest, CopyIsFresh
<1>1. CASE Tick
  BY <1>0, <1>1 DEF Tick
<1>2. CASE Quiet /\ DeleteTask
  BY <1>0, <1>2 DEF DeleteTask, Quiet
<1>3. ASSUME NEW c \in Clients, NEW in \in NewTaskInput, Quiet, BeginCreate(c, in)
      PROVE  SerialInv'
  BY <1>0, <1>t, <1>3 DEF BeginCreate, Quiet, TypeOK
<1>4. ASSUME NEW c \in Clients, NEW in \in UpdateTaskInput, Quiet, BeginUpdate(c, in)
      PROVE  SerialInv'
  <2>1. MayFollow(row, UpdatedTask(row, in, clock))
    BY <1>4, UpdatedTaskMayFollow
       DEF BeginUpdate, AcceptedInv, StoredIsSound, TypeOK
  <2> QED BY <1>0, <1>t, <1>4, <2>1 DEF BeginUpdate, Quiet, TypeOK
<1>5. ASSUME NEW c \in Clients, Continue(c) PROVE SerialInv'
  <2>1. pc[c] # "idle" /\ pc' = [pc EXCEPT ![c] = "idle"]
    BY <1>5 DEF Continue, Insert, Update, Fail, Answer
  <2>2. \A d \in Clients : pc'[d] = "idle"
    BY <1>t, <2>1 DEF TypeOK
  <2> QED BY <1>0, <2>2
<1>6. CASE UNCHANGED vars
  BY <1>0, <1>6 DEF vars
<1> QED BY <1>1, <1>2, <1>3, <1>4, <1>5, <1>6 DEF SerialNext, Begin

LEMMA SerialStepFollows ==
    SerialInv /\ [SerialNext]_vars =>
        (row \in Task /\ row' \in Task => row' = row \/ MayFollow(row, row'))
<1> SUFFICES ASSUME SerialInv, [SerialNext]_vars, row \in Task
             PROVE  row' \in {row, Deleted} \/ MayFollow(row, row')
  BY MarkersAreNotRows
<1>1. ASSUME NEW c \in Clients, Insert(c) PROVE FALSE
  BY <1>1, MarkersAreNotRows DEF Insert, SerialInv, CopyIsFresh
<1>2. ASSUME NEW c \in Clients, Update(c) PROVE MayFollow(row, row')
  BY <1>2 DEF Update, SerialInv, CopyIsFresh
<1>3. ASSUME NEW c \in Clients, Begin(c) \/ Fail(c) PROVE row' = row
  BY <1>3 DEF Begin, BeginCreate, BeginUpdate, Fail
<1>4. CASE Tick \/ DeleteTask
  BY <1>4 DEF Tick, DeleteTask
<1>5. CASE UNCHANGED vars
  BY <1>5 DEF vars
<1> QED
  BY <1>1, <1>2, <1>3, <1>4, <1>5 DEF SerialNext, Continue

\* Used by one client at a time, the service closes an open task that repeats
\* only when its next date lies beyond its end.
THEOREM SerialClosesOnlyAtTheEnd == SerialSpec => ClosesOnlyAtTheEnd
<1>1. SerialInv /\ [SerialNext]_vars =>
        [(/\ row \in Task /\ row.status # "done"
          /\ row' \in Task /\ row'.status = "done" /\ Active(row')) =>
              /\ row'.until # None
              /\ Following(row'.repeat, row'.interval, row'.due) > row'.until]_vars
  BY SerialStepFollows DEF MayFollow
<1> QED
  BY SerialInit, SerialStep, <1>1, PTL DEF SerialSpec, ClosesOnlyAtTheEnd

\* Used by one client at a time, the service never changes the time of a
\* completion that stands.
THEOREM SerialCompletionTimeIsKept == SerialSpec => CompletionTimeIsKept
<1>1. SerialInv /\ [SerialNext]_vars =>
        [(/\ row \in Task /\ row.status = "done"
          /\ row' \in Task /\ row'.status = "done") =>
              row'.completed = row.completed]_vars
  BY SerialStepFollows DEF MayFollow
<1> QED
  BY SerialInit, SerialStep, <1>1, PTL DEF SerialSpec, CompletionTimeIsKept

-----------------------------------------------------------------------------
(* The lists of the views *)

\* A comparison of two rows of four numbers, column by column.
LEMMA PrecedesByColumn ==
    ASSUME NEW k, NEW l, DOMAIN k = 1 .. 4
    PROVE  Precedes(k, l) <=>
             \/ k[1] < l[1]
             \/ k[1] = l[1] /\ k[2] < l[2]
             \/ k[1] = l[1] /\ k[2] = l[2] /\ k[3] < l[3]
             \/ k[1] = l[1] /\ k[2] = l[2] /\ k[3] = l[3] /\ k[4] < l[4]
<1>. DEFINE First(i) == k[i] < l[i] /\ \A j \in 1 .. i - 1 : k[j] = l[j]
<1>1. DOMAIN k = {1, 2, 3, 4}
  OBVIOUS
<1>2. Precedes(k, l) <=> First(1) \/ First(2) \/ First(3) \/ First(4)
  BY <1>1 DEF Precedes
<1>3. 1 .. 0 = {} /\ 1 .. 1 = {1} /\ 1 .. 2 = {1, 2} /\ 1 .. 3 = {1, 2, 3}
  OBVIOUS
<1>4. First(1) <=> k[1] < l[1]
  BY <1>3
<1>5. First(2) <=> k[1] = l[1] /\ k[2] < l[2]
  BY <1>3
<1>6. First(3) <=> k[1] = l[1] /\ k[2] = l[2] /\ k[3] < l[3]
  BY <1>3
<1>7. First(4) <=> k[1] = l[1] /\ k[2] = l[2] /\ k[3] = l[3] /\ k[4] < l[4]
  BY <1>3
<1>. QED
  BY <1>2, <1>4, <1>5, <1>6, <1>7

LEMMA KeyTypes ==
    ASSUME NEW x \in Int \cup {None}
    PROVE  /\ Missing(x) \in {0, 1} /\ Given(x) \in Int
           /\ Missing(x) = 1 <=> x = None
BY DEF Missing, Given, Rank

\* Two values are the same when both columns are.
LEMMA SameKey ==
    ASSUME NEW x \in Int \cup {None}, NEW y \in Int \cup {None}
    PROVE  (Missing(x) = Missing(y) /\ Given(x) = Given(y)) <=> x = y
BY DEF Missing, Given, Rank

\* Sorted backwards by date, the Go and the SQL differ on the tasks without a
\* day or an hour, and on nothing else.
LEMMA BackwardsByDate ==
    ASSUME NEW t, NEW u,
           t.due \in Int \cup {None}, u.due \in Int \cup {None},
           t.time \in Int \cup {None}, u.time \in Int \cup {None}
    PROVE  OrdersAgree(t, u, "due", "desc")
<1>1. ASSUME NEW x, x.due \in Int \cup {None}, x.time \in Int \cup {None}
      PROVE  /\ GoKey(x, "due", "desc") =
                  <<-Missing(x.due), -Given(x.due), -Missing(x.time), -Given(x.time)>>
             /\ OrderByClause(x, "due", "desc") =
                  <<Missing(x.due), -Given(x.due), Missing(x.time), -Given(x.time)>>
             /\ Missing(x.due) \in {0, 1} /\ Missing(x.time) \in {0, 1}
             /\ Given(x.due) \in Int /\ Given(x.time) \in Int
  <2>1. /\ Missing(x.due) \in {0, 1} /\ Missing(x.time) \in {0, 1}
        /\ Given(x.due) \in Int /\ Given(x.time) \in Int
    BY <1>1, KeyTypes
  <2>2. GoKey(x, "due", "desc") = Negated(DueKey(x))
    BY DEF GoKey, SortKey
  <2>3. Negated(DueKey(x)) =
          <<-Missing(x.due), -Given(x.due), -Missing(x.time), -Given(x.time)>>
    BY <2>1 DEF Negated, DueKey
  <2>4. OrderByClause(x, "due", "desc") = DueColumns(x, "desc")
    BY DEF OrderByClause
  <2>. QED
    BY <2>1, <2>2, <2>3, <2>4 DEF DueColumns, Directed
<1>. DEFINE p == Precedes(GoKey(t, "due", "desc"), GoKey(u, "due", "desc"))
            q == Precedes(OrderByClause(t, "due", "desc"), OrderByClause(u, "due", "desc"))
<1>2. p <=> \/ -Missing(t.due) < -Missing(u.due)
            \/ -Missing(t.due) = -Missing(u.due) /\ -Given(t.due) < -Given(u.due)
            \/ /\ -Missing(t.due) = -Missing(u.due) /\ -Given(t.due) = -Given(u.due)
               /\ -Missing(t.time) < -Missing(u.time)
            \/ /\ -Missing(t.due) = -Missing(u.due) /\ -Given(t.due) = -Given(u.due)
               /\ -Missing(t.time) = -Missing(u.time) /\ -Given(t.time) < -Given(u.time)
  <2>. DEFINE k == <<-Missing(t.due), -Given(t.due), -Missing(t.time), -Given(t.time)>>
              l == <<-Missing(u.due), -Given(u.due), -Missing(u.time), -Given(u.time)>>
  <2>1. p <=> Precedes(k, l)
    BY <1>1
  <2>2. DOMAIN k = 1 .. 4
    OBVIOUS
  <2>3. Precedes(k, l) <=>
             \/ k[1] < l[1]
             \/ k[1] = l[1] /\ k[2] < l[2]
             \/ k[1] = l[1] /\ k[2] = l[2] /\ k[3] < l[3]
             \/ k[1] = l[1] /\ k[2] = l[2] /\ k[3] = l[3] /\ k[4] < l[4]
    <3>. HIDE DEF k, l
    <3>. QED
      BY <2>2, PrecedesByColumn
  <2>. HIDE DEF p
  <2>. QED
    BY <2>1, <2>3
<1>3. q <=> \/ Missing(t.due) < Missing(u.due)
            \/ Missing(t.due) = Missing(u.due) /\ -Given(t.due) < -Given(u.due)
            \/ /\ Missing(t.due) = Missing(u.due) /\ -Given(t.due) = -Given(u.due)
               /\ Missing(t.time) < Missing(u.time)
            \/ /\ Missing(t.due) = Missing(u.due) /\ -Given(t.due) = -Given(u.due)
               /\ Missing(t.time) = Missing(u.time) /\ -Given(t.time) < -Given(u.time)
  <2>. DEFINE k == <<Missing(t.due), -Given(t.due), Missing(t.time), -Given(t.time)>>
              l == <<Missing(u.due), -Given(u.due), Missing(u.time), -Given(u.time)>>
  <2>1. q <=> Precedes(k, l)
    BY <1>1
  <2>2. DOMAIN k = 1 .. 4
    OBVIOUS
  <2>3. Precedes(k, l) <=>
             \/ k[1] < l[1]
             \/ k[1] = l[1] /\ k[2] < l[2]
             \/ k[1] = l[1] /\ k[2] = l[2] /\ k[3] < l[3]
             \/ k[1] = l[1] /\ k[2] = l[2] /\ k[3] = l[3] /\ k[4] < l[4]
    <3>. HIDE DEF k, l
    <3>. QED
      BY <2>2, PrecedesByColumn
  <2>. HIDE DEF q
  <2>. QED
    BY <2>1, <2>3
<1>4. (p <=> q) <=> ~(\/ (t.due = None) # (u.due = None)
                      \/ t.due = u.due /\ (t.time = None) # (u.time = None))
  <2>1. /\ (t.due = None) # (u.due = None) <=> Missing(t.due) # Missing(u.due)
        /\ (t.time = None) # (u.time = None) <=> Missing(t.time) # Missing(u.time)
        /\ t.due = u.due <=> Missing(t.due) = Missing(u.due) /\ Given(t.due) = Given(u.due)
    BY KeyTypes, SameKey
  <2>. HIDE DEF p, q
  <2>. QED
    BY <1>1, <1>2, <1>3, <2>1
<1>5. Rank(t.status = "done") = Rank(u.status = "done") <=> IsDone(t) = IsDone(u)
  BY DEF Rank, IsDone
<1>6. GoPrecedes(t, u, "due", "desc") <=>
        \/ Rank(t.status = "done") < Rank(u.status = "done")
        \/ Rank(t.status = "done") = Rank(u.status = "done") /\ p
  BY DEF GoPrecedes, IsDone
<1>7. SqlPrecedes(t, u, "due", "desc") <=>
        \/ Rank(t.status = "done") < Rank(u.status = "done")
        \/ Rank(t.status = "done") = Rank(u.status = "done") /\ q
  BY DEF SqlPrecedes
<1>8. /\ Rank(t.status = "done") \in {0, 1}
      /\ Rank(u.status = "done") \in {0, 1}
  BY DEF Rank
<1>. HIDE DEF p, q
<1>. QED
  BY <1>4, <1>5, <1>6, <1>7, <1>8 DEF OrdersAgree, Reversed

\* In any other order the two compare the same columns.
LEMMA SameOrder ==
    ASSUME NEW t, NEW u, NEW sort \in Sorts, NEW direction \in Directions,
           ~(sort = "due" /\ direction = "desc")
    PROVE  OrdersAgree(t, u, sort, direction)
<1>1. ASSUME NEW x PROVE GoKey(x, sort, direction) = OrderByClause(x, sort, direction)
  <2>1. DueKey(x) = DueColumns(x, "asc")
    BY DEF DueKey, DueColumns, Directed
  <2>2. CASE sort = "smart"
    BY <2>1, <2>2 DEF GoKey, SortKey, OrderByClause
  <2>3. CASE sort = "due"
    BY <2>1, <2>3 DEF GoKey, SortKey, OrderByClause, Directions
  <2>4. CASE sort = "created"
    BY <2>4 DEF GoKey, SortKey, OrderByClause, Directed, Negated
  <2>5. CASE sort = "title"
    BY <2>5 DEF GoKey, SortKey, OrderByClause, Directed, Negated
  <2>6. CASE sort = "priority"
    BY <2>6 DEF GoKey, SortKey, OrderByClause, Directed, Negated
  <2>. QED
    BY <2>2, <2>3, <2>4, <2>5, <2>6 DEF Sorts
<1>2. GoPrecedes(t, u, sort, direction) <=> SqlPrecedes(t, u, sort, direction)
  BY <1>1 DEF GoPrecedes, SqlPrecedes, IsDone
<1>. QED
  BY <1>2 DEF OrdersAgree, Reversed

\* A comparison with NULL takes no row.
LEMMA NullTakesNoRow ==
    ASSUME NEW x, NEW y
    PROVE  /\ Holds(Less(x, y)) <=> x # None /\ y # None /\ x < y
           /\ Holds(Equal(x, y)) <=> x # None /\ y # None /\ x = y
BY DEF Holds, Less, Equal, Compared

LEMMA Connectives ==
    ASSUME NEW p \in {"true", "false", "null"}, NEW q \in {"true", "false", "null"}
    PROVE  /\ Both(p, q) \in {"true", "false", "null"}
           /\ Holds(Either(p, q)) <=> Holds(p) \/ Holds(q)
           /\ Holds(Both(p, q)) <=> Holds(p) /\ Holds(q)
BY DEF Either, Both, Holds

\* The SQL takes the tasks that the Go keeps.
LEMMA SameTasks ==
    ASSUME NEW t, t.due \in Int \cup {None}, t.time \in Int \cup {None},
           t.archived => t.project # None, t.archived \in BOOLEAN,
           NEW f \in TaskListFilter
    PROVE  FiltersAgree(t, f)
<1>1. f.today \in Int /\ f.now \in Int
  BY DatesAreNumbers, NoneIsNoTime DEF TaskListFilter
<1>2. f.today # None /\ f.now # None
  BY <1>1, DatesAreNumbers
<1>3. \A x, y : /\ Less(x, y) \in {"true", "false", "null"}
                /\ Equal(x, y) \in {"true", "false", "null"}
  BY DEF Less, Equal, Compared
<1>4. Holds(Either(Less(t.due, f.today), Equal(t.due, f.today)))
        <=> t.due # None /\ ~(t.due > f.today)
  BY <1>1, <1>2, <1>3, Connectives, NullTakesNoRow
<1>5. Holds(Less(f.today, t.due)) <=> t.due # None /\ t.due > f.today
  BY <1>1, <1>2, NullTakesNoRow
<1>6. OverdueCondition(t, f) <=> TaskOverdue(t, f)
  BY <1>1, <1>2, <1>3, Connectives, NullTakesNoRow DEF OverdueCondition, TaskOverdue
<1>7. (IF f.project # None THEN Holds(Equal(t.project, f.project))
                           ELSE t.project = None \/ ~t.archived)
        <=> (f.project # None => t.project = f.project) /\ ~(t.archived /\ f.project = None)
  BY NullTakesNoRow
<1>. QED
  BY <1>4, <1>5, <1>6, <1>7 DEF FiltersAgree, ListTasksQuery, TaskMatchesFilter, IsDone

\* For any dates, hours and projects, however a task was changed, the SQL lists
\* it where the Go would (filter.go:87-270, repository.go:302-394 of todo).
THEOREM ListsAreTheSame == Spec => []ListsAgree
<1>1. TypeOK => ListsAgree
  <2>1. Dates \cup Times \subseteq Int
    BY DatesAreNumbers, NoneIsNoTime
  <2>2. ASSUME row \in Task, NEW time \in Times, NEW flagged \in BOOLEAN,
               NEW project \in Projects \cup {None}, NEW archived \in BOOLEAN,
               NEW f \in TaskListFilter
        PROVE  FiltersAgree(Listed(time, project, archived, flagged, 0), f)
    <3>. DEFINE t == Listed(time, project, archived, flagged, 0)
    <3>1. /\ t.due \in Int \cup {None} /\ t.time \in Int \cup {None}
          /\ t.archived => t.project # None
          /\ t.archived \in BOOLEAN
      BY <2>1, <2>2 DEF Listed, Task, OptionalDate
    <3>. HIDE DEF t
    <3>. QED
      BY <3>1, SameTasks DEF t
  <2>3. ASSUME row \in Task, NEW time \in Times, NEW flagged \in BOOLEAN, NEW rank \in Ranks,
               NEW other \in OtherTasks, NEW sort \in Sorts, NEW direction \in Directions
        PROVE  OrdersAgree(Listed(time, None, FALSE, flagged, rank), other, sort, direction)
    <3>. DEFINE t == Listed(time, None, FALSE, flagged, rank)
    <3>1. /\ t.due \in Int \cup {None} /\ t.time \in Int \cup {None}
          /\ other.due \in Int \cup {None} /\ other.time \in Int \cup {None}
      BY <2>1, <2>3 DEF Listed, Task, OptionalDate, OtherTasks
    <3>. HIDE DEF t
    <3>. QED
      BY <3>1, BackwardsByDate, SameOrder DEF t
  <2>. QED
    BY <2>2, <2>3 DEF ListsAgree
<1>. QED
  BY <1>1, TypeCorrect, PTL

-----------------------------------------------------------------------------
(* The days and months of the calendar *)

\* The months of all years are counted on; the first day of month n.
MonthStart(n) == FirstOfMonth(n \div 12, (n % 12) + 1)

\* The firsts of the months of year y, which is a leap year or is not.
FirstsAre(y, leap) ==
    LET first == FirstOfMonth(y, 1)
    IN  /\ first \in Int
        /\ FirstOfMonth(y, 2) = first + 31
        /\ FirstOfMonth(y, 3) = first + 59 + leap
        /\ FirstOfMonth(y, 4) = first + 90 + leap
        /\ FirstOfMonth(y, 5) = first + 120 + leap
        /\ FirstOfMonth(y, 6) = first + 151 + leap
        /\ FirstOfMonth(y, 7) = first + 181 + leap
        /\ FirstOfMonth(y, 8) = first + 212 + leap
        /\ FirstOfMonth(y, 9) = first + 243 + leap
        /\ FirstOfMonth(y, 10) = first + 273 + leap
        /\ FirstOfMonth(y, 11) = first + 304 + leap
        /\ FirstOfMonth(y, 12) = first + 334 + leap
        /\ FirstOfMonth(y + 1, 1) = first + 365 + leap

LEMMA FirstsOfAYear == ASSUME NEW y \in Int PROVE \E leap \in {0, 1} : FirstsAre(y, leap)
<1>. DEFINE past == y - 1
            leap == IF IsLeap(y) THEN 1 ELSE 0
            before == 365 * past + past \div 4 - past \div 100 + past \div 400
<1>1. leap \in {0, 1} /\ before \in Int
  OBVIOUS
<1>2. /\ DaysBefore[1] = 0 /\ DaysBefore[2] = 31 /\ DaysBefore[3] = 59 /\ DaysBefore[4] = 90
      /\ DaysBefore[5] = 120 /\ DaysBefore[6] = 151 /\ DaysBefore[7] = 181
      /\ DaysBefore[8] = 212 /\ DaysBefore[9] = 243 /\ DaysBefore[10] = 273
      /\ DaysBefore[11] = 304 /\ DaysBefore[12] = 334
  BY DEF DaysBefore
<1>3. \A m \in 1 .. 12 : FirstOfMonth(y, m) = before + DaysBefore[m] + (IF m > 2 THEN leap ELSE 0)
  BY DEF FirstOfMonth
<1>4. FirstOfMonth(y + 1, 1) = before + 365 + leap
  <2>1. /\ y \div 4 = past \div 4 + (IF y % 4 = 0 THEN 1 ELSE 0)
        /\ y \div 100 = past \div 100 + (IF y % 100 = 0 THEN 1 ELSE 0)
        /\ y \div 400 = past \div 400 + (IF y % 400 = 0 THEN 1 ELSE 0)
    OBVIOUS
  <2>2. /\ y % 400 = 0 => y % 100 = 0
        /\ y % 100 = 0 => y % 4 = 0
    OBVIOUS
  <2>3. FirstOfMonth(y + 1, 1) = 365 * y + y \div 4 - y \div 100 + y \div 400 + 0
    BY <1>2 DEF FirstOfMonth
  <2>4. 365 * y = 365 * past + 365
    OBVIOUS
  <2>. QED
    BY <2>1, <2>2, <2>3, <2>4 DEF IsLeap
<1>. HIDE DEF leap, before
<1>. QED
  BY <1>1, <1>2, <1>3, <1>4 DEF FirstsAre

\* A year comes after those before it.
LEMMA YearsInOrder ==
    ASSUME NEW y \in Int, NEW z \in Int, y <= z
    PROVE  FirstOfMonth(y, 1) <= FirstOfMonth(z, 1)
<1>. DEFINE p == y - 1
            q == z - 1
<1>1. p \in Int /\ q \in Int /\ p <= q
  OBVIOUS
<1>2. DaysBefore[1] = 0
  BY DEF DaysBefore
<1>3. /\ FirstOfMonth(y, 1) = 365 * p + p \div 4 - p \div 100 + p \div 400
      /\ FirstOfMonth(z, 1) = 365 * q + q \div 4 - q \div 100 + q \div 400
  BY <1>2 DEF FirstOfMonth
<1>. HIDE DEF p, q
<1>4. p \div 4 <= q \div 4
  BY <1>1
<1>5. p \div 400 <= q \div 400
  BY <1>1
<1>6. q \div 100 - p \div 100 <= q - p
  BY <1>1
<1>. QED
  BY <1>1, <1>3, <1>4, <1>5, <1>6

\* A month has 28 to 31 days, and comes after those before it.
LEMMA MonthLengths ==
    ASSUME NEW n \in Int
    PROVE  /\ MonthStart(n) \in Int
           /\ MonthStart(n + 1) - MonthStart(n) \in 28 .. 31
           /\ FirstOfMonth(n \div 12, 1) <= MonthStart(n)
           /\ MonthStart(n + 1) <= FirstOfMonth(n \div 12 + 1, 1)
<1>. DEFINE y == n \div 12
            m == n % 12
<1>1. /\ y \in Int /\ m \in 0 .. 11 /\ n = 12 * y + m
      /\ m < 11 => (n + 1) \div 12 = y /\ (n + 1) % 12 = m + 1
      /\ m = 11 => (n + 1) \div 12 = y + 1 /\ (n + 1) % 12 = 0
  OBVIOUS
<1>2. PICK leap \in {0, 1} : FirstsAre(y, leap)
  BY <1>1, FirstsOfAYear
<1>3. /\ MonthStart(n) = FirstOfMonth(y, m + 1)
      /\ MonthStart(n + 1) = IF m = 11 THEN FirstOfMonth(y + 1, 1) ELSE FirstOfMonth(y, m + 2)
  BY <1>1 DEF MonthStart
<1>4. m \in {0, 1, 2, 3, 4, 5, 6, 7, 8, 9, 10, 11}
  BY <1>1
<1>. HIDE DEF y, m
<1>. QED
  BY <1>2, <1>3, <1>4 DEF FirstsAre, y

LEMMA MonthsInOrder ==
    ASSUME NEW k \in Int, NEW n \in Int, k < n
    PROVE  MonthStart(k + 1) <= MonthStart(n)
<1>. DEFINE y == k \div 12
            z == n \div 12
<1>1. y \in Int /\ z \in Int /\ y <= z
  OBVIOUS
<1>2. CASE y < z
  <2>1. FirstOfMonth(y + 1, 1) <= FirstOfMonth(z, 1)
    BY <1>1, <1>2, YearsInOrder
  <2>2. /\ FirstOfMonth(y + 1, 1) \in Int /\ FirstOfMonth(z, 1) \in Int
    BY <1>1, FirstsOfAYear DEF FirstsAre
  <2>3. FirstOfMonth(z, 1) <= MonthStart(n) /\ MonthStart(n) \in Int
    BY MonthLengths
  <2>4. MonthStart(k + 1) <= FirstOfMonth(y + 1, 1)
    BY MonthLengths
  <2>5. MonthStart(k + 1) \in Int
    BY MonthLengths, k + 1 \in Int
  <2>. HIDE DEF y, z
  <2>. QED
    BY <2>1, <2>2, <2>3, <2>4, <2>5
<1>3. CASE y = z
  <2>1. PICK leap \in {0, 1} : FirstsAre(y, leap)
    BY <1>1, FirstsOfAYear
  <2>. DEFINE a == k % 12
              b == n % 12
  <2>2. /\ a \in 0 .. 11 /\ b \in 0 .. 11 /\ a < b
        /\ (k + 1) \div 12 = y /\ (k + 1) % 12 = a + 1
    BY <1>3
  <2>3. MonthStart(k + 1) = FirstOfMonth(y, a + 2) /\ MonthStart(n) = FirstOfMonth(y, b + 1)
    BY <1>3, <2>2 DEF MonthStart
  <2>4. /\ a \in {0, 1, 2, 3, 4, 5, 6, 7, 8, 9, 10, 11}
        /\ b \in {0, 1, 2, 3, 4, 5, 6, 7, 8, 9, 10, 11}
    BY <2>2
  <2>. HIDE DEF y, a, b
  <2>. QED
    BY <2>1, <2>2, <2>3, <2>4 DEF FirstsAre
<1>. QED
  BY <1>1, <1>2, <1>3

\* A date lies in one month, which Civil finds.
LiesIn(date, n) == MonthStart(n) <= date /\ date < MonthStart(n + 1)

LEMMA OneMonth ==
    ASSUME NEW date \in Int, NEW k \in Int, NEW n \in Int, LiesIn(date, k), LiesIn(date, n)
    PROVE  k = n
<1>1. /\ MonthStart(k) \in Int /\ MonthStart(n) \in Int
      /\ MonthStart(k + 1) \in Int /\ MonthStart(n + 1) \in Int
  BY MonthLengths, k + 1 \in Int, n + 1 \in Int
<1>2. ASSUME k < n PROVE FALSE
  BY <1>1, <1>2, MonthsInOrder DEF LiesIn
<1>3. ASSUME n < k PROVE FALSE
  BY <1>1, <1>3, MonthsInOrder DEF LiesIn
<1>. QED
  BY <1>2, <1>3

LEMMA CivilFits ==
    ASSUME NEW date \in Dates
    PROVE  LET c == Civil(date)
               n == MonthNumber(c)
           IN  /\ c.year \in Int /\ c.month \in 1 .. 12 /\ n \in Int
               /\ n \div 12 = c.year /\ n % 12 = c.month - 1
               /\ LiesIn(date, n)
               /\ c.day = date - MonthStart(n) + 1
<1>. DEFINE InYear(y) == FirstOfMonth(y, 1) <= date /\ date < FirstOfMonth(y + 1, 1)
            y == CHOOSE x \in Years : InYear(x)
            InMonth(x) == /\ FirstOfMonth(y, x) <= date
                          /\ x < 12 => date < FirstOfMonth(y, x + 1)
            m == CHOOSE x \in 1 .. 12 : InMonth(x)
            c == [year |-> y, month |-> m, day |-> date - FirstOfMonth(y, m) + 1]
<1>1. Civil(date) = c
  BY DEF Civil
<1>2. y \in Years /\ InYear(y)
  <2>1. \E x \in Years : InYear(x)
    BY DatesHaveAYear
  <2>. QED
    BY <2>1
<1>. HIDE DEF y
<1>3. y \in Int /\ date \in Int
  BY <1>2, YearsAreNumbers, DatesAreNumbers
<1>4. PICK leap \in {0, 1} : FirstsAre(y, leap)
  BY <1>3, FirstsOfAYear
<1>5. m \in 1 .. 12 /\ InMonth(m)
  <2>1. \E x \in 1 .. 12 : InMonth(x)
    <3>1. \/ InMonth(1) \/ InMonth(2) \/ InMonth(3) \/ InMonth(4) \/ InMonth(5) \/ InMonth(6)
          \/ InMonth(7) \/ InMonth(8) \/ InMonth(9) \/ InMonth(10) \/ InMonth(11) \/ InMonth(12)
      BY <1>2, <1>3, <1>4 DEF FirstsAre
    <3>. HIDE DEF InMonth
    <3>. QED
      BY <3>1
  <2>. HIDE DEF InMonth
  <2>. QED
    BY <2>1
<1>. HIDE DEF m
<1>. DEFINE n == 12 * y + m - 1
<1>6. n \in Int /\ n \div 12 = y /\ n % 12 = m - 1
  BY <1>3, <1>5
<1>7. /\ m < 12 => (n + 1) \div 12 = y /\ (n + 1) % 12 = m
      /\ m = 12 => (n + 1) \div 12 = y + 1 /\ (n + 1) % 12 = 0
  BY <1>3, <1>5
<1>8. MonthNumber(c) = n
  BY DEF MonthNumber
<1>. HIDE DEF n
<1>9. MonthStart(n) = FirstOfMonth(y, m)
  BY <1>5, <1>6 DEF MonthStart
<1>10. MonthStart(n + 1) = IF m = 12 THEN FirstOfMonth(y + 1, 1) ELSE FirstOfMonth(y, m + 1)
  BY <1>5, <1>7 DEF MonthStart
<1>11. LiesIn(date, n)
  BY <1>2, <1>5, <1>9, <1>10 DEF LiesIn
<1>. QED
  BY <1>1, <1>3, <1>5, <1>6, <1>8, <1>9, <1>11

\* AddDate moves a date by so many months, and spills over the end of the month.
LEMMA AddMonthsMoves ==
    ASSUME NEW date \in Dates, NEW months \in Nat
    PROVE  LET n == MonthNumber(Civil(date))
           IN  AddMonths(date, months) = MonthStart(n + months) + Civil(date).day - 1
<1>. DEFINE c == Civil(date)
            n == MonthNumber(c)
            k == c.month + months
<1>1. /\ c.year \in Int /\ c.month \in 1 .. 12 /\ n = 12 * c.year + c.month - 1
  BY CivilFits DEF MonthNumber
<1>2. AddMonths(date, months) = DateOf(c.year, k, c.day)
  BY DEF AddMonths
<1>. HIDE DEF c
<1>3. /\ (n + months) \div 12 = c.year + (k - 1) \div 12
      /\ (n + months) % 12 = (k - 1) % 12
  BY <1>1
<1>. QED
  BY <1>2, <1>3 DEF DateOf, MonthStart, c

LEMMA LengthOfAMonth ==
    ASSUME NEW n \in Int
    PROVE  LengthOfMonth(n \div 12, (n % 12) + 1) = MonthStart(n + 1) - MonthStart(n)
<1>. DEFINE y == n \div 12
            m == n % 12
<1>1. y \in Int /\ m \in 0 .. 11 /\ n = 12 * y + m
  OBVIOUS
<1>2. /\ y + ((m + 2) - 1) \div 12 = (n + 1) \div 12 /\ ((m + 2) - 1) % 12 = (n + 1) % 12
      /\ y + ((m + 1) - 1) \div 12 = y /\ ((m + 1) - 1) % 12 = m
  BY <1>1
<1>3. DateOf(y, m + 2, 1) = MonthStart(n + 1) + 1 - 1 /\ DateOf(y, m + 1, 1) = MonthStart(n) + 1 - 1
  BY <1>2 DEF DateOf, MonthStart
<1>4. (m + 1) + 1 = m + 2
  BY <1>1
<1>5. LengthOfMonth(y, m + 1) = DateOf(y, m + 2, 1) - DateOf(y, m + 1, 1)
  BY <1>4 DEF LengthOfMonth
<1>6. MonthStart(n) \in Int /\ MonthStart(n + 1) \in Int
  BY MonthLengths, n + 1 \in Int
<1>. HIDE DEF y, m
<1>7. LengthOfMonth(y, m + 1) = MonthStart(n + 1) - MonthStart(n)
  BY <1>3, <1>5, <1>6
<1>. QED
  BY <1>7 DEF y, m

\* A date and the one so many months on, when that is a date as well.
LEMMA MonthsAreKept ==
    ASSUME NEW date \in Dates, NEW months \in Nat, AddMonths(date, months) \in Dates
    PROVE  LET old == Civil(date)
               new == Civil(AddMonths(date, months))
               month == MonthNumber(old) + months
               length == LengthOfMonth(month \div 12, (month % 12) + 1)
           IN  /\ old.day <= length => new.day = old.day /\ MonthNumber(new) = month
               /\ old.day > length =>
                    new.day = old.day - length /\ MonthNumber(new) = month + 1
<1>. DEFINE next == AddMonths(date, months)
            old == Civil(date)
            new == Civil(next)
            n == MonthNumber(old)
            k == MonthNumber(new)
            month == n + months
            length == LengthOfMonth(month \div 12, (month % 12) + 1)
<1>1. /\ n \in Int /\ LiesIn(date, n) /\ old.day = date - MonthStart(n) + 1 /\ date \in Int
  BY CivilFits, DatesAreNumbers
<1>2. /\ k \in Int /\ LiesIn(next, k) /\ new.day = next - MonthStart(k) + 1 /\ next \in Int
  BY CivilFits, DatesAreNumbers
<1>3. next = MonthStart(month) + old.day - 1
  BY AddMonthsMoves
<1>. HIDE DEF next, old, new, n, k
<1>4. month \in Int /\ month + 1 \in Int /\ month + 2 \in Int /\ (month + 1) + 1 = month + 2
  BY <1>1
<1>. HIDE DEF month
<1>12. length = MonthStart(month + 1) - MonthStart(month)
  BY <1>4, LengthOfAMonth
<1>. HIDE DEF length
<1>5. /\ MonthStart(n) \in Int /\ MonthStart(n + 1) \in Int
      /\ MonthStart(n + 1) - MonthStart(n) <= 31
  <2>1. n + 1 \in Int
    BY <1>1
  <2>2. MonthStart(n + 1) \in Int
    BY <2>1, MonthLengths
  <2>3. MonthStart(n) \in Int /\ MonthStart(n + 1) - MonthStart(n) \in 28 .. 31
    BY <1>1, MonthLengths
  <2>. QED
    BY <2>2, <2>3
<1>6. /\ MonthStart(month) \in Int /\ MonthStart(month + 1) \in Int
      /\ MonthStart(month + 1) - MonthStart(month) >= 28
  <2>1. MonthStart(month + 1) \in Int
    BY <1>4, MonthLengths
  <2>2. MonthStart(month) \in Int /\ MonthStart(month + 1) - MonthStart(month) \in 28 .. 31
    BY <1>4, MonthLengths
  <2>. QED
    BY <2>1, <2>2
<1>7. /\ MonthStart(month + 2) \in Int
      /\ MonthStart(month + 2) - MonthStart(month + 1) >= 28
  <2>1. MonthStart(month + 2) \in Int
    BY <1>4, MonthLengths
  <2>2. MonthStart((month + 1) + 1) - MonthStart(month + 1) \in 28 .. 31
    BY <1>4, MonthLengths
  <2>. QED
    BY <1>4, <1>6, <2>1, <2>2
<1>8. old.day \in Int /\ 1 <= old.day /\ old.day <= 31
  BY <1>1, <1>5 DEF LiesIn
<1>9. ASSUME old.day <= length PROVE new.day = old.day /\ k = month
  <2>1. LiesIn(next, month)
    BY <1>3, <1>4, <1>12, <1>6, <1>8, <1>9 DEF LiesIn
  <2>2. k = month
    BY <1>2, <1>4, <2>1, OneMonth
  <2>. QED
    BY <1>2, <1>3, <1>4, <1>12, <1>6, <1>8, <1>9, <2>2
<1>10. ASSUME old.day > length PROVE new.day = old.day - length /\ k = month + 1
  <2>1. LiesIn(next, month + 1)
    BY <1>3, <1>4, <1>12, <1>6, <1>7, <1>8, <1>10 DEF LiesIn
  <2>2. k = month + 1
    BY <1>2, <1>4, <2>1, OneMonth
  <2>. QED
    BY <1>2, <1>3, <1>4, <1>12, <1>6, <1>8, <1>10, <2>2
<1>11. length \in Int
  BY <1>12, <1>6
<1>. QED
  BY <1>8, <1>9, <1>10, <1>11 DEF next, old, new, n, k, month, length

\* The matching days after date d up to the nth after it.
Passed(f, d, n) == {x \in d + 1 .. d + n : Matches(f, x)}
Count(f, d, n) == Cardinality(Passed(f, d, n))

LEMMA CountStep ==
    ASSUME NEW f, NEW d \in Int, NEW n \in Nat
    PROVE  /\ IsFiniteSet(Passed(f, d, n)) /\ Count(f, d, n) \in Nat
           /\ Count(f, d, 0) = 0
           /\ Count(f, d, n + 1) = Count(f, d, n) + (IF Matches(f, d + n + 1) THEN 1 ELSE 0)
<1>. DEFINE last == d + n + 1
<1>1. IsFiniteSet(Passed(f, d, n))
  <2>1. IsFiniteSet(d + 1 .. d + n)
    BY FS_Interval
  <2>2. Passed(f, d, n) \in SUBSET (d + 1 .. d + n)
    BY DEF Passed
  <2>. QED
    BY <2>1, <2>2, FS_Subset
<1>2. Count(f, d, n) \in Nat
  BY <1>1, FS_CardinalityType DEF Count
<1>3. Passed(f, d, 0) = {}
  BY DEF Passed
<1>4. Passed(f, d, n + 1) = IF Matches(f, last) THEN Passed(f, d, n) \cup {last} ELSE Passed(f, d, n)
  <2>1. d + 1 .. d + (n + 1) = (d + 1 .. d + n) \cup {last}
    OBVIOUS
  <2>. HIDE DEF last
  <2>. QED
    BY <2>1 DEF Passed
<1>5. last \notin Passed(f, d, n)
  BY DEF Passed
<1>. HIDE DEF last
<1>6. Cardinality(Passed(f, d, n) \cup {last}) = Cardinality(Passed(f, d, n)) + 1
  BY <1>1, <1>5, FS_AddElement
<1>7. Count(f, d, n + 1) = Count(f, d, n) + (IF Matches(f, last) THEN 1 ELSE 0)
  BY <1>2, <1>4, <1>6 DEF Count
<1>. QED
  BY <1>1, <1>2, <1>3, <1>7, FS_EmptySet DEF Count, last

LEMMA WeekHasOne ==
    ASSUME NEW f \in {"weekdays", "weekends"}, NEW d \in Int, NEW n \in Nat
    PROVE  Count(f, d, n + 7) >= Count(f, d, n) + 1
<1>. DEFINE r == IF f = "weekdays" THEN 0 ELSE 5
            x == d + n + 7 - ((d + n + 7 - r) % 7)
<1>1. x \in d + n + 1 .. d + n + 7 /\ x % 7 = r
  OBVIOUS
<1>2. Matches(f, x)
  BY <1>1 DEF Matches, IsWorkday
<1>. HIDE DEF x
<1>3. /\ x \in Passed(f, d, n + 7) /\ x \notin Passed(f, d, n)
      /\ Passed(f, d, n) \cup {x} \in SUBSET Passed(f, d, n + 7)
  BY <1>1, <1>2 DEF Passed
<1>4. /\ IsFiniteSet(Passed(f, d, n)) /\ IsFiniteSet(Passed(f, d, n + 7))
      /\ Count(f, d, n) \in Nat
  BY CountStep, n + 7 \in Nat
<1>5. Cardinality(Passed(f, d, n) \cup {x}) = Count(f, d, n) + 1
  BY <1>3, <1>4, FS_AddElement DEF Count
<1>6. Cardinality(Passed(f, d, n) \cup {x}) <= Count(f, d, n + 7)
  BY <1>3, <1>4, FS_Subset DEF Count
<1>. QED
  BY <1>4, <1>5, <1>6

LEMMA WeeksHaveEnough ==
    ASSUME NEW f \in {"weekdays", "weekends"}, NEW d \in Int, NEW i \in Nat
    PROVE  Count(f, d, 7 * i) >= i
<1>. DEFINE Good == {n \in Nat : Count(f, d, 7 * n) >= n}
<1>1. 0 \in Good
  <2>1. Count(f, d, 7 * 0) = 0
    BY CountStep, 7 * 0 = 0, 0 \in Nat
  <2>. QED
    BY <2>1
<1>2. ASSUME NEW n \in Good PROVE n + 1 \in Good
  <2>1. n \in Nat /\ Count(f, d, 7 * n) >= n
    OBVIOUS
  <2>2. 7 * (n + 1) = 7 * n + 7 /\ 7 * n \in Nat /\ 7 * n + 7 \in Nat
    BY <2>1
  <2>3. Count(f, d, 7 * n + 7) >= Count(f, d, 7 * n) + 1
    BY <2>2, WeekHasOne
  <2>4. Count(f, d, 7 * n) \in Nat /\ Count(f, d, 7 * n + 7) \in Nat
    BY <2>2, CountStep
  <2>5. Count(f, d, 7 * (n + 1)) >= n + 1
    BY <2>1, <2>2, <2>3, <2>4
  <2>. QED
    BY <2>1, <2>5
<1>3. Good = Nat
  <2>1. Good \in SUBSET Nat
    OBVIOUS
  <2>. HIDE DEF Good
  <2>. QED
    BY <1>1, <1>2, <2>1, NumberInduction
<1>. QED
  BY <1>3

\* The first day by which enough have passed is the one to move to.
LEMMA DayIsFound ==
    ASSUME NEW f \in {"weekdays", "weekends"}, NEW d \in Int, NEW i \in Nat \ {0}
    PROVE  \E n \in 1 .. 7 * i : Matches(f, d + n) /\ Count(f, d, n) = i
<1>. DEFINE Enough == {n \in Nat : Count(f, d, n) >= i}
<1>1. 7 * i \in Enough
  BY WeeksHaveEnough
<1>2. PICK n \in Enough : \A k \in Enough : n <= k
  <2>1. Enough \in SUBSET Nat /\ Enough # {}
    BY <1>1
  <2>. HIDE DEF Enough
  <2>. QED
    BY <2>1, LeastNumber
<1>3. n \in Nat /\ Count(f, d, n) >= i /\ n <= 7 * i
  BY <1>1, <1>2
<1>4. n # 0
  BY <1>3, CountStep
<1>. DEFINE k == n - 1
<1>5. k \in Nat /\ k + 1 = n /\ ~(n <= k) /\ d + k + 1 = d + n
  BY <1>3, <1>4
<1>6. k \notin Enough
  BY <1>2, <1>5
<1>7. ~(Count(f, d, k) >= i)
  BY <1>5, <1>6
<1>. HIDE DEF k, Enough
<1>8. /\ Count(f, d, k) \in Nat
      /\ Count(f, d, k + 1) = Count(f, d, k) + (IF Matches(f, d + k + 1) THEN 1 ELSE 0)
  BY <1>5, CountStep
<1>9. Matches(f, d + n) /\ Count(f, d, n) = i
  BY <1>3, <1>5, <1>7, <1>8
<1>10. n \in 1 .. 7 * i
  BY <1>3, <1>4
<1>. QED
  BY <1>9, <1>10

\* What the loop of nextMatchingDay keeps in left.
Leaves(f, i, d, left) ==
    left = [e \in d .. d + 7 * i |->
              IF e = d THEN i ELSE left[e - 1] - (IF Matches(f, e) THEN 1 ELSE 0)]

LEMMA LeftIsCounted ==
    ASSUME NEW f, NEW i \in Nat, NEW d \in Int, NEW left, Leaves(f, i, d, left)
    PROVE  left = [e \in d .. d + 7 * i |-> i - Count(f, d, e - d)]
<1>. DEFINE Good == {n \in Nat : n <= 7 * i => left[d + n] = i - Count(f, d, n)}
<1>1. 0 \in Good
  <2>1. d + 0 \in d .. d + 7 * i /\ d + 0 = d
    OBVIOUS
  <2>2. left[d] = i
    BY <2>1 DEF Leaves
  <2>3. Count(f, d, 0) = 0
    BY CountStep, 0 \in Nat
  <2>. QED
    BY <2>1, <2>2, <2>3
<1>2. ASSUME NEW n \in Good PROVE n + 1 \in Good
  <2>. SUFFICES ASSUME n + 1 <= 7 * i PROVE left[d + (n + 1)] = i - Count(f, d, n + 1)
    OBVIOUS
  <2>. DEFINE e == d + n + 1
  <2>1. /\ n \in Nat /\ left[d + n] = i - Count(f, d, n)
        /\ e \in d .. d + 7 * i /\ e # d /\ e - 1 = d + n /\ d + (n + 1) = e
    OBVIOUS
  <2>. HIDE DEF e
  <2>2. left[e] = left[e - 1] - (IF Matches(f, e) THEN 1 ELSE 0)
    BY <2>1 DEF Leaves
  <2>3. Count(f, d, n) \in Nat /\ Count(f, d, n + 1) = Count(f, d, n) + (IF Matches(f, e) THEN 1 ELSE 0)
    BY <2>1, CountStep DEF e
  <2>. QED
    BY <2>1, <2>2, <2>3
<1>3. Good = Nat
  <2>1. Good \in SUBSET Nat
    OBVIOUS
  <2>. HIDE DEF Good
  <2>. QED
    BY <1>1, <1>2, <2>1, NumberInduction
<1>4. ASSUME NEW e \in d .. d + 7 * i PROVE left[e] = i - Count(f, d, e - d)
  <2>1. e - d \in Nat /\ e - d <= 7 * i /\ d + (e - d) = e
    OBVIOUS
  <2>2. e - d \in Good
    BY <1>3, <2>1
  <2>. QED
    BY <2>1, <2>2
<1>5. left = [e \in d .. d + 7 * i |-> left[e]]
  BY DEF Leaves
<1>. QED
  BY <1>4, <1>5

LEMMA LeftExists ==
    ASSUME NEW f, NEW i \in Nat, NEW d \in Int
    PROVE  Leaves(f, i, d, [e \in d .. d + 7 * i |-> i - Count(f, d, e - d)])
<1>. DEFINE D == d .. d + 7 * i
            left == [e \in D |-> i - Count(f, d, e - d)]
<1>1. ASSUME NEW e \in D
      PROVE  left[e] = IF e = d THEN i ELSE left[e - 1] - (IF Matches(f, e) THEN 1 ELSE 0)
  <2>1. CASE e = d
    <3>1. e - d = 0 /\ Count(f, d, 0) = 0 /\ left[e] = i - Count(f, d, e - d)
      BY <2>1, CountStep, 0 \in Nat
    <3>. QED
      BY <2>1, <3>1
  <2>2. CASE e # d
    <3>. DEFINE n == e - 1 - d
    <3>1. n \in Nat /\ e - 1 \in D /\ n + 1 = e - d /\ d + n + 1 = e
      BY <2>2
    <3>2. left[e] = i - Count(f, d, n + 1) /\ left[e - 1] = i - Count(f, d, n)
      BY <3>1
    <3>. HIDE DEF n, left, D
    <3>3. /\ Count(f, d, n) \in Nat
          /\ Count(f, d, n + 1) = Count(f, d, n) + (IF Matches(f, d + n + 1) THEN 1 ELSE 0)
      BY <3>1, CountStep
    <3>. QED
      BY <2>2, <3>1, <3>2, <3>3
  <2>. QED
    BY <2>1, <2>2
<1>. QED
  BY <1>1 DEF Leaves

\* The next matching day is the one that has so many matching days behind it.
LEMMA NextMatchingDayCounts ==
    ASSUME NEW f \in {"weekdays", "weekends"}, NEW i \in Nat \ {0}, NEW d \in Int
    PROVE  LET next == NextMatchingDay(f, i, d)
           IN  /\ next \in Int /\ next > d /\ Matches(f, next)
               /\ Count(f, d, next - d) = i
<1>. DEFINE D == d .. d + 7 * i
            left[e \in D] ==
              IF e = d THEN i ELSE left[e - 1] - (IF Matches(f, e) THEN 1 ELSE 0)
            counted == [e \in D |-> i - Count(f, d, e - d)]
            Fits(e) == Matches(f, e) /\ counted[e] = 0
<1>1. NextMatchingDay(f, i, d) = CHOOSE e \in DOMAIN left : Matches(f, e) /\ left[e] = 0
  BY DEF NextMatchingDay
<1>2. left = CHOOSE g : Leaves(f, i, d, g)
  BY DEF Leaves
<1>3. Leaves(f, i, d, left)
  <2>1. \E g : Leaves(f, i, d, g)
    BY LeftExists
  <2>. HIDE DEF left
  <2>. QED
    BY <1>2, <2>1
<1>4. left = counted
  <2>. HIDE DEF left
  <2>. QED
    BY <1>3, LeftIsCounted
<1>. DEFINE next == CHOOSE e \in D : Fits(e)
<1>5. NextMatchingDay(f, i, d) = next
  <2>. HIDE DEF left
  <2>. QED
    BY <1>1, <1>4
<1>6. PICK n \in 1 .. 7 * i : Matches(f, d + n) /\ Count(f, d, n) = i
  BY DayIsFound
<1>7. d + n \in D /\ Fits(d + n)
  <2>1. d + n \in D /\ (d + n) - d = n
    OBVIOUS
  <2>. QED
    BY <1>6, <2>1
<1>8. next \in D /\ Fits(next)
  <2>. HIDE DEF D, Fits
  <2>. QED
    BY <1>7
<1>. HIDE DEF next
<1>9. next - d \in Nat /\ Count(f, d, next - d) = i /\ Matches(f, next)
  <2>1. next - d \in Nat /\ counted[next] = i - Count(f, d, next - d) /\ counted[next] = 0
    BY <1>8
  <2>2. Count(f, d, next - d) \in Nat
    BY <2>1, CountStep
  <2>. HIDE DEF counted
  <2>. QED
    BY <1>8, <2>1, <2>2
<1>10. next # d
  BY <1>9, CountStep, d - d = 0
<1>. QED
  BY <1>5, <1>8, <1>9, <1>10

\* What NextDate does, frequency by frequency.
LEMMA NextDateCases ==
    ASSUME NEW r, NEW i, NEW d
    PROVE  /\ r = "daily" => NextDate(r, i, d) = d + i
           /\ r = "weekly" => NextDate(r, i, d) = d + 7 * i
           /\ r = "monthly" => NextDate(r, i, d) = AddMonths(d, i)
           /\ r = "yearly" => NextDate(r, i, d) = AddMonths(d, 12 * i)
           /\ r \in {"weekdays", "weekends"} => NextDate(r, i, d) = NextMatchingDay(r, i, d)
BY DEF NextDate

\* What TodoSchedule assumes of dates (TimeMovesOn) is true of the calendar: the
\* next date of a repetition is a later one, whatever month it starts in, so
\* that completing a task never leaves it where it is (task.go:309-342).
Calendar == {"daily", "weekly", "monthly", "yearly", "weekdays", "weekends"}

THEOREM CalendarMovesOn ==
    \A r \in Calendar, i \in Nat \ {0}, d \in Dates :
        NextDate(r, i, d) \in Int /\ NextDate(r, i, d) > d
<1>. SUFFICES ASSUME NEW r \in Calendar, NEW i \in Nat \ {0}, NEW d \in Dates
              PROVE  NextDate(r, i, d) \in Int /\ NextDate(r, i, d) > d
  OBVIOUS
<1>1. d \in Int
  BY DatesAreNumbers
<1>2. ASSUME NEW months \in Nat \ {0}
      PROVE  AddMonths(d, months) \in Int /\ AddMonths(d, months) > d
  <2>. DEFINE n == MonthNumber(Civil(d))
              day == Civil(d).day
  <2>1. n \in Int /\ day = d - MonthStart(n) + 1
    BY CivilFits
  <2>2. AddMonths(d, months) = MonthStart(n + months) + day - 1
    BY AddMonthsMoves
  <2>. HIDE DEF n, day
  <2>. DEFINE month == n + months
  <2>3. month \in Int /\ n < month /\ n + 1 \in Int
    BY <2>1
  <2>4. AddMonths(d, months) = MonthStart(month) + day - 1
    BY <2>2
  <2>. HIDE DEF month
  <2>5. MonthStart(n + 1) <= MonthStart(month)
    BY <2>1, <2>3, MonthsInOrder
  <2>6. MonthStart(n + 1) \in Int /\ MonthStart(month) \in Int
    BY <2>3, MonthLengths
  <2>7. MonthStart(n) \in Int /\ MonthStart(n + 1) - MonthStart(n) \in 28 .. 31
    BY <2>1, MonthLengths
  <2>. QED
    BY <1>1, <2>1, <2>4, <2>5, <2>6, <2>7
<1>3. CASE r = "daily" \/ r = "weekly"
  BY <1>1, <1>3, NextDateCases
<1>4. CASE r = "monthly" \/ r = "yearly"
  <2>1. 12 * i \in Nat \ {0}
    OBVIOUS
  <2>. QED
    BY <1>2, <1>4, <2>1, NextDateCases
<1>5. CASE r \in {"weekdays", "weekends"}
  BY <1>1, <1>5, NextMatchingDayCounts, NextDateCases
<1>. QED
  BY <1>3, <1>4, <1>5 DEF Calendar

-----------------------------------------------------------------------------
(* The task that is completed again and again *)

\* The due date of a row and of the next: it stays, or is the next date.
Moved(old, new) ==
    new.due # old.due =>
        /\ old.repeat \in Repeats /\ old.interval \in Intervals /\ old.due \in Dates
        /\ new.due = NextDate(old.repeat, old.interval, old.due)

LEMMA CompletionMoves ==
    ASSUME NEW t \in Task, NEW now \in 0 .. MaxClock
    PROVE  Moved(t, UpdatedTask(t, Completion, now))
<1>. DEFINE u == UpdatedTask(t, Completion, now)
<1>1. Rescheduled(t, Completion) = t
  BY DEF Rescheduled, NamesRepeat, Or, Completion, Task
<1>2. u = t \/ u = CompleteOrAdvanceRepeat(t, now)
  BY <1>1 DEF UpdatedTask, Completion
<1>3. CASE u = t
  <2>. HIDE DEF u
  <2>. QED
    BY <1>3 DEF Moved, u
<1>4. CASE u = CompleteOrAdvanceRepeat(t, now) /\ NextRepeatDate(t) = None
  <2>1. u.due = t.due
    BY <1>4 DEF CompleteOrAdvanceRepeat, ApplyStatus, Task
  <2>. HIDE DEF u
  <2>. QED
    BY <2>1 DEF Moved, u
<1>5. CASE u = CompleteOrAdvanceRepeat(t, now) /\ NextRepeatDate(t) # None
  <2>1. u.due = NextRepeatDate(t)
    BY <1>5 DEF CompleteOrAdvanceRepeat, Task
  <2>. HIDE DEF u
  <2>2. Active(t) /\ t.due # None /\ NextRepeatDate(t) = Following(t.repeat, t.interval, t.due)
    BY <1>5 DEF NextRepeatDate
  <2>3. t.repeat \in Repeats /\ t.interval \in Intervals /\ t.due \in Dates
    BY <2>2 DEF Active, Task, Frequencies, OptionalDate
  <2>. QED
    BY <2>1, <2>2, <2>3, FollowsTheCalendar DEF Moved, u
<1>. QED
  BY <1>2, <1>3, <1>4, <1>5

LEMMA WalkInputs ==
    /\ Completion \in UpdateTaskInput
    /\ Posted \subseteq NewTaskInput
<1>1. Completion \in UpdateTaskInput
  BY DEF Completion, UpdateTaskInput, Statuses
<1>2. LastDate \in Dates
  BY DatesEnd DEF LastDate
<1>. QED
  BY <1>1, <1>2 DEF Posted, NewTaskInput, Statuses, Frequencies, OptionalDate

\* A walk is a use by one client: a POST finds no task, so that no PATCH of
\* one is under way.
WalkInv == SerialInv /\ \A c \in Clients : pc[c] = "update" => Moved(row, pending[c])

LEMMA WalkIsSerial == SerialInv /\ WalkNext => SerialNext
<1>. SUFFICES ASSUME SerialInv, WalkNext PROVE SerialNext
  OBVIOUS
<1>1. ASSUME NEW c \in Clients, Continue(c) PROVE SerialNext
  BY <1>1 DEF SerialNext
<1>2. ASSUME NEW c \in Clients, Complete(c) PROVE SerialNext
  BY <1>2, WalkInputs DEF Complete, SerialNext, Begin
<1>3. ASSUME NEW c \in Clients, Post(c) PROVE SerialNext
  <2>1. row = NoTask /\ \A d \in Clients : pc[d] # "insert"
    BY <1>3 DEF Post, BeginCreate
  <2>2. Quiet
    BY <2>1, MarkersAreNotRows DEF SerialInv, CopyIsFresh, AcceptedInv, TypeOK, Quiet
  <2>. QED
    BY <1>3, <2>2, WalkInputs DEF Post, SerialNext, Begin
<1>. QED
  BY <1>1, <1>2, <1>3 DEF WalkNext

LEMMA WalkStep == WalkInv /\ [WalkNext]_vars => WalkInv'
<1>. SUFFICES ASSUME WalkInv, [WalkNext]_vars PROVE WalkInv'
  OBVIOUS
<1>1. SerialInv'
  BY WalkIsSerial, SerialStep DEF WalkInv
<1>. USE DEF WalkInv
<1>t. TypeOK
  BY DEF SerialInv, AcceptedInv
<1>2. ASSUME NEW c \in Clients, Post(c) PROVE WalkInv'
  <2>1. /\ row' = row /\ pc' = [pc EXCEPT ![c] = "insert"]
        /\ \E t : pending' = [pending EXCEPT ![c] = t]
    BY <1>2 DEF Post, BeginCreate
  <2>. QED
    BY <1>1, <1>t, <2>1 DEF TypeOK
<1>3. ASSUME NEW c \in Clients, Complete(c) PROVE WalkInv'
  <2>1. row \in Task /\ Moved(row, UpdatedTask(row, Completion, clock))
    BY <1>3, <1>t, CompletionMoves DEF Complete, BeginUpdate, TypeOK
  <2>. QED
    BY <1>1, <1>t, <1>3, <2>1 DEF Complete, BeginUpdate, Quiet, TypeOK
<1>4. ASSUME NEW c \in Clients, Continue(c) PROVE WalkInv'
  <2>1. pc[c] # "idle" /\ pc' = [pc EXCEPT ![c] = "idle"]
    BY <1>4 DEF Continue, Insert, Update, Fail, Answer
  <2>2. \A d \in Clients : pc'[d] = "idle"
    BY <1>t, <2>1 DEF TypeOK, SerialInv, OneRequest
  <2>. QED
    BY <1>1, <2>2
<1>5. CASE UNCHANGED vars
  BY <1>1, <1>5 DEF vars
<1>. QED
  BY <1>2, <1>3, <1>4, <1>5 DEF WalkNext

\* A step moves the due date to the next one.
LEMMA WalkMoves ==
    ASSUME WalkInv, [WalkNext]_vars, Advances
    PROVE  /\ Moved(row, row') /\ row'.due \in Dates
           /\ row \in Task /\ row' \in Task /\ row'.due # row.due
<1>1. row \in Task /\ row' \in Task /\ row'.due # row.due
  BY DEF Advances
<1>t. TypeOK /\ \A c \in Clients : pc[c] = "insert" => row = NoTask
  BY DEF WalkInv, SerialInv, AcceptedInv, CopyIsFresh
<1>2. PICK c \in Clients : Post(c) \/ Complete(c) \/ Continue(c)
  BY <1>1 DEF WalkNext, vars
<1>3. ~Post(c) /\ ~Complete(c) /\ ~Fail(c)
  BY <1>1 DEF Post, Complete, BeginCreate, BeginUpdate, Fail
<1>4. ~Insert(c)
  BY <1>1, <1>t, MarkersAreNotRows DEF Insert
<1>5. pc[c] = "update" /\ row' = pending[c]
  BY <1>2, <1>3, <1>4 DEF Continue, Update
<1>6. Moved(row, row')
  BY <1>5 DEF WalkInv
<1>7. row'.due # None
  BY <1>1, <1>6, TimeMovesOn, FollowsTheCalendar, DatesAreNumbers DEF Moved
<1>. QED
  BY <1>1, <1>6, <1>7 DEF Task, OptionalDate

\* From one due date to the next lie exactly as many days, weeks, workdays or
\* weekend days as the interval says (task.go:321-326, 358-373), for every
\* interval and every date of any range of years.
THEOREM WalkCountsEveryDay == WalkSpec => CountsEveryDay
<1>1. Init => WalkInv
  BY SerialInit DEF Init, WalkInv
<1>2. WalkInv /\ [WalkNext]_vars => WalkInv'
  BY WalkStep
<1>3. ASSUME WalkInv, [WalkNext]_vars, Advances
      PROVE  /\ row.repeat = "daily" => row'.due = row.due + row.interval
             /\ row.repeat = "weekly" => row'.due = row.due + 7 * row.interval
             /\ row.repeat \in {"weekdays", "weekends"} =>
                  /\ Matches(row.repeat, row'.due)
                  /\ MatchingDaysPassed = row.interval
  <2>. DEFINE r == row.repeat
              i == row.interval
              d == row.due
  <2>1. /\ row'.due = NextDate(r, i, d) /\ i \in Nat \ {0} /\ d \in Int
    BY <1>3, WalkMoves, IntervalsArePositive, DatesAreNumbers DEF Moved
  <2>2. ASSUME r \in {"weekdays", "weekends"}
        PROVE  Matches(r, row'.due) /\ MatchingDaysPassed = i
    <3>1. row'.due = NextMatchingDay(r, i, d)
      BY <2>1, <2>2, NextDateCases
    <3>2. /\ row'.due \in Int /\ row'.due > d /\ Matches(r, row'.due)
          /\ Count(r, d, row'.due - d) = i
      <4>. HIDE DEF r, i, d
      <4>. QED
        BY <2>1, <2>2, <3>1, NextMatchingDayCounts
    <3>3. d + (row'.due - d) = row'.due
      BY <2>1, <3>2
    <3>4. MatchingDaysPassed = Count(r, d, row'.due - d)
      BY <3>3 DEF MatchingDaysPassed, Count, Passed
    <3>. QED
      BY <3>2, <3>4
  <2>. QED
    BY <2>1, <2>2, NextDateCases
<1>4. WalkInv /\ [WalkNext]_vars =>
        [Advances =>
           /\ row.repeat = "daily" => row'.due = row.due + row.interval
           /\ row.repeat = "weekly" => row'.due = row.due + 7 * row.interval
           /\ row.repeat \in {"weekdays", "weekends"} =>
                /\ Matches(row.repeat, row'.due)
                /\ MatchingDaysPassed = row.interval]_vars
  BY <1>3
<1>. QED
  BY <1>1, <1>2, <1>4, PTL DEF WalkSpec, CountsEveryDay

\* A monthly or yearly task keeps its day, or spills over the end of a month
\* that is too short (task.go:327-330), in every year of any range.
THEOREM WalkKeepsOrSpillsTheDay == WalkSpec => KeepsOrSpillsTheDay
<1>1. Init => WalkInv
  BY SerialInit DEF Init, WalkInv
<1>2. WalkInv /\ [WalkNext]_vars => WalkInv'
  BY WalkStep
<1>3. ASSUME WalkInv, [WalkNext]_vars, Advances, row.repeat \in {"monthly", "yearly"}
      PROVE  MonthlyStep
  <2>. DEFINE months == IF row.repeat = "monthly" THEN row.interval ELSE 12 * row.interval
  <2>1. /\ row'.due = NextDate(row.repeat, row.interval, row.due) /\ row.interval \in Nat
        /\ row.due \in Dates /\ row'.due \in Dates
    BY <1>3, WalkMoves, IntervalsArePositive DEF Moved
  <2>2. months \in Nat /\ row'.due = AddMonths(row.due, months)
    BY <1>3, <2>1, NextDateCases
  <2>. HIDE DEF months
  <2>3. LET old == Civil(row.due)
            new == Civil(row'.due)
            month == MonthNumber(old) + months
            length == LengthOfMonth(month \div 12, (month % 12) + 1)
        IN  /\ old.day <= length => new.day = old.day /\ MonthNumber(new) = month
            /\ old.day > length =>
                 new.day = old.day - length /\ MonthNumber(new) = month + 1
    BY <2>1, <2>2, MonthsAreKept
  <2>. QED
    BY <2>3 DEF MonthlyStep, months
<1>4. WalkInv /\ [WalkNext]_vars =>
        [(Advances /\ row.repeat \in {"monthly", "yearly"}) => MonthlyStep]_vars
  BY <1>3
<1>. QED
  BY <1>1, <1>2, <1>4, PTL DEF WalkSpec, KeepsOrSpillsTheDay

=============================================================================
