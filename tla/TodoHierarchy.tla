---------------------------- MODULE TodoHierarchy ----------------------------
(***************************************************************************)
(* The project tree and the task tree of the todo module: the operations   *)
(* of internal/todo/application/service.go on the rows todo_projects and   *)
(* todo_tasks.  A handler reads a row, checks the project and walks up the *)
(* parents it was given, each with a SELECT of its own, and then writes    *)
(* the whole row; no transaction spans these statements, so the statements *)
(* of concurrent requests interleave.  DeleteProject and DeleteTask are    *)
(* one transaction each.                                                   *)
(*                                                                         *)
(* Projects and tasks run through the same code twice (ensureProjectParent *)
(* and ensureTaskParent differ in the table only), so a row is a project   *)
(* or a task.  Of its columns a row keeps the references: parent and, for  *)
(* a task, project.  A request that changes the other columns only, such   *)
(* as ArchiveProject or a PATCH of the status, still writes these back.    *)
(***************************************************************************)
EXTENDS Naturals, FiniteSets

CONSTANTS
    Projects,   \* ids of todo_projects; BIGSERIAL, so never given out twice
    Tasks,      \* ids of todo_tasks
    Clients,    \* connections, each with at most one request in flight
    NoRow,      \* SQL NULL in a reference column
    Unset       \* an OptionalT field the request leaves out

Rows == Projects \cup Tasks

ASSUME DistinctIds == Projects \cap Tasks = {}
ASSUME MarkersAreNotRows == NoRow \notin Rows /\ Unset \notin Rows /\ NoRow # Unset

VARIABLES
    live,       \* ids with a row
    used,       \* ids the sequences have given out
    row,        \* row[x]: the columns of x
    pc,         \* pc[c]: the statement client c's request executes next
    req,        \* req[c]: what it asks for
    copy,       \* copy[c]: the row it read and will write back
    visited,    \* visited[c]: the ids its walk has read
    next        \* next[c]: the parent id of the last row it read

dbVars == <<live, used, row>>
requestVars == <<pc, req, copy, visited, next>>
vars == <<dbVars, requestVars>>

-----------------------------------------------------------------------------
(* Values *)

\* The table a row belongs to, as the set of its ids.
TableOf(x) == IF x \in Projects THEN Projects ELSE Tasks

Row == [parent : Rows \cup {NoRow}, project : Projects \cup {NoRow}]
EmptyRow == [parent |-> NoRow, project |-> NoRow]

-----------------------------------------------------------------------------
(* The requests the handlers accept.  One that updates a project always    *)
(* sends a parent, NULL included; a PATCH of a task sends any fields.  id  *)
(* is NoRow in a request that creates a row.                               *)

CreateProjectRequests ==
    [table : {Projects}, id : {NoRow}, parent : Projects \cup {NoRow},
     project : {NoRow}]
UpdateProjectRequests ==
    [table : {Projects}, id : Projects, parent : Projects \cup {NoRow},
     project : {Unset}]
\* ArchiveProject and RestoreProject.
ArchiveRequests ==
    [table : {Projects}, id : Projects, parent : {Unset}, project : {Unset}]
CreateTaskRequests ==
    [table : {Tasks}, id : {NoRow}, parent : Tasks \cup {NoRow},
     project : Projects \cup {NoRow}]
UpdateTaskRequests ==
    [table : {Tasks}, id : Tasks, parent : Tasks \cup {NoRow, Unset},
     project : Projects \cup {NoRow, Unset}]

CreateRequests == CreateProjectRequests \cup CreateTaskRequests
UpdateRequests == UpdateProjectRequests \cup ArchiveRequests \cup UpdateTaskRequests
NoRequest == [table |-> Tasks, id |-> NoRow, parent |-> Unset, project |-> Unset]

-----------------------------------------------------------------------------
(* States *)

Statements == {"idle", "check_project", "read_parent", "walk", "write"}

TypeOK ==
    /\ live \in SUBSET Rows
    /\ used \in SUBSET Rows
    /\ row \in [Rows -> Row]
    /\ pc \in [Clients -> Statements]
    /\ req \in [Clients -> CreateRequests \cup UpdateRequests \cup {NoRequest}]
    /\ copy \in [Clients -> Row]
    /\ visited \in [Clients -> SUBSET Rows]
    /\ next \in [Clients -> Rows \cup {NoRow}]
    /\ \A x \in Rows : row[x].parent \in TableOf(x) \cup {NoRow}
    /\ \A p \in Projects : row[p].project = NoRow
    /\ \A c \in Clients :
         /\ copy[c].parent \in req[c].table \cup {NoRow}
         /\ req[c].table = Projects => copy[c].project = NoRow
         /\ visited[c] \subseteq req[c].table
         /\ next[c] \in req[c].table \cup {NoRow}

\* Empty tables; the project migration 000010 adds may as well come later.
Init ==
    /\ live = {}
    /\ used = {}
    /\ row = [x \in Rows |-> EmptyRow]
    /\ pc = [c \in Clients |-> "idle"]
    /\ req = [c \in Clients |-> NoRequest]
    /\ copy = [c \in Clients |-> EmptyRow]
    /\ visited = [c \in Clients |-> {}]
    /\ next = [c \in Clients |-> NoRow]

-----------------------------------------------------------------------------
(* Requests *)

\* The statement that follows the checks already made.
AfterProject(q) == IF q.parent \in Rows THEN "read_parent" ELSE "write"
AfterRead(q) == IF q.project \in Projects THEN "check_project" ELSE AfterProject(q)

Goto(c, l) == pc' = [pc EXCEPT ![c] = l]

\* The handler answers: with the row, ErrNotFound, ErrInvalidHierarchy or 500.
Answer(c) ==
    /\ pc' = [pc EXCEPT ![c] = "idle"]
    /\ req' = [req EXCEPT ![c] = NoRequest]
    /\ copy' = [copy EXCEPT ![c] = EmptyRow]
    /\ visited' = [visited EXCEPT ![c] = {}]
    /\ next' = [next EXCEPT ![c] = NoRow]

BeginCreate(c, q) ==
    /\ pc[c] = "idle"
    /\ req' = [req EXCEPT ![c] = q]
    /\ Goto(c, AfterRead(q))
    /\ UNCHANGED <<dbVars, copy, visited, next>>

\* GetProject or GetTask; a row that is not there answers ErrNotFound.
BeginUpdate(c, q) ==
    /\ pc[c] = "idle"
    /\ q.id \in live
    /\ req' = [req EXCEPT ![c] = q]
    /\ copy' = [copy EXCEPT ![c] = row[q.id]]
    /\ Goto(c, AfterRead(q))
    /\ UNCHANGED <<dbVars, visited, next>>

\* ensureProjectExists
CheckProject(c) ==
    /\ pc[c] = "check_project"
    /\ IF req[c].project \in live
         THEN Goto(c, AfterProject(req[c])) /\ UNCHANGED <<req, copy, visited, next>>
         ELSE Answer(c)
    /\ UNCHANGED dbVars

\* Slip: the scan takes project_id for the parent's column.
ReadProjectAsParent(c, x) ==
    /\ visited' = [visited EXCEPT ![c] = @ \cup {x}]
    /\ next' = [next EXCEPT ![c] = row[x].project]
    /\ Goto(c, IF row[x].project = NoRow THEN "write" ELSE "walk")
    /\ UNCHANGED <<req, copy>>

\* The SELECT of row x by the walk of ensureProjectParent or ensureTaskParent.
ReadParent(c, x) ==
    /\ visited' = [visited EXCEPT ![c] = @ \cup {x}]
    /\ next' = [next EXCEPT ![c] = row[x].parent]
    /\ Goto(c, IF row[x].parent = NoRow THEN "write" ELSE "walk")
    /\ UNCHANGED <<req, copy>>

\* The first row of the walk: the parent the request names.
StartWalk(c) ==
    /\ pc[c] = "read_parent"
    /\ IF req[c].parent # req[c].id /\ req[c].parent \in live
         THEN ReadParent(c, req[c].parent)
         ELSE Answer(c)
    /\ UNCHANGED dbVars

\* Slip: the walk does not compare an ancestor with the row being moved.
WalkWithoutSelf(c) ==
    /\ pc[c] = "walk"
    /\ IF next[c] \notin visited[c] /\ next[c] \in live
         THEN ReadParent(c, next[c])
         ELSE Answer(c)
    /\ UNCHANGED dbVars

\* Slip: the walk does not remember the rows it has read.
WalkWithoutVisited(c) ==
    /\ pc[c] = "walk"
    /\ IF next[c] # req[c].id /\ next[c] \in live
         THEN ReadParent(c, next[c])
         ELSE Answer(c)
    /\ UNCHANGED dbVars

\* One turn of the loop, up to the row without a parent.
Walk(c) ==
    /\ pc[c] = "walk"
    /\ IF next[c] # req[c].id /\ next[c] \notin visited[c] /\ next[c] \in live
         THEN ReadParent(c, next[c])
         ELSE Answer(c)
    /\ UNCHANGED dbVars

-----------------------------------------------------------------------------
(* Writes *)

\* A field the request leaves out keeps the column as it was read.
FieldOrColumn(field, column) == IF field = Unset THEN column ELSE field

NewRow(c) ==
    [parent  |-> FieldOrColumn(req[c].parent, copy[c].parent),
     project |-> FieldOrColumn(req[c].project, copy[c].project)]

\* Slip: the references are columns without a foreign key.
WithoutForeignKeys(r) == r \in Row
\* The foreign keys of parent_project_id, parent_task_id and project_id.  The
\* CHECK that a row is not its own parent is left out: StartWalk sees to it.
ForeignKeysHold(r) ==
    /\ r.parent \in live \cup {NoRow}
    /\ r.project \in live \cup {NoRow}

\* INSERT with the next id of the sequence.
Insert(c, x) ==
    /\ pc[c] = "write"
    /\ req[c].id = NoRow
    /\ x \in req[c].table \ used
    /\ ForeignKeysHold(NewRow(c))
    /\ used' = used \cup {x}
    /\ live' = live \cup {x}
    /\ row' = [row EXCEPT ![x] = NewRow(c)]
    /\ Answer(c)

\* UPDATE of every column of the row.
Update(c) ==
    /\ pc[c] = "write"
    /\ req[c].id \in live
    /\ ForeignKeysHold(NewRow(c))
    /\ row' = [row EXCEPT ![req[c].id] = NewRow(c)]
    /\ UNCHANGED <<live, used>>
    /\ Answer(c)

\* A statement fails: a foreign key does not hold or the row went
\* (ErrNotFound), the client went away and its context is cancelled, the
\* database is down, or the process dies.  Nothing was written before.
Fail(c) ==
    /\ pc[c] # "idle"
    /\ Answer(c)
    /\ UNCHANGED dbVars

\* Rows in the set xs go: references to them become NULL.
RemoveRows(xs) ==
    /\ live' = live \ xs
    /\ row' = [x \in Rows |->
                 IF x \in xs THEN EmptyRow
                 ELSE [row[x] EXCEPT !.parent = IF @ \in xs THEN NoRow ELSE @]]
    /\ UNCHANGED used

\* DeleteProject: its tasks go, wherever they stand in the task tree, and its
\* subprojects become top-level projects; only tasks have a project column.
DeleteProject(p) ==
    /\ p \in live
    /\ RemoveRows({p} \cup {t \in live : row[t].project = p})
    /\ UNCHANGED requestVars

\* DeleteTask: its subtasks become top-level tasks.
DeleteTask(t) ==
    /\ t \in live
    /\ RemoveRows({t})
    /\ UNCHANGED requestVars

-----------------------------------------------------------------------------
(* Specifications *)

Delete == (\E p \in Projects : DeleteProject(p)) \/ (\E t \in Tasks : DeleteTask(t))

Begin(c) ==
    \/ \E q \in CreateRequests : BeginCreate(c, q)
    \/ \E q \in UpdateRequests : BeginUpdate(c, q)

Continue(c) ==
    \/ CheckProject(c)
    \/ StartWalk(c)
    \/ Walk(c)
    \/ \E x \in Rows : Insert(c, x)
    \/ Update(c)
    \/ Fail(c)

Next == Delete \/ \E c \in Clients : Begin(c) \/ Continue(c)

Spec == Init /\ [][Next]_vars

\* A goroutine in a request takes its next step; nothing is assumed of users.
FairSpec == Spec /\ \A c \in Clients : WF_vars(Continue(c))

\* The same program used by one client that waits for every answer.
Quiet == \A c \in Clients : pc[c] = "idle"
SerialNext ==
    \/ Quiet /\ (Delete \/ \E c \in Clients : Begin(c))
    \/ \E c \in Clients : Continue(c)
SerialSpec == Init /\ [][SerialNext]_vars

-----------------------------------------------------------------------------
(* Properties *)

\* Every reference of a row leads to a row of the right table, also when the
\* parent a walk has just approved, or the project a handler has just found,
\* is deleted before the write (service.go:340-414, repository.go:108-138).
ReferencesExist ==
    \A x \in live :
        /\ row[x].parent \in (live \cap TableOf(x)) \cup {NoRow}
        /\ row[x].project \in (live \cap Projects) \cup {NoRow}
        /\ row[x].parent # x

\* No set of rows in which every row hangs under another of the set: the
\* parents form a forest, as they do for one client that waits for answers.  The web pages draw rows from the roots down
\* (buildTree.ts), so a row on a cycle is a row nobody sees.
Acyclic ==
    \A C \in (SUBSET live) \ {{}} : \E x \in C : row[x].parent \notin C

\* The write of c rests on a parent that has changed since c read it: the one
\* the write keeps, or that of a row its walk has been at, which now leads to
\* a row the walk has not seen.
HasReadStale(c) ==
    IF req[c].parent = Unset
      THEN copy[c].parent # row[req[c].id].parent
      ELSE \E x \in visited[c] : row[x].parent \notin visited[c] \cup {NoRow}

\* Whatever overlaps, a cycle is closed by a write that rests on a parent read
\* too early, and by no other step: a walk that is up to date refuses every
\* move that would close one, and neither a deletion nor an insert does
\* (service.go:357-414).
CyclesNeedStaleReads ==
    [][Acyclic /\ ~Acyclic' =>
         \E c \in Clients : pc[c] = "write" /\ pc'[c] = "idle" /\ HasReadStale(c)]_vars

\* A task changes its parent or its project only for a request that sends
\* the field, or because the row it refers to goes: the OptionalT fields of
\* PATCH /tasks/{id} "leave it untouched" (docs/audit/current-state.md:64).
AskedFor(x, field) ==
    \E c \in Clients :
        pc[c] = "write" /\ pc'[c] = "idle" /\ req[c].id = x /\ req[c][field] # Unset
PatchLeavesTheRest ==
    [][\A x \in live \cap live' \cap Tasks :
         /\ row'[x].parent # row[x].parent =>
              AskedFor(x, "parent") \/ row[x].parent \notin live'
         /\ row'[x].project # row[x].project => AskedFor(x, "project")]_vars

\* Every request is answered, also the one that walks up a cycle two other
\* requests have closed: the walk stops at the first row it meets again.
EveryRequestIsAnswered == \A c \in Clients : pc[c] # "idle" ~> pc[c] = "idle"

=============================================================================
