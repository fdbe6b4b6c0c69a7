------------------------- MODULE TodoHierarchyProofs -------------------------
(***************************************************************************)
(* Theorems about TodoHierarchy, for any number of projects, tasks and     *)
(* clients.  References stay sound under every interleaving.  The parents  *)
(* stay a forest as long as requests do not overlap, and when they do only *)
(* a write that rests on a stale read can close a cycle.                   *)
(***************************************************************************)
EXTENDS TodoHierarchy, TLAPS

Requests == CreateRequests \cup UpdateRequests \cup {NoRequest}

-----------------------------------------------------------------------------
(* Typing *)

\* What a request asks for stays in its table.
LEMMA RequestFields ==
    ASSUME NEW q \in Requests
    PROVE  /\ q.table \in {Projects, Tasks}
           /\ q.id \in q.table \cup {NoRow}
           /\ q.parent \in q.table \cup {NoRow, Unset}
           /\ q.project \in Projects \cup {NoRow, Unset}
           /\ q.id \in Rows => q.table = TableOf(q.id)
           /\ q.table = Projects => q.project \in {NoRow, Unset}
BY DistinctIds, MarkersAreNotRows
   DEF Requests, CreateRequests, UpdateRequests, NoRequest, CreateProjectRequests,
       UpdateProjectRequests, ArchiveRequests, CreateTaskRequests,
       UpdateTaskRequests, Rows, TableOf

\* A request that creates sends every field.
LEMMA CreatesAreComplete ==
    ASSUME NEW q \in CreateRequests \cup UpdateRequests, q.id = NoRow
    PROVE  q.parent # Unset /\ q.project # Unset
BY MarkersAreNotRows
   DEF CreateRequests, UpdateRequests, CreateProjectRequests,
       UpdateProjectRequests, ArchiveRequests, CreateTaskRequests,
       UpdateTaskRequests, Rows

\* A client without a request holds nothing of an earlier one.
IdleIsBlank ==
    \A c \in Clients : pc[c] = "idle" =>
        /\ req[c] = NoRequest
        /\ copy[c] = EmptyRow
        /\ visited[c] = {}
        /\ next[c] = NoRow

Typing == TypeOK /\ IdleIsBlank

LEMMA InitTyping == Init => Typing
BY MarkersAreNotRows
   DEF Init, Typing, TypeOK, IdleIsBlank, Statements, EmptyRow, Row, NoRequest,
       Rows, TableOf

\* The part of the typing invariant that is about the database.
RowsTyped ==
    /\ live \in SUBSET Rows
    /\ used \in SUBSET Rows
    /\ row \in [Rows -> Row]
    /\ \A x \in Rows : row[x].parent \in TableOf(x) \cup {NoRow}
    /\ \A p \in Projects : row[p].project = NoRow

\* Answering blanks the request, whatever happens to the rows.
LEMMA AnswerTyping ==
    ASSUME Typing, NEW c \in Clients, Answer(c), RowsTyped'
    PROVE  Typing'
BY DEF Typing, TypeOK, IdleIsBlank, RowsTyped, Answer, Statements, EmptyRow,
       Row, NoRequest

LEMMA BeginTyping ==
    ASSUME Typing, NEW c \in Clients, Begin(c)
    PROVE  Typing'
<1>1. ASSUME NEW q \in CreateRequests, BeginCreate(c, q)
      PROVE  Typing'
  <2>1. q \in Requests /\ AfterRead(q) \in Statements \ {"idle"}
    BY DEF Requests, AfterRead, AfterProject, Statements
  <2>2. pc' = [pc EXCEPT ![c] = AfterRead(q)] /\ req' = [req EXCEPT ![c] = q]
    BY <1>1 DEF BeginCreate, Goto
  <2>3. pc[c] = "idle" /\ UNCHANGED <<live, used, row, copy, visited, next>>
    BY <1>1 DEF BeginCreate, dbVars
  <2>4. /\ copy[c].parent = NoRow /\ copy[c].project = NoRow
        /\ visited[c] = {} /\ next[c] = NoRow
    BY <2>3 DEF Typing, IdleIsBlank, EmptyRow
  <2>. QED
    BY <2>1, <2>2, <2>3, <2>4 DEF Typing, TypeOK, IdleIsBlank
<1>2. ASSUME NEW q \in UpdateRequests, BeginUpdate(c, q)
      PROVE  Typing'
  <2>1. q \in Requests /\ AfterRead(q) \in Statements \ {"idle"}
    BY DEF Requests, AfterRead, AfterProject, Statements
  <2>2. /\ pc' = [pc EXCEPT ![c] = AfterRead(q)]
        /\ req' = [req EXCEPT ![c] = q]
        /\ copy' = [copy EXCEPT ![c] = row[q.id]]
    BY <1>2 DEF BeginUpdate, Goto
  <2>3. /\ pc[c] = "idle" /\ q.id \in live
        /\ UNCHANGED <<live, used, row, visited, next>>
    BY <1>2 DEF BeginUpdate, dbVars
  <2>4. visited[c] = {} /\ next[c] = NoRow
    BY <2>3 DEF Typing, IdleIsBlank
  <2>5. q.id \in Rows /\ row[q.id] \in Row /\ row[q.id].parent \in q.table \cup {NoRow}
    BY <2>1, <2>3, RequestFields DEF Typing, TypeOK
  <2>6. q.table = Projects => row[q.id].project = NoRow
    BY <2>1, <2>5, RequestFields, MarkersAreNotRows DEF Typing, TypeOK
  <2>. QED
    BY <2>1, <2>2, <2>3, <2>4, <2>5, <2>6 DEF Typing, TypeOK, IdleIsBlank
<1>. QED
  BY <1>1, <1>2 DEF Begin

LEMMA ReadParentTyping ==
    ASSUME Typing, NEW c \in Clients, NEW x \in live, x \in req[c].table,
           pc[c] # "idle", ReadParent(c, x), UNCHANGED dbVars
    PROVE  Typing'
<1>1. x \in Rows /\ req[c] \in Requests
  BY DEF Typing, TypeOK, Requests
<1>2. req[c].table = TableOf(x)
  BY <1>1, RequestFields, DistinctIds DEF TableOf, Rows
<1>3. row[x].parent \in (req[c].table \cup {NoRow}) \cap (Rows \cup {NoRow})
  BY <1>1, <1>2 DEF Typing, TypeOK, Rows, TableOf
<1>4. /\ visited' = [visited EXCEPT ![c] = @ \cup {x}]
      /\ next' = [next EXCEPT ![c] = row[x].parent]
      /\ pc' \in {[pc EXCEPT ![c] = "write"], [pc EXCEPT ![c] = "walk"]}
      /\ UNCHANGED <<live, used, row, req, copy>>
  BY DEF ReadParent, Goto, dbVars
<1>. QED
  BY <1>1, <1>3, <1>4 DEF Typing, TypeOK, IdleIsBlank, Statements

\* What is written has the columns of its table.
LEMMA NewRowTyped ==
    ASSUME Typing, NEW c \in Clients
    PROVE  /\ NewRow(c).project \in Projects \cup {NoRow}
           /\ NewRow(c).parent \in req[c].table \cup {NoRow}
           /\ req[c].table = Projects => NewRow(c).project = NoRow
<1>1. /\ req[c] \in Requests /\ copy[c] \in Row
      /\ copy[c].parent \in req[c].table \cup {NoRow}
      /\ req[c].table = Projects => copy[c].project = NoRow
  BY DEF Typing, TypeOK, Requests
<1>. QED
  BY <1>1, RequestFields DEF NewRow, FieldOrColumn, Row

LEMMA WriteTyped ==
    ASSUME Typing, NEW c \in Clients, NEW x \in Rows, x \in req[c].table,
           ForeignKeysHold(NewRow(c)),
           row' = [row EXCEPT ![x] = NewRow(c)],
           live' \in SUBSET Rows, used' \in SUBSET Rows
    PROVE  RowsTyped'
<1>1. req[c] \in Requests
  BY DEF Typing, TypeOK, Requests
<1>2. TableOf(x) = req[c].table
  BY <1>1, RequestFields, DistinctIds DEF TableOf, Rows
<1>3. NewRow(c).parent \in Rows \cup {NoRow}
  BY DEF ForeignKeysHold, Typing, TypeOK
<1>4. NewRow(c).parent \in TableOf(x) \cup {NoRow} /\ NewRow(c).project \in Projects \cup {NoRow}
  BY <1>2, <1>3, NewRowTyped, MarkersAreNotRows
<1>5. NewRow(c) \in Row
  BY <1>3, <1>4 DEF NewRow, Row
<1>6. x \in Projects => NewRow(c).project = NoRow
  BY <1>2, NewRowTyped DEF TableOf
<1>. QED
  BY <1>4, <1>5, <1>6 DEF RowsTyped, Typing, TypeOK

LEMMA ContinueTyping ==
    ASSUME Typing, NEW c \in Clients, Continue(c)
    PROVE  Typing'
<1>a. RowsTyped /\ req[c] \in Requests
  BY DEF Typing, TypeOK, RowsTyped, Requests
<1>b. ASSUME UNCHANGED dbVars
      PROVE  RowsTyped'
  BY <1>a, <1>b DEF RowsTyped, dbVars
<1>1. CASE CheckProject(c)
  <2>1. CASE Answer(c)
    BY <1>1, <1>b, <2>1, AnswerTyping DEF CheckProject
  <2>2. CASE Goto(c, AfterProject(req[c])) /\ UNCHANGED <<req, copy, visited, next>>
    <3>1. AfterProject(req[c]) \in Statements \ {"idle"}
      BY DEF AfterProject, Statements
    <3>2. /\ pc' = [pc EXCEPT ![c] = AfterProject(req[c])]
          /\ UNCHANGED <<live, used, row, req, copy, visited, next>>
          /\ pc[c] = "check_project"
      BY <1>1, <2>2 DEF CheckProject, Goto, dbVars
    <3>. QED
      BY <3>1, <3>2 DEF Typing, TypeOK, IdleIsBlank
  <2>. QED
    BY <1>1, <2>1, <2>2 DEF CheckProject
<1>2. CASE StartWalk(c)
  <2>1. CASE Answer(c)
    BY <1>2, <1>b, <2>1, AnswerTyping DEF StartWalk
  <2>2. CASE req[c].parent \in live /\ ReadParent(c, req[c].parent)
    <3>1. req[c].parent \in req[c].table
      BY <1>a, <2>2, RequestFields, MarkersAreNotRows DEF Typing, TypeOK
    <3>. QED
      BY <1>2, <2>2, <3>1, ReadParentTyping DEF StartWalk
  <2>. QED
    BY <1>2, <2>1, <2>2 DEF StartWalk
<1>3. CASE Walk(c)
  <2>1. CASE Answer(c)
    BY <1>3, <1>b, <2>1, AnswerTyping DEF Walk
  <2>2. CASE next[c] \in live /\ ReadParent(c, next[c])
    <3>1. next[c] \in req[c].table
      BY <2>2, MarkersAreNotRows DEF Typing, TypeOK
    <3>. QED
      BY <1>3, <2>2, <3>1, ReadParentTyping DEF Walk
  <2>. QED
    BY <1>3, <2>1, <2>2 DEF Walk
<1>4. ASSUME NEW x \in Rows, Insert(c, x)
      PROVE  Typing'
  <2>1. live' \in SUBSET Rows /\ used' \in SUBSET Rows
    BY <1>4 DEF Insert, Typing, TypeOK
  <2>. QED
    BY <1>4, <2>1, WriteTyped, AnswerTyping DEF Insert
<1>5. CASE Update(c)
  <2>1. /\ req[c].id \in Rows
        /\ live' \in SUBSET Rows /\ used' \in SUBSET Rows
    BY <1>5 DEF Update, Typing, TypeOK
  <2>2. req[c].id \in req[c].table
    BY <1>a, <2>1, RequestFields, MarkersAreNotRows
  <2>. QED
    BY <1>5, <2>1, <2>2, WriteTyped, AnswerTyping DEF Update
<1>6. CASE Fail(c)
  BY <1>6, <1>b, AnswerTyping DEF Fail
<1>. QED
  BY <1>1, <1>2, <1>3, <1>4, <1>5, <1>6 DEF Continue

LEMMA DeleteTyping ==
    ASSUME Typing, Delete
    PROVE  Typing'
<1>1. PICK xs \in SUBSET Rows : RemoveRows(xs)
  <2>1. ASSUME NEW p \in Projects, DeleteProject(p)
        PROVE  \E xs \in SUBSET Rows : RemoveRows(xs)
    BY <2>1 DEF DeleteProject, Rows, Typing, TypeOK
  <2>2. ASSUME NEW t \in Tasks, DeleteTask(t)
        PROVE  \E xs \in SUBSET Rows : RemoveRows(xs)
    BY <2>2 DEF DeleteTask, Rows
  <2>. QED
    BY <2>1, <2>2 DEF Delete
<1>2. UNCHANGED <<pc, req, copy, visited, next>>
  BY DEF Delete, DeleteProject, DeleteTask, requestVars
<1>3. RowsTyped'
  <2>1. live' \in SUBSET Rows /\ used' \in SUBSET Rows
    BY <1>1 DEF RemoveRows, Typing, TypeOK
  <2>2. ASSUME NEW x \in Rows
        PROVE  row'[x] \in Row /\ row'[x].parent \in TableOf(x) \cup {NoRow}
    BY <1>1 DEF RemoveRows, Typing, TypeOK, Row, EmptyRow
  <2>3. row' = [x \in Rows |-> row'[x]]
    BY <1>1 DEF RemoveRows
  <2>4. ASSUME NEW p \in Projects
        PROVE  row'[p].project = NoRow
    BY <1>1 DEF RemoveRows, Typing, TypeOK, Row, Rows, EmptyRow
  <2>. QED
    BY <2>1, <2>2, <2>3, <2>4 DEF RowsTyped
<1>. QED
  BY <1>2, <1>3 DEF Typing, TypeOK, RowsTyped, IdleIsBlank

LEMMA TypingStep == Typing /\ [Next]_vars => Typing'
<1>1. CASE UNCHANGED vars
  BY <1>1 DEF Typing, TypeOK, IdleIsBlank, vars, dbVars, requestVars
<1>. QED
  BY <1>1, BeginTyping, ContinueTyping, DeleteTyping DEF Next

\* Type correctness of the rows and of the state of every handler
\* (service.go:90-414, repository.go:54-274).
THEOREM TypeCorrect == Spec => []TypeOK
<1>1. Spec => []Typing
  BY InitTyping, TypingStep, PTL DEF Spec
<1>. QED
  BY <1>1, PTL DEF Typing

-----------------------------------------------------------------------------
(* References *)

\* A handler that goes on to write has not chosen the row as its own parent,
\* and the row it read had not either.
NoSelfPending ==
    \A c \in Clients : pc[c] # "idle" /\ req[c].id \in Rows =>
        /\ copy[c].parent # req[c].id
        /\ pc[c] \in {"walk", "write"} => req[c].parent # req[c].id

Referential ==
    /\ ReferencesExist
    /\ live \subseteq used
    /\ NoSelfPending

LEMMA InitReferential == Init => Referential
BY DEF Init, Referential, ReferencesExist, NoSelfPending

\* Steps that leave the rows alone keep the references.
LEMMA BeginReferential ==
    ASSUME Typing, Referential, NEW c \in Clients, Begin(c)
    PROVE  Referential'
<1>1. ASSUME NEW q \in Requests,
             pc' = [pc EXCEPT ![c] = AfterRead(q)],
             req' = [req EXCEPT ![c] = q],
             UNCHANGED dbVars,
             q.id \in Rows => copy'[c].parent # q.id,
             \A d \in Clients \ {c} : copy'[d] = copy[d]
      PROVE  Referential'
  <2>1. (ReferencesExist /\ live \subseteq used)'
    BY <1>1 DEF Referential, ReferencesExist, dbVars
  <2>2. pc'[c] = "write" /\ q.id \in Rows => q.parent # q.id
    BY <1>1 DEF Typing, TypeOK, AfterRead, AfterProject
  <2>3. pc'[c] # "walk"
    BY <1>1 DEF Typing, TypeOK, AfterRead, AfterProject
  <2>4. NoSelfPending'
    BY <1>1, <2>2, <2>3 DEF Referential, NoSelfPending, Typing, TypeOK
  <2>. QED
    BY <2>1, <2>4 DEF Referential
<1>2. ASSUME NEW q \in CreateRequests, BeginCreate(c, q)
      PROVE  Referential'
  <2>1. q \in Requests /\ q.id \notin Rows
    BY MarkersAreNotRows
       DEF Requests, CreateRequests, CreateProjectRequests, CreateTaskRequests
  <2>. QED
    BY <1>1, <1>2, <2>1 DEF BeginCreate, Goto
<1>3. ASSUME NEW q \in UpdateRequests, BeginUpdate(c, q)
      PROVE  Referential'
  <2>1. q \in Requests /\ q.id \in live /\ copy' = [copy EXCEPT ![c] = row[q.id]]
    BY <1>3 DEF Requests, BeginUpdate
  <2>2. copy'[c].parent # q.id /\ \A d \in Clients \ {c} : copy'[d] = copy[d]
    BY <2>1 DEF Referential, ReferencesExist, Typing, TypeOK
  <2>. QED
    BY <1>1, <1>3, <2>1, <2>2 DEF BeginUpdate, Goto
<1>. QED
  BY <1>2, <1>3 DEF Begin

\* Answering keeps the other requests.
LEMMA AnswerReferential ==
    ASSUME Typing, Referential, NEW c \in Clients, Answer(c),
           (ReferencesExist /\ live \subseteq used)'
    PROVE  Referential'
BY DEF Typing, TypeOK, Referential, NoSelfPending, Answer

\* A row whose references hold and that is not its own parent may be written.
LEMMA WriteReferential ==
    ASSUME Typing, Referential, NEW c \in Clients, NEW x \in Rows,
           x \in req[c].table, Answer(c),
           ForeignKeysHold(NewRow(c)), NewRow(c).parent # x,
           row' = [row EXCEPT ![x] = NewRow(c)],
           live' = live \cup {x}, used' = used \cup {x}
    PROVE  Referential'
<1>1. req[c] \in Requests
  BY DEF Typing, TypeOK, Requests
<1>2. TableOf(x) = req[c].table
  BY <1>1, RequestFields, DistinctIds DEF TableOf, Rows
<1>3. NewRow(c).parent \in (live \cap TableOf(x)) \cup {NoRow}
  BY <1>2, NewRowTyped, MarkersAreNotRows DEF ForeignKeysHold, Typing, TypeOK
<1>4. NewRow(c).project \in (live \cap Projects) \cup {NoRow}
  BY NewRowTyped DEF ForeignKeysHold
<1>5. ReferencesExist'
  <2>. SUFFICES ASSUME NEW y \in live'
                PROVE  /\ row'[y].parent \in (live' \cap TableOf(y)) \cup {NoRow}
                       /\ row'[y].project \in (live' \cap Projects) \cup {NoRow}
                       /\ row'[y].parent # y
    BY DEF ReferencesExist
  <2>1. CASE y = x
    BY <1>3, <1>4, <2>1 DEF Typing, TypeOK
  <2>2. CASE y # x
    BY <2>2 DEF Referential, ReferencesExist, Typing, TypeOK
  <2>. QED
    BY <2>1, <2>2
<1>. QED
  BY <1>5, AnswerReferential DEF Referential

LEMMA ContinueReferential ==
    ASSUME Typing, Referential, NEW c \in Clients, Continue(c)
    PROVE  Referential'
<1>a. req[c] \in Requests
  BY DEF Typing, TypeOK, Requests
<1>b. ASSUME UNCHANGED dbVars
      PROVE  (ReferencesExist /\ live \subseteq used)'
  BY <1>b DEF Referential, ReferencesExist, dbVars
<1>c. ASSUME UNCHANGED dbVars, UNCHANGED <<req, copy>>,
             NEW l \in Statements, pc' = [pc EXCEPT ![c] = l], pc[c] # "idle",
             l \in {"walk", "write"} => req[c].parent # req[c].id \/ req[c].id \notin Rows
      PROVE  Referential'
  BY <1>b, <1>c DEF Referential, NoSelfPending, Typing, TypeOK
<1>1. CASE CheckProject(c)
  <2>1. CASE Answer(c)
    BY <1>1, <1>b, <2>1, AnswerReferential DEF CheckProject
  <2>2. CASE Goto(c, AfterProject(req[c])) /\ UNCHANGED <<req, copy, visited, next>>
    BY <1>1, <1>c, <2>2 DEF CheckProject, Goto, AfterProject, Statements
  <2>. QED
    BY <1>1, <2>1, <2>2 DEF CheckProject
<1>2. CASE StartWalk(c)
  <2>1. CASE Answer(c)
    BY <1>2, <1>b, <2>1, AnswerReferential DEF StartWalk
  <2>2. CASE req[c].parent # req[c].id /\ ReadParent(c, req[c].parent)
    BY <1>2, <1>c, <2>2 DEF StartWalk, ReadParent, Goto, Statements
  <2>. QED
    BY <1>2, <2>1, <2>2 DEF StartWalk
<1>3. CASE Walk(c)
  <2>1. CASE Answer(c)
    BY <1>3, <1>b, <2>1, AnswerReferential DEF Walk
  <2>2. CASE ReadParent(c, next[c])
    BY <1>3, <1>c, <2>2 DEF Walk, ReadParent, Goto, Statements, Referential, NoSelfPending
  <2>. QED
    BY <1>3, <2>1, <2>2 DEF Walk
<1>4. ASSUME NEW x \in Rows, Insert(c, x)
      PROVE  Referential'
  <2>1. NewRow(c).parent # x
    BY <1>4, MarkersAreNotRows DEF Insert, ForeignKeysHold, Referential, Typing, TypeOK
  <2>. QED
    BY <1>4, <2>1, WriteReferential DEF Insert
<1>5. CASE Update(c)
  <2>1. req[c].id \in Rows /\ req[c].id \in req[c].table
    BY <1>a, <1>5, RequestFields, MarkersAreNotRows DEF Update, Typing, TypeOK
  <2>2. NewRow(c).parent # req[c].id
    BY <1>5, <2>1 DEF Update, NewRow, FieldOrColumn, Referential, NoSelfPending
  <2>3. live' = live \cup {req[c].id} /\ used' = used \cup {req[c].id}
    BY <1>5 DEF Update, Referential
  <2>. QED
    BY <1>5, <2>1, <2>2, <2>3, WriteReferential DEF Update
<1>6. CASE Fail(c)
  BY <1>6, <1>b, AnswerReferential DEF Fail
<1>. QED
  BY <1>1, <1>2, <1>3, <1>4, <1>5, <1>6 DEF Continue

\* Rows may go when the tasks of the projects among them go with them.
LEMMA RemoveReferential ==
    ASSUME Typing, Referential, NEW xs \in SUBSET Rows, RemoveRows(xs),
           \A t \in live : row[t].project \in xs => t \in xs,
           UNCHANGED requestVars
    PROVE  Referential'
<1>1. live' = live \ xs /\ used' = used
  BY DEF RemoveRows
<1>2. ASSUME NEW x \in live'
      PROVE  /\ row'[x].project = row[x].project
             /\ row'[x].parent = IF row[x].parent \in xs THEN NoRow ELSE row[x].parent
  BY <1>1, <1>2 DEF RemoveRows, Typing, TypeOK, Row
<1>3. ReferencesExist'
  <2>. SUFFICES ASSUME NEW x \in live'
                PROVE  /\ row'[x].parent \in (live' \cap TableOf(x)) \cup {NoRow}
                       /\ row'[x].project \in (live' \cap Projects) \cup {NoRow}
                       /\ row'[x].parent # x
    BY DEF ReferencesExist
  <2>1. /\ row[x].parent \in (live \cap TableOf(x)) \cup {NoRow}
        /\ row[x].project \in (live \cap Projects) \cup {NoRow}
        /\ row[x].parent # x
        /\ x \in Rows
    BY <1>1 DEF Referential, ReferencesExist, Typing, TypeOK
  <2>2. row[x].project \notin xs
    BY <1>1
  <2>. QED
    BY <1>1, <1>2, <2>1, <2>2, MarkersAreNotRows
<1>4. NoSelfPending'
  BY DEF Referential, NoSelfPending, requestVars
<1>. QED
  BY <1>1, <1>3, <1>4 DEF Referential

LEMMA DeleteReferential ==
    ASSUME Typing, Referential, Delete
    PROVE  Referential'
<1>1. ASSUME NEW p \in Projects, DeleteProject(p)
      PROVE  Referential'
  <2>. DEFINE xs == {p} \cup {t \in live : row[t].project = p}
  <2>1. xs \in SUBSET Rows
    BY DEF Rows, Typing, TypeOK
  <2>2. ASSUME NEW t \in live, row[t].project \in xs
        PROVE  t \in xs
    <3>1. row[t].project = p
      BY <2>2, <1>1, DistinctIds, MarkersAreNotRows
         DEF Referential, ReferencesExist, Typing, TypeOK, Rows
    <3>. QED
      BY <3>1
  <2>. QED
    BY <1>1, <2>1, <2>2, RemoveReferential DEF DeleteProject
<1>2. ASSUME NEW t \in Tasks, DeleteTask(t)
      PROVE  Referential'
  <2>1. {t} \in SUBSET Rows
    BY DEF Rows
  <2>2. ASSUME NEW u \in live, row[u].project \in {t}
        PROVE  u \in {t}
    BY <2>2, <2>1, DistinctIds, MarkersAreNotRows DEF Referential, ReferencesExist
  <2>. QED
    BY <1>2, <2>1, <2>2, RemoveReferential DEF DeleteTask
<1>. QED
  BY <1>1, <1>2 DEF Delete

LEMMA ReferentialStep == Typing /\ Referential /\ [Next]_vars => Referential'
<1>1. CASE UNCHANGED vars
  BY <1>1 DEF Referential, ReferencesExist, NoSelfPending, vars, dbVars, requestVars
<1>. QED
  BY <1>1, BeginReferential, ContinueReferential, DeleteReferential DEF Next

LEMMA ReferentialInvariant == Spec => [](Typing /\ Referential)
BY InitTyping, InitReferential, TypingStep, ReferentialStep, PTL DEF Spec

\* However many requests overlap, every reference leads to a row of the right
\* table and no row is its own parent (service.go:340-414).
THEOREM ReferencesAreSound == Spec => []ReferencesExist
BY ReferentialInvariant, PTL DEF Referential

-----------------------------------------------------------------------------
(* One request at a time *)

\* What a request in flight knows of the rows nobody else is changing: its
\* copy is the row, and the rows its walk has read are closed under parents,
\* except for the parent it reads next.
WalkIsCurrent(c) ==
    /\ req[c].id \in Rows => copy[c] = row[req[c].id]
    /\ req[c].id = NoRow => req[c].parent # Unset
    /\ visited[c] \subseteq live
    /\ req[c].id \notin visited[c]
    /\ \A v \in visited[c] : row[v].parent \in visited[c] \cup {NoRow, next[c]}
    /\ pc[c] \in {"check_project", "read_parent"} => visited[c] = {}
    /\ pc[c] # "walk" => next[c] = NoRow
    /\ pc[c] \in {"walk", "write"} /\ req[c].parent \in Rows =>
          req[c].parent \in visited[c]

Alone ==
    /\ \A c, d \in Clients : pc[c] # "idle" /\ pc[d] # "idle" => c = d
    /\ \A c \in Clients : pc[c] # "idle" => WalkIsCurrent(c)

Serial == Typing /\ Referential /\ Alone /\ Acyclic

LEMMA InitSerial == Init => Alone /\ Acyclic
BY DEF Init, Alone, Acyclic

\* The heart of the argument: a row may be hung under p when some set of
\* rows holds p and all its ancestors, and the row is not one of them.
LEMMA HangingUnder ==
    ASSUME Acyclic, NEW x, NEW A \in SUBSET live, x \notin A,
           \A v \in A : row[v].parent \in A \cup {NoRow},
           NoRow \notin live \cup {x},
           row'[x].parent \in A \cup {NoRow},
           \A y \in live \ {x} : row'[y].parent = row[y].parent,
           live' = live \cup {x}
    PROVE  Acyclic'
<1>. SUFFICES ASSUME NEW C \in (SUBSET (live \cup {x})) \ {{}},
                     \A y \in C : row'[y].parent \in C
              PROVE  FALSE
  BY DEF Acyclic
<1>1. CASE x \notin C
  <2>1. C \in (SUBSET live) \ {{}} /\ \A y \in C : row[y].parent \in C
    BY <1>1
  <2>. QED
    BY <2>1 DEF Acyclic
<1>2. CASE x \in C
  <2>1. row'[x].parent \in A \cap C
    BY <1>2
  <2>2. \A v \in A \cap C : row[v].parent \in A \cap C
    BY DEF Acyclic
  <2>3. A \cap C \in (SUBSET live) \ {{}}
    BY <2>1
  <2>. QED
    BY <2>2, <2>3 DEF Acyclic
<1>. QED
  BY <1>1, <1>2

\* References to rows that go become NULL, so no cycle is closed.
LEMMA RemoveAcyclic ==
    ASSUME Typing, Acyclic, NEW xs \in SUBSET Rows, RemoveRows(xs)
    PROVE  Acyclic'
<1>. SUFFICES ASSUME NEW C \in (SUBSET live') \ {{}},
                     \A y \in C : row'[y].parent \in C
              PROVE  FALSE
  BY DEF Acyclic
<1>1. C \subseteq live \ xs /\ live \subseteq Rows
  BY DEF RemoveRows, Typing, TypeOK
<1>2. ASSUME NEW y \in C
      PROVE  row[y].parent \in C
  <2>1. row'[y].parent = IF row[y].parent \in xs THEN NoRow ELSE row[y].parent
    BY <1>1 DEF RemoveRows, Typing, TypeOK, Row
  <2>. QED
    BY <1>1, <2>1, MarkersAreNotRows
<1>. QED
  BY <1>1, <1>2 DEF Acyclic

LEMMA BeginSerial ==
    ASSUME Serial, Quiet, NEW c \in Clients, Begin(c)
    PROVE  Alone' /\ Acyclic'
<1>1. UNCHANGED dbVars /\ \A d \in Clients \ {c} : pc'[d] = "idle"
  BY DEF Serial, Typing, TypeOK, Quiet, Begin, BeginCreate, BeginUpdate, Goto
<1>2. Acyclic'
  BY <1>1 DEF Serial, Acyclic, dbVars
<1>3. visited'[c] = {} /\ next'[c] = NoRow
  BY DEF Serial, Typing, IdleIsBlank, Quiet, Begin, BeginCreate, BeginUpdate
<1>4. pc'[c] \notin {"walk", "write"} \/ req'[c].parent \notin Rows
  BY DEF Serial, Typing, TypeOK, Begin, BeginCreate, BeginUpdate, Goto, AfterRead,
         AfterProject
<1>5. req'[c].id \in Rows => copy'[c] = row'[req'[c].id]
  <2>1. ASSUME NEW q \in CreateRequests, BeginCreate(c, q)
        PROVE  req'[c].id \notin Rows
    BY <2>1, MarkersAreNotRows
       DEF Serial, Typing, TypeOK, BeginCreate, CreateRequests,
           CreateProjectRequests, CreateTaskRequests
  <2>2. ASSUME NEW q \in UpdateRequests, BeginUpdate(c, q)
        PROVE  copy'[c] = row'[req'[c].id]
    BY <2>2 DEF Serial, Typing, TypeOK, BeginUpdate, dbVars
  <2>. QED
    BY <2>1, <2>2 DEF Begin
<1>6. req'[c].id = NoRow => req'[c].parent # Unset
  BY CreatesAreComplete DEF Serial, Typing, TypeOK, Begin, BeginCreate, BeginUpdate
<1>7. WalkIsCurrent(c)'
  BY <1>3, <1>4, <1>5, <1>6 DEF WalkIsCurrent
<1>. QED
  BY <1>1, <1>2, <1>7 DEF Alone

LEMMA AnswerAlone ==
    ASSUME Serial, NEW c \in Clients, pc[c] # "idle", Answer(c)
    PROVE  Alone'
BY DEF Serial, Typing, TypeOK, Alone, Answer

LEMMA ReadParentAlone ==
    ASSUME Serial, NEW c \in Clients, NEW x \in live, pc[c] # "idle",
           x # req[c].id, UNCHANGED dbVars, ReadParent(c, x),
           x = req[c].parent \/ pc[c] = "walk",
           \A v \in visited[c] : row[v].parent \in visited[c] \cup {NoRow, x}
    PROVE  Alone'
<1>1. /\ pc' = [pc EXCEPT ![c] = IF row[x].parent = NoRow THEN "write" ELSE "walk"]
      /\ visited' = [visited EXCEPT ![c] = @ \cup {x}]
      /\ next' = [next EXCEPT ![c] = row[x].parent]
      /\ UNCHANGED <<live, used, row, req, copy>>
  BY DEF ReadParent, Goto, dbVars
<1>2. \A d \in Clients \ {c} : pc'[d] = "idle"
  BY <1>1 DEF Serial, Alone, Typing, TypeOK
<1>3. /\ visited'[c] = visited[c] \cup {x} /\ next'[c] = row[x].parent
      /\ pc'[c] = IF row[x].parent = NoRow THEN "write" ELSE "walk"
  BY <1>1 DEF Serial, Typing, TypeOK
<1>4. WalkIsCurrent(c)
  BY DEF Serial, Alone
<1>5. WalkIsCurrent(c)'
  BY <1>1, <1>3, <1>4 DEF WalkIsCurrent
<1>. QED
  BY <1>2, <1>5 DEF Alone

LEMMA WriteAcyclic ==
    ASSUME Serial, NEW c \in Clients, NEW x \in Rows, pc[c] = "write",
           ForeignKeysHold(NewRow(c)),
           (x = req[c].id /\ x \in live) \/ (req[c].id = NoRow /\ x \notin used),
           row' = [row EXCEPT ![x] = NewRow(c)],
           live' = live \cup {x}
    PROVE  Acyclic'
<1>1. WalkIsCurrent(c) /\ req[c] \in Requests
  BY DEF Serial, Alone, Typing, TypeOK, Requests
<1>2. /\ row'[x].parent = NewRow(c).parent
      /\ \A y \in live \ {x} : row'[y].parent = row[y].parent
  BY DEF Serial, Typing, TypeOK
<1>3. NoRow \notin live \cup {x}
  BY MarkersAreNotRows DEF Serial, Typing, TypeOK
<1>4. req[c].parent \in Rows \cup {NoRow, Unset}
  BY <1>1, RequestFields DEF Rows
<1>5. CASE req[c].parent = Unset
  <2>1. x = req[c].id /\ x \in live
    BY <1>1, <1>5 DEF WalkIsCurrent
  <2>2. row'[x].parent = row[x].parent
    BY <1>1, <1>2, <1>5, <2>1 DEF WalkIsCurrent, NewRow, FieldOrColumn
  <2>. QED
    BY <1>2, <2>1, <2>2 DEF Serial, Acyclic
<1>6. CASE req[c].parent = NoRow
  <2>1. row'[x].parent = NoRow
    BY <1>2, <1>6, MarkersAreNotRows DEF NewRow, FieldOrColumn
  <2>. DEFINE A == {}
  <2>2. A \in SUBSET live /\ x \notin A /\ \A v \in A : row[v].parent \in A \cup {NoRow}
    OBVIOUS
  <2>. HIDE DEF A
  <2>. QED
    BY <1>2, <1>3, <2>1, <2>2, HangingUnder DEF Serial
<1>7. CASE req[c].parent \in Rows
  <2>1. row'[x].parent \in visited[c]
    BY <1>1, <1>2, <1>7, MarkersAreNotRows DEF WalkIsCurrent, NewRow, FieldOrColumn
  <2>2. /\ visited[c] \in SUBSET live
        /\ x \notin visited[c]
        /\ \A v \in visited[c] : row[v].parent \in visited[c] \cup {NoRow}
    BY <1>1 DEF WalkIsCurrent, Serial, Referential
  <2>. QED
    BY <1>2, <1>3, <2>1, <2>2, HangingUnder DEF Serial
<1>. QED
  BY <1>4, <1>5, <1>6, <1>7

LEMMA ContinueSerial ==
    ASSUME Serial, NEW c \in Clients, Continue(c)
    PROVE  Alone' /\ Acyclic'
<1>a. ASSUME UNCHANGED dbVars
      PROVE  Acyclic'
  BY <1>a DEF Serial, Acyclic, dbVars
<1>b. pc[c] # "idle" => WalkIsCurrent(c)
  BY DEF Serial, Alone
<1>1. CASE CheckProject(c)
  <2>1. CASE Answer(c)
    BY <1>1, <1>a, <2>1, AnswerAlone DEF CheckProject
  <2>2. CASE Goto(c, AfterProject(req[c])) /\ UNCHANGED <<req, copy, visited, next>>
    <3>1. /\ \A d \in Clients \ {c} : pc'[d] = "idle"
          /\ pc'[c] = AfterProject(req[c])
          /\ pc[c] = "check_project"
      BY <1>1, <2>2 DEF CheckProject, Goto, Serial, Typing, TypeOK, Alone
    <3>2. WalkIsCurrent(c)'
      BY <1>1, <1>b, <2>2, <3>1 DEF CheckProject, WalkIsCurrent, AfterProject, dbVars
    <3>. QED
      BY <1>1, <1>a, <3>1, <3>2 DEF CheckProject, Alone
  <2>. QED
    BY <1>1, <2>1, <2>2 DEF CheckProject
<1>2. CASE StartWalk(c)
  <2>1. CASE Answer(c)
    BY <1>2, <1>a, <2>1, AnswerAlone DEF StartWalk
  <2>2. CASE /\ req[c].parent # req[c].id /\ req[c].parent \in live
             /\ ReadParent(c, req[c].parent)
    <3>. QED
      BY <1>2, <1>a, <1>b, <2>2, ReadParentAlone DEF StartWalk, WalkIsCurrent
  <2>. QED
    BY <1>2, <2>1, <2>2 DEF StartWalk
<1>3. CASE Walk(c)
  <2>1. CASE Answer(c)
    BY <1>3, <1>a, <2>1, AnswerAlone DEF Walk
  <2>2. CASE next[c] # req[c].id /\ next[c] \in live /\ ReadParent(c, next[c])
    BY <1>3, <1>a, <1>b, <2>2, ReadParentAlone DEF Walk, WalkIsCurrent
  <2>. QED
    BY <1>3, <2>1, <2>2 DEF Walk
<1>4. ASSUME NEW x \in Rows, Insert(c, x)
      PROVE  Alone' /\ Acyclic'
  BY <1>4, AnswerAlone, WriteAcyclic DEF Insert
<1>5. CASE Update(c)
  <2>1. req[c].id \in Rows /\ live' = live \cup {req[c].id}
    BY <1>5 DEF Update, Serial, Typing, TypeOK
  <2>. QED
    BY <1>5, <2>1, AnswerAlone, WriteAcyclic DEF Update
<1>6. CASE Fail(c)
  BY <1>6, <1>a, AnswerAlone DEF Fail
<1>. QED
  BY <1>1, <1>2, <1>3, <1>4, <1>5, <1>6 DEF Continue

LEMMA DeleteSerial ==
    ASSUME Serial, Quiet, Delete
    PROVE  Alone' /\ Acyclic'
<1>1. PICK xs \in SUBSET Rows : RemoveRows(xs)
  BY DEF Delete, DeleteProject, DeleteTask, Rows, Serial, Typing, TypeOK
<1>2. Alone'
  BY DEF Delete, DeleteProject, DeleteTask, requestVars, Quiet, Alone
<1>3. Acyclic'
  BY <1>1, RemoveAcyclic DEF Serial
<1>. QED
  BY <1>2, <1>3

LEMMA SerialStep == Serial /\ [SerialNext]_vars => Serial'
<1>. SUFFICES ASSUME Serial, [SerialNext]_vars
              PROVE  Serial'
  OBVIOUS
<1>1. [Next]_vars
  BY DEF SerialNext, Next
<1>2. Typing' /\ Referential'
  BY <1>1, TypingStep, ReferentialStep DEF Serial
<1>3. CASE UNCHANGED vars
  BY <1>2, <1>3 DEF Serial, Alone, WalkIsCurrent, Acyclic, vars, dbVars, requestVars
<1>. QED
  BY <1>2, <1>3, BeginSerial, ContinueSerial, DeleteSerial DEF SerialNext, Serial

LEMMA SerialInvariant == SerialSpec => []Serial
<1>1. Init => Serial
  BY InitTyping, InitReferential, InitSerial DEF Serial
<1>. QED
  BY <1>1, SerialStep, PTL DEF SerialSpec

\* One request at a time, ensureProjectParent and ensureTaskParent keep both
\* trees free of cycles, however large they are (service.go:352-414).
THEOREM SerialTreesAreAcyclic == SerialSpec => []Acyclic
BY SerialInvariant, PTL DEF Serial

\* One request at a time, a PATCH leaves the references it does not send as
\* they are, although the handler writes them back (service.go:250-334).
THEOREM SerialPatchLeavesTheRest == SerialSpec => PatchLeavesTheRest
<1>. DEFINE Kept(x) ==
       /\ row'[x].parent # row[x].parent =>
            AskedFor(x, "parent") \/ row[x].parent \notin live'
       /\ row'[x].project # row[x].project => AskedFor(x, "project")
<1>1. ASSUME Serial, [SerialNext]_vars, NEW x \in live \cap live' \cap Tasks
      PROVE  Kept(x)
  <2>1. ASSUME row' = row
        PROVE  Kept(x)
    BY <2>1
  <2>2. CASE UNCHANGED vars
    BY <2>1, <2>2 DEF vars, dbVars
  <2>3. ASSUME NEW c \in Clients, Begin(c)
        PROVE  Kept(x)
    BY <2>1, <2>3 DEF Begin, BeginCreate, BeginUpdate, dbVars
  <2>4. CASE Delete
    <3>1. PICK xs \in SUBSET Rows : RemoveRows(xs)
      BY <1>1, <2>4 DEF Delete, DeleteProject, DeleteTask, Rows, Serial, Typing, TypeOK
    <3>2. /\ row'[x].parent = IF row[x].parent \in xs THEN NoRow ELSE row[x].parent
          /\ row'[x].project = row[x].project
          /\ live' = live \ xs
      BY <1>1, <3>1 DEF RemoveRows, Serial, Typing, TypeOK, Row
    <3>. QED
      BY <3>2
  <2>5. ASSUME NEW c \in Clients, Continue(c)
        PROVE  Kept(x)
    <3>1. CASE CheckProject(c) \/ StartWalk(c) \/ Walk(c) \/ Fail(c)
      BY <2>1, <3>1 DEF CheckProject, StartWalk, Walk, Fail, dbVars
    <3>2. ASSUME NEW y \in Rows, Insert(c, y)
          PROVE  Kept(x)
      BY <1>1, <3>2 DEF Insert, Serial, Referential, Typing, TypeOK
    <3>3. CASE Update(c)
      <4>1. pc[c] = "write" /\ pc'[c] = "idle"
        BY <1>1, <3>3 DEF Update, Answer, Serial, Typing, TypeOK
      <4>2. CASE x # req[c].id
        BY <1>1, <3>3, <4>2 DEF Update, Serial, Typing, TypeOK
      <4>3. CASE x = req[c].id
        <5>a. WalkIsCurrent(c) /\ x \in Rows
          BY <1>1, <4>1 DEF Serial, Alone, Rows
        <5>b. row'[x] = NewRow(c)
          BY <1>1, <3>3, <4>3, <5>a DEF Update, Serial, Typing, TypeOK
        <5>1. copy[c] = row[x] /\ row'[x] = NewRow(c)
          BY <4>3, <5>a, <5>b DEF WalkIsCurrent
        <5>2. /\ req[c].parent = Unset => row'[x].parent = row[x].parent
              /\ req[c].project = Unset => row'[x].project = row[x].project
          BY <5>1 DEF NewRow, FieldOrColumn
        <5>. QED
          BY <4>1, <4>3, <5>2 DEF AskedFor
      <4>. QED
        BY <4>2, <4>3
    <3>. QED
      BY <2>5, <3>1, <3>2, <3>3 DEF Continue
  <2>. QED
    BY <1>1, <2>2, <2>3, <2>4, <2>5 DEF SerialNext
<1>2. Serial /\ [SerialNext]_vars
        => [\A x \in live \cap live' \cap Tasks : Kept(x)]_vars
  BY <1>1
<1>. QED
  BY <1>2, SerialInvariant, PTL DEF SerialSpec, PatchLeavesTheRest

-----------------------------------------------------------------------------
(* Overlapping requests *)

\* What a request knows whatever the others do: its walk has not met the row
\* it moves, and has been at the parent it names before it goes on.
WalkAvoidsTheRow ==
    \A c \in Clients : pc[c] # "idle" =>
        /\ req[c].id \notin visited[c]
        /\ req[c].id = NoRow => req[c].parent # Unset
        /\ pc[c] \in {"walk", "write"} /\ req[c].parent \in Rows =>
              req[c].parent \in visited[c]

LEMMA AnswerAvoids ==
    ASSUME Typing, WalkAvoidsTheRow, NEW c \in Clients, Answer(c)
    PROVE  WalkAvoidsTheRow'
BY DEF Typing, TypeOK, WalkAvoidsTheRow, Answer

LEMMA ReadParentAvoids ==
    ASSUME Typing, WalkAvoidsTheRow, NEW c \in Clients, NEW x \in live,
           pc[c] # "idle", x # req[c].id, ReadParent(c, x),
           x = req[c].parent \/ pc[c] = "walk"
    PROVE  WalkAvoidsTheRow'
BY DEF Typing, TypeOK, WalkAvoidsTheRow, ReadParent, Goto

LEMMA BeginAvoids ==
    ASSUME Typing, WalkAvoidsTheRow, NEW c \in Clients, Begin(c)
    PROVE  WalkAvoidsTheRow'
<1>1. ASSUME NEW q \in CreateRequests \cup UpdateRequests, pc[c] = "idle",
             pc' = [pc EXCEPT ![c] = AfterRead(q)],
             req' = [req EXCEPT ![c] = q], visited' = visited
      PROVE  WalkAvoidsTheRow'
  <2>1. /\ req'[c] = q /\ visited'[c] = {} /\ pc'[c] = AfterRead(q)
        /\ \A d \in Clients \ {c} :
             pc'[d] = pc[d] /\ req'[d] = req[d] /\ visited'[d] = visited[d]
    BY <1>1 DEF Typing, TypeOK, IdleIsBlank
  <2>2. q.id = NoRow => q.parent # Unset
    BY CreatesAreComplete
  <2>3. pc'[c] \in {"walk", "write"} => q.parent \notin Rows
    BY <2>1 DEF AfterRead, AfterProject
  <2>. QED
    BY <2>1, <2>2, <2>3 DEF WalkAvoidsTheRow
<1>. QED
  BY <1>1 DEF Begin, BeginCreate, BeginUpdate, Goto

LEMMA AvoidsStep == Typing /\ WalkAvoidsTheRow /\ [Next]_vars => WalkAvoidsTheRow'
<1>. SUFFICES ASSUME Typing, WalkAvoidsTheRow, [Next]_vars
              PROVE  WalkAvoidsTheRow'
  OBVIOUS
<1>1. CASE Delete \/ UNCHANGED vars
  <2>1. UNCHANGED <<pc, req, visited>>
    BY <1>1 DEF Delete, DeleteProject, DeleteTask, vars, requestVars
  <2>. QED
    BY <2>1 DEF WalkAvoidsTheRow
<1>2. ASSUME NEW c \in Clients, CheckProject(c)
      PROVE  WalkAvoidsTheRow'
  <2>1. CASE Answer(c)
    BY <2>1, AnswerAvoids
  <2>2. CASE Goto(c, AfterProject(req[c])) /\ UNCHANGED <<req, copy, visited, next>>
    <3>1. /\ pc'[c] = AfterProject(req[c]) /\ pc[c] # "idle"
          /\ \A d \in Clients \ {c} : pc'[d] = pc[d]
      BY <1>2, <2>2 DEF CheckProject, Goto, Typing, TypeOK
    <3>2. pc'[c] \in {"walk", "write"} => req[c].parent \notin Rows
      BY <3>1 DEF AfterProject
    <3>. QED
      BY <2>2, <3>1, <3>2 DEF WalkAvoidsTheRow
  <2>. QED
    BY <1>2, <2>1, <2>2 DEF CheckProject
<1>3. ASSUME NEW c \in Clients, StartWalk(c)
      PROVE  WalkAvoidsTheRow'
  BY <1>3, AnswerAvoids, ReadParentAvoids DEF StartWalk
<1>4. ASSUME NEW c \in Clients, Walk(c)
      PROVE  WalkAvoidsTheRow'
  BY <1>4, AnswerAvoids, ReadParentAvoids DEF Walk
<1>5. ASSUME NEW c \in Clients,
             (\E x \in Rows : Insert(c, x)) \/ Update(c) \/ Fail(c)
      PROVE  WalkAvoidsTheRow'
  BY <1>5, AnswerAvoids DEF Insert, Update, Fail
<1>. QED
  BY <1>1, <1>2, <1>3, <1>4, <1>5, BeginAvoids DEF Next, Continue

Overlapping == Typing /\ Referential /\ WalkAvoidsTheRow

LEMMA OverlappingInvariant == Spec => []Overlapping
<1>1. Init => WalkAvoidsTheRow
  BY DEF Init, WalkAvoidsTheRow
<1>. QED
  BY <1>1, ReferentialInvariant, AvoidsStep, PTL DEF Spec, Overlapping

\* A write that rests on nothing stale hangs its row under rows that do not
\* hang under it.
LEMMA FreshWriteAcyclic ==
    ASSUME Overlapping, Acyclic, NEW c \in Clients, NEW x \in Rows,
           pc[c] = "write", ~HasReadStale(c), ForeignKeysHold(NewRow(c)),
           (x = req[c].id /\ x \in live) \/ (req[c].id = NoRow /\ x \notin used),
           row' = [row EXCEPT ![x] = NewRow(c)],
           live' = live \cup {x}
    PROVE  Acyclic'
<1>1. /\ req[c].id \notin visited[c]
      /\ req[c].id = NoRow => req[c].parent # Unset
      /\ req[c].parent \in Rows => req[c].parent \in visited[c]
  BY DEF Overlapping, WalkAvoidsTheRow
<1>2. /\ row'[x].parent = NewRow(c).parent
      /\ \A y \in live \ {x} : row'[y].parent = row[y].parent
      /\ live \subseteq Rows /\ NoRow \notin live \cup {x}
  BY MarkersAreNotRows DEF Overlapping, Typing, TypeOK
<1>3. CASE req[c].parent = Unset
  <2>1. x = req[c].id /\ x \in live
    BY <1>1, <1>3
  <2>2. row'[x].parent = row[x].parent
    BY <1>2, <1>3, <2>1 DEF HasReadStale, NewRow, FieldOrColumn
  <2>. QED
    BY <1>2, <2>1, <2>2 DEF Acyclic
<1>4. CASE req[c].parent # Unset
  <2>. DEFINE A == IF req[c].parent = NoRow THEN {} ELSE visited[c] \cap live
  <2>1. NewRow(c).parent = req[c].parent
    BY <1>4 DEF NewRow, FieldOrColumn
  <2>2. req[c].parent \in live \cup {NoRow}
    BY <2>1 DEF ForeignKeysHold
  <2>3. row'[x].parent \in A \cup {NoRow}
    BY <1>1, <1>2, <2>1, <2>2
  <2>4. \A v \in A : row[v].parent \in A \cup {NoRow}
    <3>1. \A v \in visited[c] : row[v].parent \in visited[c] \cup {NoRow}
      BY <1>4 DEF HasReadStale
    <3>2. \A v \in live : row[v].parent \in live \cup {NoRow}
      BY DEF Overlapping, Referential, ReferencesExist
    <3>. QED
      BY <3>1, <3>2
  <2>5. A \in SUBSET live /\ x \notin A
    BY <1>1 DEF Overlapping, Referential
  <2>. HIDE DEF A
  <2>. QED
    BY <1>2, <2>3, <2>4, <2>5, HangingUnder
<1>. QED
  BY <1>3, <1>4

\* However many requests overlap and however large the trees are, a cycle is
\* closed by a write that rests on a parent that changed after it was read,
\* and by nothing else (service.go:357-414).
THEOREM OnlyStaleReadsCloseCycles == Spec => CyclesNeedStaleReads
<1>. DEFINE Stale == \E c \in Clients : pc[c] = "write" /\ pc'[c] = "idle" /\ HasReadStale(c)
<1>1. ASSUME Overlapping, [Next]_vars, Acyclic, ~Acyclic'
      PROVE  Stale
  <2>1. row' # row \/ live' # live
    BY <1>1 DEF Acyclic
  <2>2. ~Delete
    <3>1. SUFFICES ASSUME NEW xs \in SUBSET Rows, RemoveRows(xs)
                   PROVE  FALSE
      BY <1>1 DEF Delete, DeleteProject, DeleteTask, Rows, Overlapping, Typing, TypeOK
    <3>. QED
      BY <1>1, <3>1, RemoveAcyclic DEF Overlapping
  <2>3. PICK c \in Clients : (\E x \in Rows : Insert(c, x)) \/ Update(c)
    BY <1>1, <2>1, <2>2
       DEF Next, Begin, BeginCreate, BeginUpdate, Continue, CheckProject, StartWalk,
           Walk, Fail, vars, dbVars
  <2>4. pc[c] = "write" /\ pc'[c] = "idle"
    BY <1>1, <2>3 DEF Insert, Update, Answer, Overlapping, Typing, TypeOK
  <2>5. ASSUME NEW x \in Rows, Insert(c, x)
        PROVE  HasReadStale(c)
    BY <1>1, <2>4, <2>5, FreshWriteAcyclic DEF Insert
  <2>6. CASE Update(c)
    <3>1. req[c].id \in Rows /\ live' = live \cup {req[c].id}
      BY <1>1, <2>6 DEF Update, Overlapping, Typing, TypeOK
    <3>. QED
      BY <1>1, <2>4, <2>6, <3>1, FreshWriteAcyclic DEF Update
  <2>. QED
    BY <2>3, <2>4, <2>5, <2>6
<1>2. Overlapping /\ [Next]_vars => [Acyclic /\ ~Acyclic' => Stale]_vars
  BY <1>1
<1>. QED
  BY <1>2, OverlappingInvariant, PTL DEF Spec, CyclesNeedStaleReads

=============================================================================
