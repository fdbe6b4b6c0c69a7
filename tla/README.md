# Formal models of anton415-hub

TLA+ models, TLC runs and TLAPS proofs for the anton415-hub repository: a
personal hub with a Go API (`internal/`, `apps/api`), PostgreSQL tables
(`migrations/`), a React front end (`apps/web`) and an n8n workflow that it
drives and that reports back to it (`deploy/n8n`).  Paths and line numbers are
those of the repository; every definition is translated from the code, and
`PROJECT.json` lists the lines each one stands for.

* [The system](#the-system): the inventory
* [The modules](#the-modules): how state and actions correspond to the code
* [The runs](#the-runs): what is checked, on which instances, and why they are enough
* [The proofs](#the-proofs): what holds for every instance
* [What the models found](#what-the-models-found)
* [What is not modelled](#what-is-not-modelled)
* [Plan](#plan)

## The system

One Go process serves HTTP; each request runs in a goroutine of its own, and
what requests share is PostgreSQL (`pgxpool`), the maps of the rate limiters
and nothing else.  Only the orchestrator, `DeleteProject` of the todo module and
the finance settings use transactions that span several statements; everywhere
else a handler is a sequence of single statements.  Behind the process stand n8n,
OAuth providers, an SMTP server and GitHub.  Whoever uses the API is a browser
with a session cookie or, on the callback routes, n8n with a shared secret.

| Component | State | Operations | Interacts with | What is hard |
|---|---|---|---|---|
| Orchestrator (`internal/orchestrator`, `deploy/n8n/workflows`) | projects; workflows with a status, seven steps, artifacts, approvals, events | create a workflow, five decisions, callbacks for artifacts, events and status, archive and delete a project | posts to n8n after the commit, waits up to 15 s; n8n calls back, before or after | the wait and the callbacks race; decisions are taken in any status and repeated; payloads are read before the transaction; answers get lost |
| Todo trees (`internal/todo`) | projects with a parent; tasks with a project and a parent | create, PATCH, archive, restore, delete | the web pages draw the rows as trees | walks, reads and the write are separate statements; `PATCH` writes back whole rows |
| Todo schedules (`internal/todo/domain/task.go`) | status, completion, due date, repetition of a task | create, PATCH, complete-or-advance | table CHECKs | a repeated request advances twice; calendar overflow; domain rules and CHECKs differ |
| Todo lists (`application/filter.go`) | none | filter and sort | the SQL of `listTasksQuery` | one list implemented twice, with nil here and NULL there |
| Login and sessions (`internal/auth`) | OAuth states, email tokens, sessions; the allow-list of the process | start, callback, email link, session lookup, logout | OAuth providers, SMTP, browsers | links followed twice or at once; credential spent, then a failure; restarts with another list |
| Rate limiter (`auth/adapters/http/rate_limit.go`) | a map of buckets under a mutex | `Allow` with its cleanup | the login routes | clock read before the mutex; cleanup of other keys; rounding |
| Finance (`internal/finance`) | a row per month of expenses and of income; one row of income settings and one per category with a limit | save or delete a month, list a year, save and read the settings | the finances page | 64-bit sums that wrap, deletion of empty months, two tables saved and read statement by statement |
| Finances page (`FinancesPage.tsx`) | the year, the loaded months, a grid of inputs | load, type, turn to a year, save | `/finance/expenses` | loads answer out of order; a save is a request per month and each replaces the month whole |
| Other web pages (`apps/web`) | lists in component state | load, toggle, create, update | the API | answers that arrive out of order |
| Platform (`internal/platform`, `apps/api`) | none after start | configuration, routing, shutdown | all of the above | shutdown is shorter than a webhook call |
| Deployment (`deploy`, `infra`, `.github`) | backups, secrets, schema version | dump, migrate, sync, deploy | object storage, Lockbox | a pipeline whose first half fails unnoticed |

What makes each of them correct:

* **Orchestrator**: the status of a workflow never contradicts its steps and
  always has the row that explains it; nothing is published on GitHub that the
  user has not let through, nor before its predecessor; a stage run twice
  leaves one document; no request waits for n8n for ever.
* **Todo trees**: references lead to rows that exist; parents form a forest; a
  `PATCH` changes what it names; a walk always ends.
* **Login**: a link opens one session; a session is earned by its credential;
  a session that a logout has revoked and one off the allow-list serve nobody.
* **Rate limiter**: attempts are not forgotten within their window, the map
  stays small, a key gets a bounded number of attempts in any window (the docs
  say the limit, the code keeps three limits), and `Retry-After` suffices.
* **Schedules**: no row the table refuses; a repeating task is advanced by as
  many days as its frequency says, and closed at its end and not before; a
  completion keeps its time.
* **Todo lists**: the SQL shows the tasks the Go filter shows, in its order.
* **Finance**: what was saved is what is listed; sums agree however they are
  taken; the stored income and limits are those of one save, and limits are 0 or
  100 %.
* **Finances page**: what it sends and says is saved is what the server lists;
  what it shows then should be so too, and is not (`ShownIsSaved`).
* **Other web pages**: the list shown belongs to the scope shown.

`PROJECT.json` lists the hazards, each at its line, with the properties that
would catch it.

## The modules

| Module | What it is |
|---|---|
| `OrchestratorWorkflow` | user requests, their transactions, the webhook, the runs of n8n and their callbacks |
| `StageGates` | what the orchestrator promises about stages; `OrchestratorWorkflow` implements it |
| `TodoHierarchy` | requests on projects and tasks as sequences of SQL statements |
| `TodoSchedule` | the life of one task: validation, merge of a PATCH, completion, the table's CHECKs |
| `TodoCalendar`, `TodoRecurrence` | the next date of a repeating task, and `TodoSchedule` in that calendar |
| `TaskViews` | the filter and the orders of task lists, in Go and in SQL |
| `AuthSessions` | credentials, sessions, restarts and the allow-list |
| `AuthRateLimiter` | `Allow` with its cleanup, under a clock |
| `FinanceAmounts` | sums in a word that wraps |
| `FinanceSettings` | the transaction that saves the settings and the two SELECTs that read them |
| `SettingsRegister` | what is promised about the settings; `FinanceSettings` implements it |
| `FinanceYear` | months of expenses and income, saved, deleted, listed and added up |
| `FinancePage` | the expenses tab of the page, on top of `FinanceYear` |
| `Finance` | settings, income and page in one server |
| `MC...` | instances for TLC: symmetry sets, calendars, and which parts of a composition move; the other constants are in the `.cfg` files |
| `...Proofs` | theorems and their proofs; `OrchestratorGatesProofs` continues `OrchestratorWorkflowProofs`, and `TodoScheduleProofs` is about `TaskViews` and `TodoRecurrence` as well |
| `Sums` | lemmas about sums over finite sets and about least numbers, which the proofs of the limiter, of finance and of the calendar rest on |

Conventions: a request is a process with a program counter `pc`; one action is
one SQL statement or one transaction, since that is what other requests see.
Definitions that begin with a comment "Slip:" are plausible mistakes.  They are
not part of any specification: each one, put in place of the definition that
follows it, makes a property fail, which shows that the property looks at it.

### OrchestratorWorkflow and StageGates

`status`, `feature`, `steps`, `artifacts`, `approvals` and `events` are the rows
of migration 000011, by workflow; `project` is the one project's row.  `pc`,
`op`, `wf` and `seen` belong to a user request; `run` to the n8n execution the
request starts, and `documents` and `issues` to GitHub.

| Code | Actions |
|---|---|
| `CreateWorkflow` (service.go:217-253) | `CheckProject`, then `CommitWorkflow` or `RefuseWorkflow`, then the webhook |
| `approvalAction` (service.go:373-430) | `ReadWorkflow` (outside the transaction), then one of `ApproveSpec`, `RequestSpecChanges`, `ApproveArchitecture`, `RequestArchitectureChanges`, `Reject`, or `DecideNothing` when the row is gone |
| `postJSON` (client.go:33-89) | `WebhookAnswers`, `WebhookFails` (an error, or 15 s) |
| `markWorkflowFailed` (service.go:432-453) | `MarkWorkflowFailed`, a second transaction |
| `AddArtifact`, `UpdateStatus`, `AddEvent` (service.go:275-371) | `RunPostArtifact`, `RunPostStatus`, `RunPostEvent`, each of which commits and may lose its answer |
| the code nodes of the n8n workflow | `RunStart`, `RunPutFile`, `RunCreateIssue`, `RunThrow` |
| a client that goes, a process that stops | `Drop` |

A run goes on after `WebhookFails`: nothing tells n8n that the Hub gave up.
The code compares the current status with nothing before a decision, and
neither does the model.  `StageGates` has two variables, what the user has
granted and what is published, and two actions; `Granted` and `Published` map
the detailed state onto it.

### TodoHierarchy

`live` and `row` are both tables, `used` the identifiers ever given.  A request
`req[c]` says which fields it sends (`Unset` for the others), and `copy[c]` is
the row the handler read at its start.  `BeginUpdate` is `GetTask` or
`GetProject`; `CheckProject`, `StartWalk` and `Walk` are the SELECTs of
`ensureProjectExists`, `ensureProjectParent` and `ensureTaskParent`, one row
each; `Insert` and `Update` write every column.  `RemoveRows` is what a DELETE
does through the foreign keys: a project takes its tasks with it, children
become roots.  `SerialSpec` is the same program used by one client that waits
for each answer; no run needs it, it is what two theorems are about.
`HasReadStale` looks at a write about to happen: some parent its handler read has
changed since, so that the walk, or the copy of the row, no longer holds.

### TodoSchedule, TodoCalendar and TodoRecurrence

`row` is the row of the one task that is followed; `pending[c]` the row a
request has made of the copy it read and is about to write.  `BeginCreate` and
`BeginUpdate` are the handlers up to their INSERT or UPDATE, with the functions
of `task.go` as operators of the same names: `Rescheduled` is `UpdateTask` up to
`ValidateSchedule`, `UpdatedTask` all of it.  `Insert` and `Update` succeed when
`ChecksHold`, the CHECKs of migrations 000002 and 000004; otherwise the request
can only `Fail`.  Which date follows one is the constant `Following`, of which
the module assumes no more than that it is later; the arithmetic of the
calendar does not matter to its properties.  A date is a day number.  The code
compares instants, `time.Local` midnights in a request (handler.go:630,
task.go:465-473) and UTC midnights from the database; they are the same in a
process that runs in UTC, as in the Docker image, and hours apart elsewhere, where
`next.After(RepeatUntil)` may differ on the last day.

`TodoCalendar` is that arithmetic: `NextDate` is the switch of `NextRepeatDate`,
on top of Go's `time.Date` and `AddDate`, which carry months and days over.
`TodoRecurrence` puts the two together: a task is posted for any day, repeats
until the last one, and is completed again and again.  Its assumptions say that
`Following` is `NextDate` and that every date lies in one of the `Years`, and
that there is a last date.  That `NextDate` meets the assumption
`TimeMovesOn` is checked by TLC and proved (`CalendarMovesOn`).

### TaskViews

`TaskMatchesFilter` and `GoKey` are `taskMatchesFilter` and `sortTasks` of
`filter.go`; `ListTasksQuery` and `OrderByClause` are the WHERE and the ORDER BY
that `listTasksQuery` builds.  A comparison in SQL is "true", "false" or "null",
and a WHERE takes a row only when its condition is "true".  The module has no
state of its own: it looks at the row of `TodoSchedule`, with a time, a project,
a flag and a rank added in every way, so that it meets every combination of
status, date and completion a task can really be in.

### AuthSessions

`credential` holds the rows of `auth_oauth_states` and `auth_email_tokens`,
`session` those of `auth_sessions`, `held` what has reached a browser.  A login
request passes `Consume` (the UPDATE that spends the credential), for OAuth
`Identify` or `IdentifyFails` (the provider), and `CreateSession`.  Any other
request with a cookie passes `Find` (SessionMiddleware) and `Serve`, or
`Revoke` or `RevokeFails` for the logout, which the browser cannot tell apart:
both are answered 204 with a header that clears the cookie.  `Fail` may end a
request at any statement and `Restart` ends all, perhaps with another allow-list.
`closed` and `late` only record which sessions a logout has revoked and which
requests began after that; `from` in a session row records the credential of
its login.

### AuthRateLimiter

A call reads the clock (`ReadClock`), waits for the mutex at most `MaxWait`
ticks, and does the rest of `Allow` in one step, as the mutex makes it.
`recent` counts the attempts let through by age and is looked at by a property
only.  The names begin with `Limiter` where those of `AuthSessions` are the same,
as `MCAuth` extends both; the model is the life of one process, and a restart
begins another with an empty map.

### FinanceSettings and SettingsRegister

`income` is the one row of `finance_settings` (`NoRow` before the first save),
`limits` the rows of `finance_expense_limit_settings`.  `at[c]` is the statement
the request of connection `c` executes next: `BeginSave`, `Upsert`, `Clear`,
`Insert` per category, `Commit` (repository.go:208-254 of finance); `ReadIncome`
and `ReadLimits` are the two SELECTs of a GET, which share no transaction.  What
a transaction has deleted and inserted is in `cleared` and `added` until it
commits, as READ COMMITTED has it: others see the tables as committed and wait
for a row another transaction has written.  `Fail` may end a request at any
statement and rolls it back.  `SettingsRegister` has one value and saves that
take hold at once or not at all; the value is what the tables store.  A GET reads
them one after the other, so its answer may combine the income of one save with
the limits of the next, which no property denies.

### FinanceYear and FinancePage

`expenses` and `earnings` are the rows of a month, `NoMonth` where there is none.
`SaveExpense` is the PUT of a month: a category left out is zero and a month
whose total is zero is deleted, where the total is the wrapping sum of
`FinanceAmounts`.  `ListedExpenses` and the operators after it are the answer to
a GET with its sums and averages.

In `FinancePage`, `loads` are the refreshes in flight, each with the year it
asked for and the answer once the server has read it; `Show` puts an answer on
the page whatever year is in the header by then.  `PressSave` keeps the grid, the
loaded months and the year of the render it was pressed in, `PutMonth` and
`PutFails` go through the months, and `RefreshAfterSave` starts the load whose end
makes the page say that the expenses are saved.  Only `expenses` is shared with
the server: the page writes it through `SaveExpense` and reads it through
`ListedExpenses`.  There is one page; a second one that saves the same month
overwrites it whole, by design of the PUT, and is not in the model.

`SentIsListed` is about a Save from the moment it is pressed: what it sends is
what the cells held in that render and differs from the amounts shown there, and
the year is that of the header.  How the grid came to hold it is not its subject;
see [What the models found](#what-the-models-found).

## The runs

| Run | Instance | States | Shows |
|---|---|---|---|
| `orchestrator_safety` | 2 workflows, 2 features, 3 requests, 1 drop | 1,544,430 | status, steps, evidence, issues and documents agree; `StageGates` is implemented |
| `orchestrator_liveness` | 1 workflow, 2 requests, 1 drop | 17,009 | every request ends; the analysis is resolved |
| `todo_concurrent` | 1 project, 2 tasks, 2 clients | 818,614 | references stay sound; only a stale write closes a cycle; walks end, on cycles too |
| `todo_cycle`, `todo_patch` | 2 projects, or 1 project and 2 tasks; 2 clients | – | violated, see below |
| `todo_schedule` | 4 dates, 2 frequencies, intervals 1 and 2, 1 client | 322,301 | the CHECKs take every PATCH; closed at the end only; completion time; lists agree in Go and SQL |
| `todo_recurrence` | every day of 2027-2029, 6 frequencies, intervals 1, 2, 13 | 64,947 | the next date, against a count of the days; the end is reached |
| `todo_create` | as `todo_schedule` | – | violated, see below |
| `auth` | 2 addresses, tokens, sessions, connections, clock 0..1; 2 keys, 2 calls, limit 2, window 3, clock to 7 | 1,725,727 | credentials, sessions, revocation, allow-list; buckets, cleanup, `Retry-After` |
| `auth_limit` | 1 key, 1 call, limit 2, window 3, no wait for the mutex | – | violated, see below |
| `finance` | 3 categories, 2 connections, 2 years, 2 months, 2 loads, 3 gestures, words of 6 values | 838,566 | settings change as one value; sums agree; what a Save sends is listed |
| `finance_page` | 2 categories, 1 month, 1 load, 1 gesture | – | violated, see below |

Why these bounds are enough for the interesting cases.  Three requests on one
workflow are what it takes to create it, to approve, and to approve again or
contradict while a run of an earlier one is still reporting.  Two workflows are
what it takes for a feature id to be refused while its owner lives.  `MaxDrops` bounds how many requests die.  A cycle of parents
needs two rows and two writers, and two tasks and a project let two requests
overlap with a deletion of either kind in every way; longer walks, and trees of
any size, are covered by the theorems, which ask of ids only that they are distinct.
Two connections and two credentials give every overlap of two logins,
of a login with a logout and of a logout with a page; with lifetimes of one tick
and a clock of two ticks, everything may be fresh or expired when it is used.
Four dates and two intervals put a due date before, on and after an end by less
and by more than one repetition; every POST and every PATCH of every row is
tried, so one client is enough for what a row may become, and the proofs cover
overlapping ones.  Three years with a leap year in the middle hold every kind of
month end, and intervals of 13 pass the end of a year and of a fortnight.
The clock of the rate limiter runs over two full windows and a tick, so that a
cleanup meets the buckets of two windows, and `Second` does not divide the
window, so that rounding matters.  Requests are one-shot in the orchestrator
and reused elsewhere.  A word of six values and amounts of two make the total of
three categories wrap to zero, as 2^64 kopecks would, and a third category that
is a transfer separates spending from the rest; `Fits` says where wrapping
excuses the code, and the transaction of the settings is in the same instance,
with limits that add up to 2, the whole, or to more.  Two loads are what it
takes for answers to overtake each other, two years for one of them to be of the
wrong one, two months for a save that fails half way, and three gestures for an
input, a turn of the year and a second input.  Two connections give every
overlap of two saves, and of a save with a read.

Where a run composes parts that share no state (`MCAuth`, `MCFinance`), each part
moves only where the others are in their initial states.  The properties speak
of one part each and no action reads another part, so whatever an interleaving
shows of a part, the part shows alone; the theorems are about the full
composition.

Deadlock is not reported (`CHECK_DEADLOCK FALSE`): users may stop, identifiers
and clocks are bounded.  The liveness properties say that no request waits for
ever.

Fairness.  `FairSpec` asks weak fairness of the steps a goroutine takes by
itself, per request: the Go scheduler runs every goroutine that can run, and
database and webhook calls return, with an error if need be, because the HTTP
client has a timeout (15 s for n8n) and PostgreSQL answers or the connection
breaks.  Nothing is assumed of users, n8n, OAuth providers or of
the order in which a mutex is given.  `WalkSpec` is about a user who does keep
completing a task (weak fairness of `Complete`) and a database that does not
refuse every time (strong fairness of `Update`, since a failure disables it).
Liveness runs have no symmetry.  Auth and finance state safety only: their
handlers are finite sequences of statements without a wait for one another but
for the row locks of the settings, which are taken in one order.

## The proofs

Every safety property that a passing run checks is a theorem: about the full
specification (or `SerialSpec` and `WalkSpec`, where the property is about a user
who waits for answers), for every value of the constants that satisfies the
modules' assumptions.  These are that identifiers are distinct from markers
such as `NoRow`, `NoKey` and `NoMonth`; that bounds are numbers; that lifetimes and
windows are positive (the code replaces others by defaults or switches the
limiter off); that a category comes from a finite list (the constants of
`domain/category.go`), since a sum over it is taken; that a word has an even number
of values; that the wait for the limiter's mutex, twice, fits in a window; and,
for the calendar, that every date lies in a year and that there is a last one.

A theorem cites the assumptions it uses, so that those of the calendar bear on
the theorems of the calendar only.

* **OrchestratorWorkflowProofs**.  `TypeCorrect`, strengthened by what a request
  past its read knows (`RequestOK`) and that a row has a feature (`FeatureOK`).
  `StatusesAgree`: a transaction that writes a status writes the step that
  explains it, and no other writes either column.  `IssuesAreApproved` follows a
  chain (`Chain`): an issue was opened by a run with an architecture in its
  payload; the payload was read from the workflow's rows, where rows stay; the
  architecture row was posted by a run that an approval of the spec started;
  and a decision that starts a run leaves its approval row.
* **OrchestratorGatesProofs**.  `StatusesAreExplained`: rows are only added while
  a workflow lives, every status is written beside its row (`AllExplained`), and
  a run that posts a status or an event has posted its artifact before
  (`PostedIsThere`).  `DocumentsAreUnique`: at most one run of a stage is about to
  report a file, it has created that file, and a stage whose document is listed
  has no such run (`FilesAreReportedOnce`); GitHub's refusal to create a file
  twice is what keeps it so.  `GatesAreKept`, the refinement of `StageGates`: a
  feature belongs to one row and a document to the feature of a row, and what a
  request has read of a workflow is published (`GateInv`, on top of `Chain` and the
  invariant of `DocumentsAreUnique`).  Committing a workflow or a decision that
  calls n8n is `Grant`, a new file or an issue is `Publish`, and every other step is
  a stutter; that a workflow which takes over a feature id inherits no document
  needs that an id is free again only when the project, and so all of it, is gone.
* **TodoHierarchyProofs**.  `TypeCorrect`; `ReferencesAreSound`: the foreign keys
  hold at every write and every delete, so of the walks the invariant needs only
  that no request in flight hangs a row under itself (`NoSelfPending`);
  `OnlyStaleReadsCloseCycles`: whatever overlaps, a walk that has come to its end
  has been at the new parent and not at the row itself (`WalkAvoidsTheRow`); if no
  parent on it has changed since, what it has seen is closed under parents, so
  the row may hang there (`HangingUnder`), and a deletion only takes parents away
  (`RemoveAcyclic`).  `SerialTreesAreAcyclic` and `SerialPatchLeavesTheRest` are the
  properties that `todo_cycle` and `todo_patch` refute, for requests that do not
  overlap: then the copy a request holds is the row, and the rows its walk has
  read are closed under parents but for the one it reads next (`WalkIsCurrent`).
* **TodoScheduleProofs**.  `TypeCorrect`; `PatchesAreAccepted`, by the lemma
  `UpdatedTaskIsAccepted` about the functions of `task.go`: if a row satisfies
  the CHECKs and the merged row passes `ValidateSchedule`, the row written
  satisfies them too.  The row read may have been overwritten since; it was
  sound when it was read, which is all the lemma needs.  `PostsAreRefusedForTheirEnd`
  says the same of `NewTask`, with the one exception that `todo_create` shows.
  `SerialClosesOnlyAtTheEnd` and `SerialCompletionTimeIsKept`: when requests do
  not overlap, what is about to be written was made of the row that is still
  there (`CopyIsFresh`).

  `ListsAreTheSame` needs no more of the state than the type of the row: a
  condition of the WHERE is "null" only where a date or a project is missing,
  where the Go filter takes nothing either; and the keys the two orders compare
  differ in the place of what is missing, which is `Reversed`, and in nothing else.

  `WalkCountsEveryDay` and `WalkKeepsOrSpillsTheDay` are about `WalkSpec`: it is a
  serial use (`WalkIsSerial`), so the due date only ever moves to `NextDate`
  (`WalkMoves`).  The loop of `nextMatchingDay` has counted the matching days behind
  it (`LeftIsCounted`), and as a week has one at least it ends within as many weeks
  as it counts days (`DayIsFound`).  For months, all of them are counted on from
  year 0: each has 28 to 31 days (`MonthLengths`), they follow each other
  (`MonthsInOrder`), a date lies in one (`OneMonth`) which `Civil` finds
  (`CivilFits`), and `AddDate` moves by so many, so that a day past the end of its
  month is within the next (`MonthsAreKept`).  `CalendarMovesOn` uses the same to
  show that the calendar is one that `TodoSchedule` admits.
* **AuthSessionsProofs**.  `CredentialsAreSingleUse` and `LoginsAreEarned` rest
  on ownership: a request between the UPDATE and the INSERT has spent its
  credential, no session comes from it and no other request owns it.
  `RevocationIsFinal` and `ServedAreOnTheList` rest on closure: a session whose
  logout has been carried out is revoked and stays so, since INSERTs only write
  new rows.  Of a logout whose UPDATE failed they say nothing.
* **AuthRateLimiterProofs**.  `TypeCorrect`, `MapStaysSmall`, `AttemptsAreKept` and
  `WaitsAreEnough`, from an invariant on times: what a call read is at most
  `MaxWait` old (`TimesAreClose`), and no bucket ends more than a window after the
  clock (`EndsAreNear`).  `WaitsAreEnough` adds the arithmetic of rounding up
  (`SecondsAreEnough`).  `WindowsAreFew` is `AtMostThreeBuckets`.  Its invariant,
  `InThreeBuckets`, splits the attempts counted by age into those of the bucket in
  the map, which are no more than the bucket counts, those of the one before, and
  older ones; each part is at most the limit, and the older ones are so old that
  they leave the stretch before another bucket can open, since a bucket opens
  when the one before is over for its call and a call is late by `MaxWait` at most.
  When a cleanup takes the bucket away, what remains is two parts at most
  (`Forgotten`).
* **FinanceProofs**.  `SettingsAreOne`, the refinement of `SettingsRegister`, and
  `ReadsSucceed` rest on one observation (`SettingsInv`): the row of
  `finance_settings`, which every save writes first, is the lock of both tables
  (`OneWriter`).  While one transaction holds it no other has cleared or inserted
  anything, so the rows it clears are all the rows there are when it commits, and
  what it commits is what it holds, an accepted value (`SavesAreSound`).
  `FinanceIsSettings` carries this over to the composition.  `TypeCorrect` is about
  the composition, page and months included.

  `SavesStoreWhatTheySend` is `SentIsListed`.  Its invariant, `SaveInv`: the months a Save has
  passed are stored as it sent them, as no other request of the page writes, a
  Save reads its grid from the render it was pressed in, and the one refresh that
  may report it is asked for after the last month.  A month that was deleted had
  a total of zero and, where the total fits the word, nothing but zeros
  (`DeletedIsEmpty`).

  `YearsAddUp` is `TotalsAgree`: sums over months and over categories may be
  exchanged (`SumExchange`), a sum of wrapped numbers wraps to what the sum of the
  numbers wraps to (`WrapOfWraps`), spending and transfers split the categories
  (`SumSplit`), and a quotient rounded half up is off by half a unit at most
  (`AverageIsClose`).

* **Sums**.  The community modules define a sum as a fold, which is a recursive
  function on the subsets of a set.  `SumIterates` shows that this function exists
  and `SumStep` what it computes; everything else follows by induction over the
  set.  Where the library's induction theorems would need an operator for the
  statement, the lemmas take the set of the cases where it holds (`SetInduction`,
  `NumberInduction`), or a least case where it fails (`LeastSubset`, `LeastNumber`).

Only model-checked: the liveness properties (`EveryRequestIsAnswered` of requests
and of walks, `AnalysisIsResolved`, `RepetitionEnds`), as liveness under fairness is
out of reach of the proof system; and the properties that fail, where a run
shows the counterexample.

## What the models found

* Two moves that overlap close a cycle of projects (`todo_cycle`), although
  `docs/audit/current-state.md:83` says that the service rejects cycles.  The
  rows of the cycle are drawn nowhere, as `buildTree.ts` starts from the roots.
* A `PATCH` restores columns it does not name (`todo_patch`): `UpdateTask` writes
  the row it read, over what another request wrote in between, although
  `current-state.md:64` says that such fields are left untouched.
* A `POST /tasks` with `repeat_until` and without a repetition is answered 500
  (`todo_create`): `NewTask` keeps the field, which `SetRepeat` clears in a
  `PATCH`, and a CHECK of migration 000004 refuses the row, although
  `current-state.md:62` promises codes mapped from domain errors.  No `PATCH` fails
  at one of the four CHECKs of the schedule (`PatchesAreAccepted` is proved; an
  interval that does not fit the 32 bits of `repeat_interval` is outside the
  model, and is refused by the database in both requests), and of what `NewTask` lets
  through nothing else is refused (`PostsAreRefusedForTheirEnd`).
* A Save of the finances page that follows a load deletes what it shows
  (`finance_page`): the page sends a month's changed cells only, takes every empty
  input for changed, and the PUT takes what is left out for zero.  So a second
  Save, or the first after opening the page, sends zeros alone for each month
  with an empty input; the server deletes the month, and the page says
  'Расходы сохранены', that the expenses are saved.  What the Save sent is
  stored (`SentIsListed`); what was only shown is lost.
* Two more ways in which the page reports as saved what the user did not mean,
  found in the model and without a run of their own.  The buttons of the year are never
  disabled and the grid stays until the new year's load answers
  (FinancesPage.tsx:246-259), or for good if it fails: amounts typed under one year
  and saved after turning to the next, before the answer, are stored in the next.
  And an amount typed while a load is in flight is replaced by its answer, so that
  the Save that follows does not send it.  Either ends in 'Расходы сохранены'.
* A logout whose UPDATE fails is answered like any other (handler.go:212-218): 204,
  with the cookie cleared, while the session stays open to whoever kept its token
  until it expires; `current-state.md:139` describes the route as revoking the
  session.  `RevokeFails` is that step; `NoServiceAfterRevocation` holds of sessions
  that have been revoked, and could not hold of logouts that have been answered.
* The lists of tasks differ between Go and SQL in three ways, which `ListsAgree`
  states: the SQL hides tasks of archived projects unless the project is asked
  for; sorted by date backwards, Go puts tasks without a date or an hour first
  and the SQL last; and ids, which decide between equal tasks and are left out
  of the model, run backwards in the SQL where the rest does, and in the smart
  order.  The Go is what tests run on.  Outside the model, `%` and `_` in a search text are wildcards of the
  SQL's LIKE and letters in Go.
* Two behaviours of schedules that nothing promises otherwise: a monthly task of
  the 31st moves to the first days of a month and stays there
  (`KeepsOrSpillsTheDay`), and a completion sent twice moves a repeating task
  twice.
* The rate limiter lets more through in a minute than `docs/audit/current-state.md:159`
  says, "60 req/min locally, 10 req/min in production" (`auth_limit`): a bucket starts
  with the first attempt on its key, so attempts late in one bucket and early in
  the next fall into one minute.  That makes up to `2 * Limit`, and a call that read
  the clock before a bucket ended and gets the mutex after adds a third bucket:
  `AtMostThreeBuckets` states the bound that holds, `3 * Limit`.  The line also calls
  the limiter IP-keyed, where the key is route, address and subject
  (rate_limit.go:99), so an address has as many limits as it names subjects.
  The proof showed what the bound rests on.  If calls could wait for the mutex
  longer than half a window, a cleanup by a call with a late time would let one
  with an earlier time open a bucket that ends earlier than it should, and a
  fourth bucket would meet the stretch (window 4, wait 3, limit 2: seven attempts
  within four ticks).  Waits are microseconds and windows minutes, so this is an
  assumption of the module (`MutexIsShort`).

## What is not modelled

Of the parts that are modelled: names, notes, URLs and repository data;
timestamps of workflows; the five reads of `GetWorkflow`, whose answer is not
stored; webhook and callback secrets; callbacks that no n8n workflow of the
repository sends; cookies' attributes, redirect paths and hashing;
`AUTH_DEV_BYPASS`, which is off in production; how the limiter's key is built;
the search text of task lists and the list of projects, which has one
implementation; how amounts are parsed and formatted; the income and settings
tabs of the finances page, which send all their fields.

The pages of tasks and projects keep lists of the server and write nothing back
from them but what the user enters: an answer out of order shows a wrong list
until the next load, and nothing in the repository promises otherwise.  The
pages of the orchestrator do not restrict what its API takes, which is what
`OrchestratorWorkflow` models.  `platform`, `apps/api`, the SMTP sender and the
scripts, the one for backups included, are start-up code, I/O or declarations;
what a stop of the process does to requests is `Drop`, `Fail` and `Restart`.
`fire` and `investments` are package comments.

## Plan

Done, in this order:

1. `OrchestratorWorkflow`, with `StageGates` as its abstract specification.
2. `TodoHierarchy`, with overlapping requests and without.
3. `AuthSessions`, `AuthRateLimiter`.
4. `TodoSchedule`, `TodoCalendar`, `TodoRecurrence`.
5. `FinanceSettings` with `SettingsRegister`, `FinanceYear`, `FinancePage`.
6. `TaskViews`.
7. The refinements as theorems: `GatesAreKept`, `SettingsAreOne`; with them
   `StatusesAreExplained` and `DocumentsAreUnique`.

8. Sums and the calendar proved: `YearsAddUp`, `SavesStoreWhatTheySend`, `WindowsAreFew`,
   `WalkCountsEveryDay`, `WalkKeepsOrSpillsTheDay`, `CalendarMovesOn`; and
   `ListsAreTheSame`.

What is left (modules in *italics* are not written):

9. *OrchestratorClock*: timestamps of steps under row locks, and the reads of
   `GetWorkflow` as five steps.
10. *WebTasks*: loads and answers of the tasks page out of order, composed with
    the rows of a server.
