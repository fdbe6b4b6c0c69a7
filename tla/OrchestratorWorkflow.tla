------------------------ MODULE OrchestratorWorkflow ------------------------
(***************************************************************************)
(* The feature-delivery workflow of the orchestrator: the Hub's user       *)
(* requests (internal/orchestrator/application/service.go), the rows they  *)
(* keep in PostgreSQL (adapters/postgres/repository.go), the webhook call  *)
(* to n8n (adapters/n8n/client.go) and the n8n stage that call starts      *)
(* (deploy/n8n/workflows/orchestrator-ai-feature-delivery-v0.json), which  *)
(* reports back through the Hub's callback routes.                         *)
(*                                                                         *)
(* A request is one HTTP request of the user.  It reads, commits one       *)
(* transaction, waits for n8n for at most the client's timeout and, when   *)
(* that wait fails, commits a second transaction.  Between any two of      *)
(* these steps other requests and callbacks run.  A transaction is one     *)
(* step: every transaction that changes a status locks the workflow row    *)
(* first (UPDATE ... WHERE id) and keeps it to the commit.                 *)
(***************************************************************************)
EXTENDS Naturals, FiniteSets

CONSTANTS
    Workflows,   \* ids of orchestrator_workflows rows (gen_random_uuid)
    Features,    \* feature ids, the slugs FeatureIDFromTitle returns
    Requests,    \* user requests; request r also names the n8n run it starts
    NoValue,     \* a field that is not set
    MaxDrops     \* bound: requests that die before they answer

ASSUME NoValueAssumption == NoValue \notin Workflows \cup Features
ASSUME MaxDropsAssumption == MaxDrops \in Nat

VARIABLES
    project,     \* status of the project row, or "deleted"
    status,      \* status[w]: workflow row's status, "absent" or "deleted"
    feature,     \* feature[w]: feature_id of the row
    steps,       \* steps[w][k]: status of step row k
    artifacts,   \* artifacts[w]: artifact rows, by the run that posted them
    approvals,   \* approvals[w]: approval rows, by the request that decided
    events,      \* events[w]: event rows, by their author
    pc,          \* pc[r]: where request r is
    op,          \* op[r]: the operation request r asks for
    wf,          \* wf[r]: the workflow it is about
    seen,        \* seen[r]: artifact types GetWorkflow read before deciding
    run,         \* run[r]: where the n8n execution started by r is
    documents,   \* Markdown files committed to the project's repository
    issues,      \* GitHub issues opened
    drops        \* requests dropped so far

dbVars  == <<project, status, feature, steps, artifacts, approvals, events>>
hubVars == <<pc, op, wf, seen>>
n8nVars == <<run, documents, issues>>
vars == <<dbVars, hubVars, n8nVars, drops>>

-----------------------------------------------------------------------------
(* Values *)

StepKeys == {"idea_created", "system_analysis", "spec_approval", "architecture",
             "architecture_approval", "codex_prompt_generated",
             "ready_for_implementation"}

StepStatuses == {"pending", "running", "done", "failed", "skipped"}

WorkflowStatuses ==
    {"draft", "system_analysis_running", "spec_review", "spec_approved",
     "spec_changes_requested", "architecture_running", "architecture_review",
     "architecture_approved", "architecture_changes_requested",
     "ready_for_implementation", "implementation_running", "pr_review",
     "done", "failed", "rejected"}

\* The first artifact type, and the stage, of each n8n run.
Stages == {"intake", "architecture", "codex"}
Operations == {"create", "approve_spec", "request_spec_changes",
               "approve_architecture", "request_architecture_changes", "reject"}
\* The operations whose commit is followed by a webhook call.
Notifying == {"create", "approve_spec", "approve_architecture"}

StageOf(o) == CASE o = "create" -> "intake"
                [] o = "approve_spec" -> "architecture"
                [] o = "approve_architecture" -> "codex"

ArtifactOf(stage) == CASE stage = "intake" -> "spec"
                       [] stage = "architecture" -> "architecture"
                       [] stage = "codex" -> "codex_prompt"

ArtifactTypes == {"spec", "architecture", "codex_prompt"}
Decisions == {"approved", "changes_requested", "rejected"}
EventTypes == {"idea_created", "spec_generated", "architecture_generated",
               "ready_for_implementation", "n8n_intake_failed",
               "n8n_approval_failed"} \cup Decisions

Artifact == [by : Requests, type : ArtifactTypes]
Approval == [by : Requests, step : StepKeys, decision : Decisions]
Event    == [by : Requests, type : EventTypes]
Document == [feature : Features, stage : Stages]
Issue    == [by : Requests, wf : Workflows]

RequestStates == {"idle", "checked", "read", "waiting", "failing",
                  "answered", "dropped"}
InFlight == {"checked", "read", "waiting", "failing"}
RunStates == {"none", "inbox", "generating", "posting_artifact",
              "posting_status", "posting_event", "finished", "failed"}
Running == {"inbox", "generating", "posting_artifact", "posting_status",
            "posting_event"}

Exists(w) == status[w] \in WorkflowStatuses

TypeOK ==
    /\ project \in {"active", "archived", "deleted"}
    /\ status \in [Workflows -> WorkflowStatuses \cup {"absent", "deleted"}]
    /\ feature \in [Workflows -> Features \cup {NoValue}]
    /\ steps \in [Workflows -> [StepKeys -> StepStatuses]]
    /\ artifacts \in [Workflows -> SUBSET Artifact]
    /\ approvals \in [Workflows -> SUBSET Approval]
    /\ events \in [Workflows -> SUBSET Event]
    /\ pc \in [Requests -> RequestStates]
    /\ op \in [Requests -> Operations \cup {NoValue}]
    /\ wf \in [Requests -> Workflows \cup {NoValue}]
    /\ seen \in [Requests -> SUBSET ArtifactTypes]
    /\ run \in [Requests -> RunStates]
    /\ documents \in SUBSET Document
    /\ issues \in SUBSET Issue
    /\ drops \in 0..MaxDrops

-----------------------------------------------------------------------------
(* Initially one active project without workflows. *)

NoSteps == [k \in StepKeys |-> "pending"]

\* domain.DefaultSteps: the seven rows a new workflow gets.
DefaultSteps == [NoSteps EXCEPT !["idea_created"] = "done",
                                !["system_analysis"] = "running"]

Init ==
    /\ project = "active"
    /\ status = [w \in Workflows |-> "absent"]
    /\ feature = [w \in Workflows |-> NoValue]
    /\ steps = [w \in Workflows |-> NoSteps]
    /\ artifacts = [w \in Workflows |-> {}]
    /\ approvals = [w \in Workflows |-> {}]
    /\ events = [w \in Workflows |-> {}]
    /\ pc = [r \in Requests |-> "idle"]
    /\ op = [r \in Requests |-> NoValue]
    /\ wf = [r \in Requests |-> NoValue]
    /\ seen = [r \in Requests |-> {}]
    /\ run = [r \in Requests |-> "none"]
    /\ documents = {}
    /\ issues = {}
    /\ drops = 0

-----------------------------------------------------------------------------
(* Statements of a transaction.                                            *)

\* UpdateWorkflowStatus and UpdateStep of the rows of workflow w.
SetStatus(w, s) == status' = [status EXCEPT ![w] = s]
\* Slip: a failed step keeps its verdict while the status moves on.
SetStepUnlessFailed(w, k, s) ==
    steps' = IF steps[w][k] = "failed" THEN steps ELSE [steps EXCEPT ![w][k] = s]
SetStep(w, k, s) == steps' = [steps EXCEPT ![w][k] = s]
\* Rows are only ever inserted; they go when the workflow row goes.
InsertApproval(w, r, k, d) ==
    approvals' = [approvals EXCEPT ![w] = @ \cup {[by |-> r, step |-> k, decision |-> d]}]
InsertEvent(w, r, t) ==
    events' = [events EXCEPT ![w] = @ \cup {[by |-> r, type |-> t]}]
InsertArtifact(w, r, t) ==
    artifacts' = [artifacts EXCEPT ![w] = @ \cup {[by |-> r, type |-> t]}]

Goto(r, l) == pc' = [pc EXCEPT ![r] = l]
RunTo(r, l) == run' = [run EXCEPT ![r] = l]

-----------------------------------------------------------------------------
(* Projects *)

\* UpdateProject with a new status: the project is archived or made active.
UpdateProject ==
    /\ project # "deleted"
    /\ project' \in {"active", "archived"} \ {project}
    /\ UNCHANGED <<status, feature, steps, artifacts, approvals, events,
                   hubVars, n8nVars, drops>>

\* DeleteProject: the foreign keys cascade to every row of its workflows.
DeleteProject ==
    /\ project # "deleted"
    /\ project' = "deleted"
    /\ status' = [w \in Workflows |-> IF Exists(w) THEN "deleted" ELSE status[w]]
    /\ steps' = [w \in Workflows |-> NoSteps]
    /\ artifacts' = [w \in Workflows |-> {}]
    /\ approvals' = [w \in Workflows |-> {}]
    /\ events' = [w \in Workflows |-> {}]
    /\ UNCHANGED <<feature, hubVars, n8nVars, drops>>

-----------------------------------------------------------------------------
(* CreateWorkflow *)

\* GetProject and the check that it is active, outside any transaction.
CheckProject(r) ==
    /\ pc[r] = "idle"
    /\ op' = [op EXCEPT ![r] = "create"]
    /\ Goto(r, IF project = "active" THEN "checked" ELSE "answered")
    /\ UNCHANGED <<dbVars, wf, seen, n8nVars, drops>>

FeatureTaken(f) == \E w \in Workflows : Exists(w) /\ feature[w] = f

\* repository.CreateWorkflow: the workflow row, its steps and its first event
\* in one transaction; the project only has to exist.  Then the webhook call.
CommitWorkflow(r, w, f) ==
    /\ pc[r] = "checked"
    /\ project # "deleted"
    /\ ~FeatureTaken(f)
    /\ status[w] = "absent"
    /\ SetStatus(w, "system_analysis_running")
    /\ feature' = [feature EXCEPT ![w] = f]
    /\ steps' = [steps EXCEPT ![w] = DefaultSteps]
    /\ InsertEvent(w, r, "idea_created")
    /\ wf' = [wf EXCEPT ![r] = w]
    /\ Goto(r, "waiting")
    /\ RunTo(r, "inbox")
    /\ UNCHANGED <<project, artifacts, approvals, op, seen, documents, issues, drops>>

\* ErrNotFound (the project went) or ErrDuplicateWorkflow (the unique index).
RefuseWorkflow(r, f) ==
    /\ pc[r] = "checked"
    /\ project = "deleted" \/ FeatureTaken(f)
    /\ Goto(r, "answered")
    /\ UNCHANGED <<dbVars, op, wf, seen, n8nVars, drops>>

-----------------------------------------------------------------------------
(* Decisions: approvalAction *)

\* GetWorkflow before the transaction.  Its five reads count as one: only the
\* artifact list is used later, and only if the row is still there then.
ReadWorkflow(r, w, o) ==
    /\ pc[r] = "idle"
    /\ status[w] # "absent"
    /\ op' = [op EXCEPT ![r] = o]
    /\ wf' = [wf EXCEPT ![r] = w]
    /\ seen' = [seen EXCEPT ![r] = {a.type : a \in artifacts[w]}]
    /\ Goto(r, IF Exists(w) THEN "read" ELSE "answered")
    /\ UNCHANGED <<dbVars, n8nVars, drops>>

\* The transaction of approvalAction; nothing compares the status it replaces
\* with the one that was read.  An approval is then sent to n8n.
Decide(r, o, stepKey, decision, newStatus, stepStatus) ==
    /\ pc[r] = "read"
    /\ op[r] = o
    /\ Exists(wf[r])
    /\ InsertApproval(wf[r], r, stepKey, decision)
    /\ SetStatus(wf[r], newStatus)
    /\ SetStep(wf[r], stepKey, stepStatus)
    /\ InsertEvent(wf[r], r, decision)
    /\ IF o \in Notifying
         THEN Goto(r, "waiting") /\ RunTo(r, "inbox")
         ELSE Goto(r, "answered") /\ UNCHANGED run
    /\ UNCHANGED <<project, feature, artifacts, op, wf, seen, documents, issues, drops>>

ApproveSpec(r) ==
    Decide(r, "approve_spec", "spec_approval", "approved", "spec_approved", "done")
RequestSpecChanges(r) ==
    Decide(r, "request_spec_changes", "spec_approval", "changes_requested",
           "spec_changes_requested", "failed")
ApproveArchitecture(r) ==
    Decide(r, "approve_architecture", "architecture_approval", "approved",
           "architecture_approved", "done")
RequestArchitectureChanges(r) ==
    Decide(r, "request_architecture_changes", "architecture_approval",
           "changes_requested", "architecture_changes_requested", "failed")
Reject(r) ==
    Decide(r, "reject", "spec_approval", "rejected", "rejected", "failed")

\* The row went between the read and the transaction: ErrNotFound.
DecideNothing(r) ==
    /\ pc[r] = "read"
    /\ ~Exists(wf[r])
    /\ Goto(r, "answered")
    /\ UNCHANGED <<dbVars, op, wf, seen, n8nVars, drops>>

-----------------------------------------------------------------------------
(* The webhook call and its outcome *)

\* postJSON returns nil: the webhook answers after the last node of the run.
WebhookAnswers(r) ==
    /\ pc[r] = "waiting"
    /\ run[r] = "finished"
    /\ Goto(r, "answered")
    /\ UNCHANGED <<dbVars, op, wf, seen, n8nVars, drops>>

\* Slip: no client timeout; only a run that threw ends the wait.
WebhookFailsWithoutTimeout(r) ==
    /\ pc[r] = "waiting"
    /\ run[r] = "failed"
    /\ Goto(r, "failing")
    /\ UNCHANGED <<dbVars, op, wf, seen, n8nVars, drops>>

\* Slip: the error is returned to the user and the workflow left as it is.
WebhookFailsSilently(r) ==
    /\ pc[r] = "waiting"
    /\ Goto(r, "answered")
    /\ UNCHANGED <<dbVars, op, wf, seen, n8nVars, drops>>

\* postJSON returns an error: the client's timeout, which may pass at any time
\* of the run, a transport error, a missing URL, or a run that threw.
WebhookFails(r) ==
    /\ pc[r] = "waiting"
    /\ Goto(r, "failing")
    /\ UNCHANGED <<dbVars, op, wf, seen, n8nVars, drops>>

\* The step markWorkflowFailed blames, and its event type.
BlamedStep(o) == CASE o = "create" -> "system_analysis"
                   [] o = "approve_spec" -> "spec_approval"
                   [] o = "approve_architecture" -> "architecture_approval"
FailureEvent(o) == IF o = "create" THEN "n8n_intake_failed" ELSE "n8n_approval_failed"

\* Slip: a status the enumeration of migration 000011 does not have.
MarkWorkflowErrored(r) ==
    /\ pc[r] = "failing"
    /\ Exists(wf[r])
    /\ SetStatus(wf[r], "n8n_failed")
    /\ SetStep(wf[r], BlamedStep(op[r]), "failed")
    /\ InsertEvent(wf[r], r, FailureEvent(op[r]))
    /\ Goto(r, "answered")
    /\ UNCHANGED <<project, feature, artifacts, approvals, op, wf, seen, n8nVars, drops>>

\* markWorkflowFailed, whatever the status is by now.
MarkWorkflowFailed(r) ==
    /\ pc[r] = "failing"
    /\ IF Exists(wf[r])
         THEN /\ SetStatus(wf[r], "failed")
              /\ SetStep(wf[r], BlamedStep(op[r]), "failed")
              /\ InsertEvent(wf[r], r, FailureEvent(op[r]))
         ELSE UNCHANGED <<status, steps, events>>
    /\ Goto(r, "answered")
    /\ UNCHANGED <<project, feature, artifacts, approvals, op, wf, seen, n8nVars, drops>>

\* A request in flight ends without another write: the client went away and
\* its context is cancelled, the statement failed and the transaction rolled
\* back, or the process died (every request in flight is dropped, in turn).
Drop(r) ==
    /\ pc[r] \in InFlight
    /\ drops < MaxDrops
    /\ drops' = drops + 1
    /\ Goto(r, "dropped")
    /\ UNCHANGED <<dbVars, op, wf, seen, n8nVars>>

-----------------------------------------------------------------------------
(* The n8n run of request r.  It lives on after the Hub stopped waiting.   *)

Stage(r) == StageOf(op[r])

\* Slips: the preview is not required for the prompt, or for the architecture.
PromptWithoutArchitecture(r) == Stage(r) = "architecture" => "spec" \in seen[r]
ArchitectureWithoutSpec(r) == Stage(r) = "codex" => "architecture" \in seen[r]

\* The artifact preview a stage throws without: it comes from the payload,
\* that is from what the Hub read before it decided.
PreviewAvailable(r) ==
    /\ Stage(r) = "architecture" => "spec" \in seen[r]
    /\ Stage(r) = "codex" => "architecture" \in seen[r]

RunStart(r) ==
    /\ run[r] = "inbox"
    /\ RunTo(r, IF PreviewAvailable(r) THEN "generating" ELSE "failed")
    /\ UNCHANGED <<dbVars, hubVars, documents, issues, drops>>

DocumentOf(r) == [feature |-> feature[wf[r]], stage |-> Stage(r)]

\* Slip: the sha of the present file is sent along and the file replaced.
RunReplaceFile(r) ==
    /\ run[r] = "generating"
    /\ Stage(r) \in {"intake", "architecture"}
    /\ RunTo(r, "posting_artifact")
    /\ documents' = documents \cup {DocumentOf(r)}
    /\ UNCHANGED <<dbVars, hubVars, issues, drops>>

\* putGitHubFile without a sha: GitHub creates the file or answers an error.
RunPutFile(r) ==
    /\ run[r] = "generating"
    /\ Stage(r) \in {"intake", "architecture"}
    /\ IF DocumentOf(r) \in documents
         THEN RunTo(r, "failed") /\ UNCHANGED documents
         ELSE /\ RunTo(r, "posting_artifact")
              /\ documents' = documents \cup {DocumentOf(r)}
    /\ UNCHANGED <<dbVars, hubVars, issues, drops>>

\* createGitHubIssue: every call opens another issue.
RunCreateIssue(r) ==
    /\ run[r] = "generating"
    /\ Stage(r) = "codex"
    /\ issues' = issues \cup {[by |-> r, wf |-> wf[r]]}
    /\ RunTo(r, "posting_artifact")
    /\ UNCHANGED <<dbVars, hubVars, documents, drops>>

\* The run goes on only if it hears a 2xx answer; heard is FALSE when the
\* answer to a committed callback is lost or the read after it failed.
Continue(r, heard, next) == RunTo(r, IF heard THEN next ELSE "failed")

\* POST /artifacts: AddArtifact, one transaction.
RunPostArtifact(r, heard) ==
    /\ run[r] = "posting_artifact"
    /\ Exists(wf[r])
    /\ InsertArtifact(wf[r], r, ArtifactOf(Stage(r)))
    /\ CASE Stage(r) = "intake" ->
              SetStatus(wf[r], "spec_review") /\ SetStep(wf[r], "system_analysis", "done")
         [] Stage(r) = "architecture" ->
              SetStatus(wf[r], "architecture_review") /\ SetStep(wf[r], "architecture", "done")
         [] Stage(r) = "codex" -> UNCHANGED <<status, steps>>
    /\ Continue(r, heard, IF Stage(r) = "codex" THEN "posting_status" ELSE "posting_event")
    /\ UNCHANGED <<project, feature, approvals, events, hubVars, documents, issues, drops>>

\* POST /status: UpdateStatus with the issue URL and the last step.
RunPostStatus(r, heard) ==
    /\ run[r] = "posting_status"
    /\ Exists(wf[r])
    /\ SetStatus(wf[r], "ready_for_implementation")
    /\ SetStep(wf[r], "ready_for_implementation", "done")
    /\ Continue(r, heard, "posting_event")
    /\ UNCHANGED <<project, feature, artifacts, approvals, events, hubVars,
                   documents, issues, drops>>

\* POST /events: AddEvent and applyEventProgress, one transaction.
RunPostEvent(r, heard) ==
    /\ run[r] = "posting_event"
    /\ Exists(wf[r])
    /\ CASE Stage(r) = "intake" ->
              /\ InsertEvent(wf[r], r, "spec_generated")
              /\ SetStatus(wf[r], "spec_review")
              /\ SetStep(wf[r], "system_analysis", "done")
         [] Stage(r) = "architecture" ->
              /\ InsertEvent(wf[r], r, "architecture_generated")
              /\ SetStatus(wf[r], "architecture_review")
              /\ SetStep(wf[r], "architecture", "done")
         [] Stage(r) = "codex" ->
              /\ InsertEvent(wf[r], r, "ready_for_implementation")
              /\ SetStatus(wf[r], "ready_for_implementation")
              /\ steps' = [steps EXCEPT ![wf[r]] =
                    [@ EXCEPT !["codex_prompt_generated"] = "done",
                              !["ready_for_implementation"] = "done"]]
    /\ Continue(r, heard, "finished")
    /\ UNCHANGED <<project, feature, artifacts, approvals, hubVars,
                   documents, issues, drops>>

\* Slip: a failed POST /artifacts is logged and the run goes on.
RunThrowUnlessPosting(r) ==
    /\ run[r] \in Running
    /\ RunTo(r, IF run[r] = "posting_artifact" THEN "posting_event" ELSE "failed")
    /\ UNCHANGED <<dbVars, hubVars, documents, issues, drops>>

\* The run throws: a model or GitHub call failed, n8n stopped, or the Hub
\* answered an error (the workflow is gone, the transaction rolled back).
RunThrow(r) ==
    /\ run[r] \in Running
    /\ RunTo(r, "failed")
    /\ UNCHANGED <<dbVars, hubVars, documents, issues, drops>>

-----------------------------------------------------------------------------
(* Specification *)

\* The steps the Hub takes by itself once a request is in flight.
HubStep(r) ==
    \/ \E w \in Workflows, f \in Features : CommitWorkflow(r, w, f)
    \/ \E f \in Features : RefuseWorkflow(r, f)
    \/ ApproveSpec(r)
    \/ RequestSpecChanges(r)
    \/ ApproveArchitecture(r)
    \/ RequestArchitectureChanges(r)
    \/ Reject(r)
    \/ DecideNothing(r)
    \/ WebhookAnswers(r)
    \/ WebhookFails(r)
    \/ MarkWorkflowFailed(r)

UserStep(r) ==
    \/ CheckProject(r)
    \/ \E w \in Workflows, o \in Operations \ {"create"} : ReadWorkflow(r, w, o)

N8NStep(r) ==
    \/ RunStart(r)
    \/ RunPutFile(r)
    \/ RunCreateIssue(r)
    \/ \E heard \in BOOLEAN :
         RunPostArtifact(r, heard) \/ RunPostStatus(r, heard) \/ RunPostEvent(r, heard)
    \/ RunThrow(r)

Next ==
    \/ UpdateProject
    \/ DeleteProject
    \/ \E r \in Requests : UserStep(r) \/ HubStep(r) \/ Drop(r) \/ N8NStep(r)

Spec == Init /\ [][Next]_vars

\* Every goroutine that can take a step takes one; postJSON always returns,
\* because its client has a timeout.  Nothing is assumed of n8n or the user.
Fairness == \A r \in Requests : WF_vars(HubStep(r))
FairSpec == Spec /\ Fairness

-----------------------------------------------------------------------------
(* Safety *)

HasArtifact(w, t) == \E a \in artifacts[w] : a.type = t
HasApproval(w, k, d) == \E a \in approvals[w] : a.step = k /\ a.decision = d
HasEvent(w, t) == \E e \in events[w] : e.type = t

\* What a status says of the step rows beside it.
StatusAgrees(s, row) ==
    /\ s = "system_analysis_running" => row["system_analysis"] = "running"
    /\ s = "spec_review" => row["system_analysis"] = "done"
    /\ s = "spec_approved" => row["spec_approval"] = "done"
    /\ s \in {"spec_changes_requested", "rejected"} => row["spec_approval"] = "failed"
    /\ s = "architecture_review" => row["architecture"] = "done"
    /\ s = "architecture_approved" => row["architecture_approval"] = "done"
    /\ s = "architecture_changes_requested" => row["architecture_approval"] = "failed"
    /\ s = "ready_for_implementation" => row["ready_for_implementation"] = "done"
    /\ s = "failed" => \E k \in StepKeys : row[k] = "failed"

\* The status of a workflow row never contradicts its step rows, whatever the
\* order of user requests, late n8n callbacks and failure marks: every
\* transaction that writes one writes the other (service.go:281-449).
StatusMatchesSteps ==
    \A w \in Workflows : Exists(w) => StatusAgrees(status[w], steps[w])

\* Every status is backed by the row that explains it: a review by its
\* artifact, a decision by its approval row, a failure by its event.  A page
\* that shows the status can always show why (service.go:281-317, 395-449).
StatusHasEvidence ==
    \A w \in Workflows : Exists(w) =>
        /\ status[w] = "spec_review" => HasArtifact(w, "spec")
        /\ status[w] = "architecture_review" => HasArtifact(w, "architecture")
        /\ status[w] = "ready_for_implementation" => HasArtifact(w, "codex_prompt")
        /\ status[w] = "spec_approved" => HasApproval(w, "spec_approval", "approved")
        /\ status[w] = "spec_changes_requested" =>
              HasApproval(w, "spec_approval", "changes_requested")
        /\ status[w] = "rejected" => HasApproval(w, "spec_approval", "rejected")
        /\ status[w] = "architecture_approved" =>
              HasApproval(w, "architecture_approval", "approved")
        /\ status[w] = "architecture_changes_requested" =>
              HasApproval(w, "architecture_approval", "changes_requested")
        /\ status[w] = "failed" =>
              HasEvent(w, "n8n_intake_failed") \/ HasEvent(w, "n8n_approval_failed")

\* A GitHub issue says "Spec: approved via Hub" and "Architecture: approved
\* via Hub" (orchestrator-ai-feature-delivery-v0.json:55).  Both are true of
\* the rows of its workflow, although the Hub lets any decision be taken in
\* any status and sends n8n what it read before its transaction.
IssueOnlyAfterBothApprovals ==
    \A i \in issues : Exists(i.wf) =>
        /\ HasApproval(i.wf, "spec_approval", "approved")
        /\ HasApproval(i.wf, "architecture_approval", "approved")

\* However often a stage is approved, and however late its runs report, a
\* workflow lists one spec and one architecture: a second run cannot create
\* the file and throws before it reports.
OneDocumentPerStage ==
    \A w \in Workflows : \A a, b \in artifacts[w] :
        a.type = b.type /\ a.type # "codex_prompt" => a = b

-----------------------------------------------------------------------------
(* The promise to the user *)

Granted == [w \in Workflows |->
    {StageOf(op[r]) : r \in {q \in Requests : wf[q] = w /\ run[q] # "none"}}]

Published == [w \in Workflows |->
    {d.stage : d \in {e \in documents : e.feature = feature[w]}}
      \cup {"codex" : i \in {j \in issues : j.wf = w}}]

Gates == INSTANCE StageGates WITH granted <- Granted, published <- Published

\* The requests, their stale payloads and the n8n runs implement StageGates.
ImplementsGates == Gates!Spec

-----------------------------------------------------------------------------
(* Liveness *)

\* Every request is answered or dropped: no handler waits for n8n for ever,
\* even when n8n never takes the call up (client.go:33-44).
EveryRequestIsAnswered ==
    \A r \in Requests : pc[r] \in InFlight ~> pc[r] \in {"answered", "dropped"}

AnalysisRunning(r) ==
    wf[r] \in Workflows /\ status[wf[r]] = "system_analysis_running"

\* A workflow does not stay in system_analysis_running: n8n reports, or the
\* Hub marks it failed.  The one way to get stuck is to lose the request that
\* created it before it could mark the failure (service.go:248-250).
AnalysisIsResolved ==
    \A r \in Requests :
        pc[r] = "waiting" /\ op[r] = "create"
          ~> pc[r] = "dropped" \/ ~AnalysisRunning(r)

=============================================================================
