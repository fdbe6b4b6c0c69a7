--------------------- MODULE OrchestratorWorkflowProofs ---------------------
(***************************************************************************)
(* Theorems of OrchestratorWorkflow, for any number of workflows, features *)
(* and requests and any bound on the drops.                                *)
(***************************************************************************)
EXTENDS OrchestratorWorkflow, TLAPS

-----------------------------------------------------------------------------
(* Type correctness                                                        *)
(*                                                                         *)
(* A handler that is past its read names a workflow and an operation, and  *)
(* so does the run it started; a run only exists for a notifying request.  *)

RequestOK ==
    \A r \in Requests :
        /\ pc[r] \in {"read", "waiting", "failing"} => wf[r] \in Workflows
        /\ pc[r] = "checked" => op[r] = "create"
        /\ pc[r] \in {"waiting", "failing"} => op[r] \in Notifying
        /\ pc[r] \in {"idle", "checked", "read"} => run[r] = "none"
        /\ run[r] # "none" => /\ wf[r] \in Workflows
                              /\ op[r] \in Notifying
        /\ wf[r] \in Workflows => status[wf[r]] # "absent"

\* A row that was ever inserted has a feature id.
FeatureOK == \A w \in Workflows : status[w] # "absent" => feature[w] \in Features

Typing == TypeOK /\ RequestOK /\ FeatureOK

LEMMA InitTyping == Init => Typing
BY NoValueAssumption, MaxDropsAssumption DEF Init, Typing, TypeOK, RequestOK, FeatureOK, NoSteps, RequestStates,
   RunStates, StepStatuses, WorkflowStatuses

LEMMA ProjectTyping ==
    ASSUME Typing, UpdateProject \/ DeleteProject
    PROVE  Typing'
<1>1. CASE UpdateProject
  BY <1>1 DEF UpdateProject, Typing, TypeOK, RequestOK, FeatureOK, hubVars, n8nVars
<1>2. CASE DeleteProject
  BY <1>2 DEF DeleteProject, Typing, TypeOK, RequestOK, FeatureOK, hubVars, n8nVars, NoSteps,
     StepStatuses, Exists, WorkflowStatuses
<1>3. QED
  BY <1>1, <1>2

LEMMA UserTyping ==
    ASSUME Typing, NEW r \in Requests, UserStep(r)
    PROVE  Typing'
<1>1. CASE CheckProject(r)
  BY <1>1 DEF CheckProject, Typing, TypeOK, RequestOK, FeatureOK, dbVars, n8nVars, Goto,
     RequestStates, Operations
<1>2. ASSUME NEW w \in Workflows, NEW o \in Operations \ {"create"}, ReadWorkflow(r, w, o)
      PROVE  Typing'
  <2>1. {a.type : a \in artifacts[w]} \in SUBSET ArtifactTypes
    BY DEF Typing, TypeOK, Artifact
  <2>2. QED
    BY <1>2, <2>1 DEF ReadWorkflow, Typing, TypeOK, RequestOK, FeatureOK, dbVars, n8nVars, Goto,
       RequestStates, Operations
<1>3. QED
  BY <1>1, <1>2 DEF UserStep

\* One UPDATE of a step row, of a status, keeps the types and the rows.
LEMMA StepUpdate ==
    ASSUME Typing, NEW w \in Workflows, NEW k \in StepKeys, NEW s \in StepStatuses,
           SetStep(w, k, s)
    PROVE  steps' \in [Workflows -> [StepKeys -> StepStatuses]]
BY DEF Typing, TypeOK, SetStep

LEMMA StatusUpdate ==
    ASSUME Typing, NEW w \in Workflows, Exists(w), NEW s \in WorkflowStatuses, SetStatus(w, s)
    PROVE  /\ status' \in [Workflows -> WorkflowStatuses \cup {"absent", "deleted"}]
           /\ \A v \in Workflows : status[v] = "absent" <=> status'[v] = "absent"
BY DEF Typing, TypeOK, SetStatus, Exists, WorkflowStatuses

LEMMA CommitTyping ==
    ASSUME Typing, NEW r \in Requests, NEW w \in Workflows, NEW f \in Features,
           CommitWorkflow(r, w, f)
    PROVE  Typing'
<1>1. [by |-> r, type |-> "idea_created"] \in Event
  BY DEF Event, EventTypes
<1>2. DefaultSteps \in [StepKeys -> StepStatuses]
  BY DEF DefaultSteps, NoSteps, StepKeys, StepStatuses
<1>3. TypeOK'
  BY <1>1, <1>2 DEF CommitWorkflow, Typing, TypeOK, SetStatus, InsertEvent, Goto, RunTo,
     RequestStates, RunStates, WorkflowStatuses
<1>4. op[r] = "create"
  BY DEF CommitWorkflow, Typing, RequestOK
<1>5. RequestOK'
  BY <1>4 DEF CommitWorkflow, Typing, TypeOK, RequestOK, SetStatus, Goto, RunTo, Notifying
<1>6. FeatureOK'
  BY DEF CommitWorkflow, Typing, TypeOK, FeatureOK, SetStatus
<1>7. QED
  BY <1>3, <1>5, <1>6 DEF Typing

\* The five decisions are one transaction with different arguments.
LEMMA DecideTyping ==
    ASSUME Typing, NEW r \in Requests, NEW o \in Operations, NEW k \in StepKeys,
           NEW d \in Decisions, NEW s \in WorkflowStatuses, NEW t \in StepStatuses,
           Decide(r, o, k, d, s, t)
    PROVE  Typing'
<1>1. /\ [by |-> r, step |-> k, decision |-> d] \in Approval
      /\ [by |-> r, type |-> d] \in Event
  BY DEF Approval, Event, EventTypes
<1>2. wf[r] \in Workflows
  BY DEF Decide, Typing, RequestOK
<1>3. TypeOK'
  BY <1>1, <1>2 DEF Decide, Typing, TypeOK, SetStatus, SetStep, InsertApproval, InsertEvent,
     Goto, RunTo, RequestStates, RunStates
<1>4. RequestOK' /\ FeatureOK'
  BY <1>2 DEF Decide, Typing, TypeOK, RequestOK, FeatureOK, SetStatus, Goto, RunTo,
     RequestStates, Exists, WorkflowStatuses
<1>5. QED
  BY <1>3, <1>4 DEF Typing

LEMMA MarkTyping ==
    ASSUME Typing, NEW r \in Requests, MarkWorkflowFailed(r)
    PROVE  Typing'
<1>1. wf[r] \in Workflows /\ op[r] \in Notifying
  BY DEF MarkWorkflowFailed, Typing, RequestOK
<1>2. BlamedStep(op[r]) \in StepKeys
  BY <1>1 DEF BlamedStep, Notifying, StepKeys
<1>3. [by |-> r, type |-> FailureEvent(op[r])] \in Event
  BY DEF Event, EventTypes, FailureEvent
<1>4. /\ status' \in [Workflows -> WorkflowStatuses \cup {"absent", "deleted"}]
      /\ steps' \in [Workflows -> [StepKeys -> StepStatuses]]
      /\ events' \in [Workflows -> SUBSET Event]
      /\ \A w \in Workflows : status[w] = "absent" <=> status'[w] = "absent"
  <2>1. CASE Exists(wf[r])
    <3>1. "failed" \in StepStatuses /\ "failed" \in WorkflowStatuses
      BY DEF StepStatuses, WorkflowStatuses
    <3>2. /\ SetStatus(wf[r], "failed")
          /\ SetStep(wf[r], BlamedStep(op[r]), "failed")
          /\ InsertEvent(wf[r], r, FailureEvent(op[r]))
      BY <2>1 DEF MarkWorkflowFailed
    <3>3. events' \in [Workflows -> SUBSET Event]
      BY <1>1, <1>3, <3>2 DEF InsertEvent, Typing, TypeOK
    <3>4. QED
      BY <1>1, <1>2, <2>1, <3>1, <3>2, <3>3, StepUpdate, StatusUpdate
  <2>2. CASE ~Exists(wf[r])
    BY <2>2 DEF MarkWorkflowFailed, Typing, TypeOK
  <2>3. QED
    BY <2>1, <2>2
<1>5. Typing'
  BY <1>4 DEF MarkWorkflowFailed, Typing, TypeOK, RequestOK, FeatureOK, Goto, n8nVars,
     RequestStates
<1>6. QED
  BY <1>5

LEMMA HubTyping ==
    ASSUME Typing, NEW r \in Requests, HubStep(r)
    PROVE  Typing'
<1>1. ASSUME NEW w \in Workflows, NEW f \in Features, CommitWorkflow(r, w, f)
      PROVE  Typing'
  BY <1>1, CommitTyping
<1>2. ASSUME NEW f \in Features, RefuseWorkflow(r, f)
      PROVE  Typing'
  BY <1>2 DEF RefuseWorkflow, Typing, TypeOK, RequestOK, FeatureOK, dbVars, n8nVars, Goto,
     RequestStates
<1>3. CASE ApproveSpec(r)
  BY <1>3, DecideTyping DEF ApproveSpec, Operations, StepKeys, Decisions, WorkflowStatuses,
     StepStatuses
<1>4. CASE RequestSpecChanges(r)
  BY <1>4, DecideTyping DEF RequestSpecChanges, Operations, StepKeys, Decisions,
     WorkflowStatuses, StepStatuses
<1>5. CASE ApproveArchitecture(r)
  BY <1>5, DecideTyping DEF ApproveArchitecture, Operations, StepKeys, Decisions,
     WorkflowStatuses, StepStatuses
<1>6. CASE RequestArchitectureChanges(r)
  BY <1>6, DecideTyping DEF RequestArchitectureChanges, Operations, StepKeys, Decisions,
     WorkflowStatuses, StepStatuses
<1>7. CASE Reject(r)
  BY <1>7, DecideTyping DEF Reject, Operations, StepKeys, Decisions, WorkflowStatuses,
     StepStatuses
<1>8. CASE DecideNothing(r)
  BY <1>8 DEF DecideNothing, Typing, TypeOK, RequestOK, FeatureOK, dbVars, n8nVars, Goto,
     RequestStates
<1>9. CASE WebhookAnswers(r) \/ WebhookFails(r)
  BY <1>9 DEF WebhookAnswers, WebhookFails, Typing, TypeOK, RequestOK, FeatureOK, dbVars,
     n8nVars, Goto, RequestStates
<1>10. CASE MarkWorkflowFailed(r)
  BY <1>10, MarkTyping
<1>11. QED
  BY <1>1, <1>2, <1>3, <1>4, <1>5, <1>6, <1>7, <1>8, <1>9, <1>10 DEF HubStep

LEMMA DropTyping ==
    ASSUME Typing, NEW r \in Requests, Drop(r)
    PROVE  Typing'
BY MaxDropsAssumption DEF Drop, Typing, TypeOK, RequestOK, FeatureOK, dbVars, n8nVars, Goto, RequestStates,
   InFlight

\* A run has a workflow and a stage, and moves only its own label.
LEMMA RunFacts ==
    ASSUME Typing, NEW r \in Requests, run[r] # "none"
    PROVE  /\ wf[r] \in Workflows
           /\ Stage(r) \in Stages
           /\ ArtifactOf(Stage(r)) \in ArtifactTypes
           /\ feature[wf[r]] \in Features
           /\ pc[r] \notin {"idle", "checked", "read"}
BY DEF Typing, TypeOK, RequestOK, FeatureOK, Stage, StageOf, Stages, Notifying, ArtifactOf,
   ArtifactTypes

LEMMA N8NTyping ==
    ASSUME Typing, NEW r \in Requests, N8NStep(r)
    PROVE  Typing'
<1>1. CASE RunStart(r) \/ RunThrow(r)
  BY <1>1 DEF RunStart, RunThrow, Typing, TypeOK, RequestOK, FeatureOK, dbVars, hubVars, RunTo,
     RunStates, Running
<1>2. CASE RunPutFile(r)
  <2>1. DocumentOf(r) \in Document
    BY <1>2, RunFacts DEF RunPutFile, DocumentOf, Document
  <2>2. QED
    BY <1>2, <2>1 DEF RunPutFile, Typing, TypeOK, RequestOK, FeatureOK, dbVars, hubVars, RunTo,
       RunStates
<1>3. CASE RunCreateIssue(r)
  <2>1. [by |-> r, wf |-> wf[r]] \in Issue
    BY <1>3, RunFacts DEF RunCreateIssue, Issue
  <2>2. QED
    BY <1>3, <2>1 DEF RunCreateIssue, Typing, TypeOK, RequestOK, FeatureOK, dbVars, hubVars,
       RunTo, RunStates
<1>4. ASSUME NEW heard \in BOOLEAN, RunPostArtifact(r, heard)
      PROVE  Typing'
  <2>1. wf[r] \in Workflows /\ Stage(r) \in Stages /\ ArtifactOf(Stage(r)) \in ArtifactTypes
    BY <1>4, RunFacts DEF RunPostArtifact
  <2>2. [by |-> r, type |-> ArtifactOf(Stage(r))] \in Artifact
    BY <2>1 DEF Artifact
  <2>3. /\ status' \in [Workflows -> WorkflowStatuses \cup {"absent", "deleted"}]
        /\ steps' \in [Workflows -> [StepKeys -> StepStatuses]]
        /\ \A w \in Workflows : status[w] = "absent" <=> status'[w] = "absent"
    <3>1. CASE Stage(r) = "intake"
      BY <1>4, <2>1, <3>1, StepUpdate, StatusUpdate DEF RunPostArtifact, StepKeys,
         StepStatuses, WorkflowStatuses
    <3>2. CASE Stage(r) = "architecture"
      BY <1>4, <2>1, <3>2, StepUpdate, StatusUpdate DEF RunPostArtifact, StepKeys,
         StepStatuses, WorkflowStatuses
    <3>3. CASE Stage(r) = "codex"
      BY <1>4, <3>3 DEF RunPostArtifact, Typing, TypeOK
    <3>4. QED
      BY <2>1, <3>1, <3>2, <3>3 DEF Stages
  <2>4. QED
    BY <1>4, <2>1, <2>2, <2>3 DEF RunPostArtifact, Typing, TypeOK, RequestOK, FeatureOK,
       hubVars, InsertArtifact, Continue, RunTo, RunStates
<1>5. ASSUME NEW heard \in BOOLEAN, RunPostStatus(r, heard)
      PROVE  Typing'
  <2>1. wf[r] \in Workflows
    BY <1>5, RunFacts DEF RunPostStatus
  <2>2. QED
    BY <1>5, <2>1 DEF RunPostStatus, Typing, TypeOK, RequestOK, FeatureOK, hubVars, SetStatus,
       SetStep, Continue, RunTo, RunStates, StepStatuses, WorkflowStatuses, Exists
<1>6. ASSUME NEW heard \in BOOLEAN, RunPostEvent(r, heard)
      PROVE  Typing'
  <2>1. wf[r] \in Workflows /\ Stage(r) \in Stages
    BY <1>6, RunFacts DEF RunPostEvent
  <2>2. /\ status' \in [Workflows -> WorkflowStatuses \cup {"absent", "deleted"}]
        /\ steps' \in [Workflows -> [StepKeys -> StepStatuses]]
        /\ events' \in [Workflows -> SUBSET Event]
        /\ \A w \in Workflows : status[w] = "absent" <=> status'[w] = "absent"
    <3>1. ASSUME NEW t \in EventTypes, InsertEvent(wf[r], r, t)
          PROVE  events' \in [Workflows -> SUBSET Event]
      BY <2>1, <3>1 DEF InsertEvent, Event, Typing, TypeOK
    <3>2. CASE Stage(r) = "intake"
      BY <1>6, <2>1, <3>1, <3>2, StepUpdate, StatusUpdate DEF RunPostEvent, StepKeys,
         StepStatuses, WorkflowStatuses, EventTypes
    <3>3. CASE Stage(r) = "architecture"
      BY <1>6, <2>1, <3>1, <3>3, StepUpdate, StatusUpdate DEF RunPostEvent, StepKeys,
         StepStatuses, WorkflowStatuses, EventTypes
    <3>4. CASE Stage(r) = "codex"
      <4>1. steps' \in [Workflows -> [StepKeys -> StepStatuses]]
        <5>1. PICK row : /\ row \in [StepKeys -> StepStatuses]
                         /\ steps' = [steps EXCEPT ![wf[r]] = row]
          BY <1>6, <2>1, <3>4 DEF RunPostEvent, Typing, TypeOK, StepStatuses
        <5>2. QED
          BY <5>1 DEF Typing, TypeOK
      <4>2. QED
        BY <1>6, <2>1, <3>1, <3>4, <4>1, StatusUpdate DEF RunPostEvent, WorkflowStatuses,
           EventTypes
    <3>5. QED
      BY <2>1, <3>2, <3>3, <3>4 DEF Stages
  <2>3. QED
    BY <1>6, <2>1, <2>2 DEF RunPostEvent, Typing, TypeOK, RequestOK, FeatureOK,
       hubVars, Continue, RunTo, RunStates
<1>7. QED
  BY <1>1, <1>2, <1>3, <1>4, <1>5, <1>6 DEF N8NStep

LEMMA TypingStep == Typing /\ [Next]_vars => Typing'
<1>1. SUFFICES ASSUME Typing, [Next]_vars
               PROVE  Typing'
  OBVIOUS
<1>2. CASE UNCHANGED vars
  BY <1>1, <1>2 DEF vars, dbVars, hubVars, n8nVars, Typing, TypeOK, RequestOK, FeatureOK
<1>3. CASE Next
  BY <1>1, <1>3, ProjectTyping, UserTyping, HubTyping, DropTyping, N8NTyping DEF Next
<1>4. QED
  BY <1>1, <1>2, <1>3

\* Every variable keeps its type.
THEOREM TypeCorrect == Spec => []TypeOK
<1>1. Typing => TypeOK
  BY DEF Typing
<1>2. QED
  BY InitTyping, TypingStep, <1>1, PTL DEF Spec

-----------------------------------------------------------------------------
(* Statuses and steps agree                                                *)

\* A transaction that writes a status with a step that agrees with it.
LEMMA AgreeingWrite ==
    ASSUME Typing, StatusMatchesSteps, NEW w \in Workflows, NEW s, NEW k, NEW t,
           SetStatus(w, s), SetStep(w, k, t), StatusAgrees(s, [steps[w] EXCEPT ![k] = t])
    PROVE  StatusMatchesSteps'
BY DEF Typing, TypeOK, StatusMatchesSteps, SetStatus, SetStep, Exists

\* A step that writes neither column.
LEMMA NoWrite ==
    ASSUME StatusMatchesSteps, UNCHANGED <<status, steps>>
    PROVE  StatusMatchesSteps'
BY DEF StatusMatchesSteps, Exists

LEMMA RowTyping ==
    ASSUME Typing, NEW w \in Workflows
    PROVE  steps[w] \in [StepKeys -> StepStatuses]
BY DEF Typing, TypeOK

LEMMA DecideAgrees ==
    ASSUME Typing, StatusMatchesSteps, NEW r \in Requests,
           \/ ApproveSpec(r) \/ RequestSpecChanges(r) \/ ApproveArchitecture(r)
           \/ RequestArchitectureChanges(r) \/ Reject(r)
    PROVE  StatusMatchesSteps'
<1>1. wf[r] \in Workflows
  BY DEF ApproveSpec, RequestSpecChanges, ApproveArchitecture, RequestArchitectureChanges,
     Reject, Decide, Typing, RequestOK
<1> DEFINE row == steps[wf[r]]
<1>2. row \in [StepKeys -> StepStatuses]
  BY <1>1, RowTyping
<1>3. CASE ApproveSpec(r)
  <2>1. StatusAgrees("spec_approved", [row EXCEPT !["spec_approval"] = "done"])
    BY <1>2 DEF StatusAgrees, StepKeys
  <2>2. QED
    BY <1>1, <1>3, <2>1, AgreeingWrite DEF ApproveSpec, Decide
<1>4. CASE RequestSpecChanges(r)
  <2>1. StatusAgrees("spec_changes_requested", [row EXCEPT !["spec_approval"] = "failed"])
    BY <1>2 DEF StatusAgrees, StepKeys
  <2>2. QED
    BY <1>1, <1>4, <2>1, AgreeingWrite DEF RequestSpecChanges, Decide
<1>5. CASE ApproveArchitecture(r)
  <2>1. StatusAgrees("architecture_approved", [row EXCEPT !["architecture_approval"] = "done"])
    BY <1>2 DEF StatusAgrees, StepKeys
  <2>2. QED
    BY <1>1, <1>5, <2>1, AgreeingWrite DEF ApproveArchitecture, Decide
<1>6. CASE RequestArchitectureChanges(r)
  <2>1. StatusAgrees("architecture_changes_requested",
                     [row EXCEPT !["architecture_approval"] = "failed"])
    BY <1>2 DEF StatusAgrees, StepKeys
  <2>2. QED
    BY <1>1, <1>6, <2>1, AgreeingWrite DEF RequestArchitectureChanges, Decide
<1>7. CASE Reject(r)
  <2>1. StatusAgrees("rejected", [row EXCEPT !["spec_approval"] = "failed"])
    BY <1>2 DEF StatusAgrees, StepKeys
  <2>2. QED
    BY <1>1, <1>7, <2>1, AgreeingWrite DEF Reject, Decide
<1>8. QED
  BY <1>3, <1>4, <1>5, <1>6, <1>7

LEMMA HubAgrees ==
    ASSUME Typing, StatusMatchesSteps, NEW r \in Requests, HubStep(r)
    PROVE  StatusMatchesSteps'
<1>1. ASSUME NEW w \in Workflows, NEW f \in Features, CommitWorkflow(r, w, f)
      PROVE  StatusMatchesSteps'
  <2>1. StatusAgrees("system_analysis_running", DefaultSteps)
    BY DEF StatusAgrees, DefaultSteps, NoSteps, StepKeys
  <2>2. QED
    BY <1>1, <2>1 DEF CommitWorkflow, SetStatus, Typing, TypeOK, StatusMatchesSteps, Exists
<1>2. CASE MarkWorkflowFailed(r) /\ Exists(wf[r])
  <2>1. wf[r] \in Workflows /\ BlamedStep(op[r]) \in StepKeys
    BY <1>2 DEF MarkWorkflowFailed, Typing, RequestOK, BlamedStep, Notifying, StepKeys
  <2>2. StatusAgrees("failed", [steps[wf[r]] EXCEPT ![BlamedStep(op[r])] = "failed"])
    BY <2>1, RowTyping DEF StatusAgrees
  <2>3. QED
    BY <1>2, <2>1, <2>2, AgreeingWrite DEF MarkWorkflowFailed
<1>3. CASE MarkWorkflowFailed(r) /\ ~Exists(wf[r])
  BY <1>3, NoWrite DEF MarkWorkflowFailed
<1>4. CASE \/ \E f \in Features : RefuseWorkflow(r, f)
           \/ DecideNothing(r) \/ WebhookAnswers(r) \/ WebhookFails(r)
  BY <1>4, NoWrite DEF RefuseWorkflow, DecideNothing, WebhookAnswers, WebhookFails, dbVars
<1>5. QED
  BY <1>1, <1>2, <1>3, <1>4, DecideAgrees DEF HubStep

LEMMA N8NAgrees ==
    ASSUME Typing, StatusMatchesSteps, NEW r \in Requests, N8NStep(r)
    PROVE  StatusMatchesSteps'
<1>1. CASE RunStart(r) \/ RunPutFile(r) \/ RunCreateIssue(r) \/ RunThrow(r)
  BY <1>1, NoWrite DEF RunStart, RunPutFile, RunCreateIssue, RunThrow, dbVars
<1>2. ASSUME NEW heard \in BOOLEAN,
             RunPostArtifact(r, heard) \/ RunPostStatus(r, heard) \/ RunPostEvent(r, heard)
      PROVE  StatusMatchesSteps'
  <2>1. wf[r] \in Workflows /\ Stage(r) \in Stages
    BY <1>2, RunFacts DEF RunPostArtifact, RunPostStatus, RunPostEvent
  <2>2. steps[wf[r]] \in [StepKeys -> StepStatuses]
    BY <2>1, RowTyping
  <2>3. /\ StatusAgrees("spec_review", [steps[wf[r]] EXCEPT !["system_analysis"] = "done"])
        /\ StatusAgrees("architecture_review", [steps[wf[r]] EXCEPT !["architecture"] = "done"])
        /\ StatusAgrees("ready_for_implementation",
                        [steps[wf[r]] EXCEPT !["ready_for_implementation"] = "done"])
        /\ StatusAgrees("ready_for_implementation",
                        [steps[wf[r]] EXCEPT !["codex_prompt_generated"] = "done",
                                             !["ready_for_implementation"] = "done"])
    BY <2>2 DEF StatusAgrees, StepKeys
  <2>4. CASE Stage(r) = "intake" /\ ~RunPostStatus(r, heard)
    BY <1>2, <2>1, <2>3, <2>4, AgreeingWrite DEF RunPostArtifact, RunPostEvent
  <2>5. CASE Stage(r) = "architecture" /\ ~RunPostStatus(r, heard)
    BY <1>2, <2>1, <2>3, <2>5, AgreeingWrite DEF RunPostArtifact, RunPostEvent
  <2>6. CASE Stage(r) = "codex" /\ RunPostArtifact(r, heard)
    BY <2>6, NoWrite DEF RunPostArtifact
  <2>7. CASE RunPostStatus(r, heard)
    BY <2>1, <2>3, <2>7, AgreeingWrite DEF RunPostStatus
  <2>8. CASE Stage(r) = "codex" /\ RunPostEvent(r, heard)
    BY <2>1, <2>3, <2>8 DEF RunPostEvent, SetStatus, Typing, TypeOK, StatusMatchesSteps, Exists
  <2>9. QED
    BY <1>2, <2>1, <2>4, <2>5, <2>6, <2>7, <2>8 DEF Stages
<1>3. QED
  BY <1>1, <1>2 DEF N8NStep

\* The status of a row and its steps agree in every state, for any number of
\* requests and runs in flight.
THEOREM StatusesAgree == Spec => []StatusMatchesSteps
<1>1. Init => StatusMatchesSteps
  BY DEF Init, StatusMatchesSteps, Exists, WorkflowStatuses
<1>2. Typing /\ StatusMatchesSteps /\ [Next]_vars => StatusMatchesSteps'
  <2>1. SUFFICES ASSUME Typing, StatusMatchesSteps, [Next]_vars
                 PROVE  StatusMatchesSteps'
    OBVIOUS
  <2>2. CASE UNCHANGED vars
    BY <2>1, <2>2, NoWrite DEF vars, dbVars
  <2>3. CASE UpdateProject
    BY <2>1, <2>3, NoWrite DEF UpdateProject
  <2>4. CASE DeleteProject
    BY <2>1, <2>4 DEF DeleteProject, StatusMatchesSteps, Exists, WorkflowStatuses
  <2>5. ASSUME NEW r \in Requests, UserStep(r) \/ Drop(r)
        PROVE  StatusMatchesSteps'
    BY <2>1, <2>5, NoWrite DEF UserStep, CheckProject, ReadWorkflow, Drop, dbVars
  <2>6. QED
    BY <2>1, <2>2, <2>3, <2>4, <2>5, HubAgrees, N8NAgrees DEF Next
<1>3. QED
  BY InitTyping, TypingStep, <1>1, <1>2, PTL DEF Spec

-----------------------------------------------------------------------------
(* Issues come after both approvals                                        *)
(*                                                                         *)
(* The chain behind the invariant: an issue was opened by a run with an    *)
(* architecture in its payload; the payload was read from the rows of the  *)
(* workflow, where rows stay; the architecture row was posted by a run     *)
(* that an approval of the spec started; and a decision that starts a run  *)
(* leaves its approval row.                                                *)

\* The approval row of the decision that started run r is there.
ApprovalKept(r) ==
    /\ op[r] = "approve_spec" =>
          [by |-> r, step |-> "spec_approval", decision |-> "approved"] \in approvals[wf[r]]
    /\ op[r] = "approve_architecture" =>
          [by |-> r, step |-> "architecture_approval", decision |-> "approved"] \in approvals[wf[r]]

\* Run r was started for workflow w with the preview its stage needs.
StartedFor(r, w) == run[r] # "none" /\ wf[r] = w /\ PreviewAvailable(r)

RequestChain(r) ==
    /\ run[r] # "none" /\ Exists(wf[r]) => ApprovalKept(r)
    /\ wf[r] \in Workflows /\ Exists(wf[r]) => \A t \in seen[r] : HasArtifact(wf[r], t)
    /\ pc[r] \in {"idle", "checked"} => seen[r] = {}
    /\ run[r] \in Running \ {"inbox"} => PreviewAvailable(r)

Chain ==
    /\ \A r \in Requests : RequestChain(r)
    /\ \A w \in Workflows : \A a \in artifacts[w] :
         StartedFor(a.by, w) /\ a.type = ArtifactOf(Stage(a.by))
    /\ \A i \in issues : StartedFor(i.by, i.wf) /\ op[i.by] = "approve_architecture"

\* The chain gives the invariant.
LEMMA ChainSuffices == Typing /\ Chain => IssueOnlyAfterBothApprovals
<1>1. SUFFICES ASSUME Typing, Chain, NEW i \in issues, Exists(i.wf)
               PROVE  /\ HasApproval(i.wf, "spec_approval", "approved")
                      /\ HasApproval(i.wf, "architecture_approval", "approved")
  BY DEF IssueOnlyAfterBothApprovals
<1>2. /\ i.by \in Requests /\ i.wf \in Workflows
      /\ run[i.by] # "none" /\ wf[i.by] = i.wf /\ PreviewAvailable(i.by)
      /\ op[i.by] = "approve_architecture"
  BY <1>1 DEF Typing, TypeOK, Issue, Chain, RequestChain, StartedFor
<1>3. HasApproval(i.wf, "architecture_approval", "approved")
  <2>1. ApprovalKept(i.by)
    BY <1>1, <1>2 DEF Chain, RequestChain
  <2>2. [by |-> i.by, step |-> "architecture_approval", decision |-> "approved"]
           \in approvals[i.wf]
    BY <1>2, <2>1 DEF ApprovalKept
  <2>3. QED
    BY <2>2 DEF HasApproval
<1>4. HasArtifact(i.wf, "architecture")
  BY <1>1, <1>2 DEF PreviewAvailable, Stage, StageOf, Chain, RequestChain
<1>5. PICK a \in artifacts[i.wf] : a.type = "architecture"
  BY <1>4 DEF HasArtifact
<1>6. a.by \in Requests
  BY <1>1, <1>2, <1>5 DEF Typing, TypeOK, Artifact
<1>7. run[a.by] # "none" /\ wf[a.by] = i.wf /\ ArtifactOf(Stage(a.by)) = "architecture"
  BY <1>1, <1>2, <1>5 DEF Chain, RequestChain, StartedFor
<1>8. op[a.by] \in Notifying
  BY <1>1, <1>6, <1>7 DEF Typing, RequestOK
<1>9. op[a.by] = "approve_spec"
  BY <1>7, <1>8 DEF ArtifactOf, Stage, StageOf, Notifying
<1>10. HasApproval(i.wf, "spec_approval", "approved")
  <2>1. ApprovalKept(a.by)
    BY <1>1, <1>6, <1>7 DEF Chain, RequestChain
  <2>2. [by |-> a.by, step |-> "spec_approval", decision |-> "approved"] \in approvals[i.wf]
    BY <1>7, <1>9, <2>1 DEF ApprovalKept
  <2>3. QED
    BY <2>2 DEF HasApproval
<1>11. QED
  BY <1>3, <1>10

LEMMA InitChain == Init => Chain
BY NoValueAssumption DEF Init, Chain, RequestChain, Running

LEMMA ProjectChain ==
    ASSUME Typing, Chain, UpdateProject \/ DeleteProject
    PROVE  Chain'
<1>1. CASE UpdateProject
  BY <1>1 DEF UpdateProject, Chain, RequestChain, ApprovalKept, StartedFor, PreviewAvailable, Stage,
     HasArtifact, Exists, hubVars, n8nVars
<1>2. CASE DeleteProject
  <2>1. \A w \in Workflows : ~Exists(w)'
    BY <1>2 DEF DeleteProject, Exists, WorkflowStatuses
  <2>2. UNCHANGED <<pc, op, wf, seen, run, issues>> /\ \A w \in Workflows : artifacts'[w] = {}
    BY <1>2 DEF DeleteProject, hubVars, n8nVars
  <2>3. \A r \in Requests : run[r] # "none" => wf[r] \in Workflows
    BY DEF Typing, RequestOK
  <2>4. QED
    BY <2>1, <2>2, <2>3 DEF Chain, RequestChain, StartedFor, PreviewAvailable, Stage
<1>3. QED
  BY <1>1, <1>2

\* A step that leaves the rows' existence, the requests that have a run and
\* the runs' labels past the inbox as they are, and only inserts rows.
LEMMA ChainKept ==
    ASSUME Typing, Chain,
           UNCHANGED <<op, wf, seen, issues>>,
           \A w \in Workflows : Exists(w)' <=> Exists(w),
           \A w \in Workflows : approvals[w] \subseteq approvals'[w],
           UNCHANGED artifacts,
           \A r \in Requests :
              /\ run'[r] # "none" <=> run[r] # "none"
              /\ run'[r] \in Running \ {"inbox"} => PreviewAvailable(r)
              /\ pc'[r] \in {"idle", "checked"} => pc[r] \in {"idle", "checked"}
    PROVE  Chain'
<1>1. \A r \in Requests : run[r] # "none" => wf[r] \in Workflows
  BY DEF Typing, RequestOK
<1>2. \A r \in Requests : ApprovalKept(r) /\ wf[r] \in Workflows => ApprovalKept(r)'
  BY DEF ApprovalKept
<1>3. \A r \in Requests : PreviewAvailable(r)' <=> PreviewAvailable(r)
  BY DEF PreviewAvailable, Stage
<1>4. \A w \in Workflows : \A a \in artifacts[w] : a.by \in Requests
  BY DEF Typing, TypeOK, Artifact
<1>5. \A i \in issues : i.by \in Requests
  BY DEF Typing, TypeOK, Issue
<1>6. \A r \in Requests : Stage(r)' = Stage(r)
  BY DEF Stage
<1>7. \A w, t : HasArtifact(w, t)' <=> HasArtifact(w, t)
  BY DEF HasArtifact
<1>8. QED
  BY <1>1, <1>2, <1>3, <1>4, <1>5, <1>6, <1>7 DEF Chain, RequestChain, StartedFor

\* A started run stays started for its workflow with its preview.
LEMMA StartedKept ==
    ASSUME NEW q \in Requests, NEW w, StartedFor(q, w), op'[q] = op[q], wf'[q] = wf[q],
           seen'[q] = seen[q], run'[q] # "none"
    PROVE  StartedFor(q, w)' /\ Stage(q)' = Stage(q)
BY DEF StartedFor, PreviewAvailable, Stage

LEMMA UserChain ==
    ASSUME Typing, Chain, NEW r \in Requests, UserStep(r)
    PROVE  Chain'
<1>1. /\ pc[r] = "idle" /\ run[r] = "none"
      /\ UNCHANGED <<status, artifacts, approvals, run, issues>>
      /\ \A q \in Requests : q # r =>
           op'[q] = op[q] /\ wf'[q] = wf[q] /\ seen'[q] = seen[q] /\ pc'[q] = pc[q]
  BY DEF UserStep, CheckProject, ReadWorkflow, Typing, TypeOK, RequestOK, dbVars, n8nVars, Goto
<1>2. ASSUME NEW q \in Requests, q # r
      PROVE  RequestChain(q)'
  BY <1>1, <1>2 DEF Chain, RequestChain, ApprovalKept, PreviewAvailable, Stage, HasArtifact, Exists
<1>3. RequestChain(r)'
  <2>1. CASE CheckProject(r)
    BY <1>1, <2>1 DEF CheckProject, Typing, TypeOK, Chain, RequestChain, Running, HasArtifact, Exists
  <2>2. ASSUME NEW w \in Workflows, NEW o \in Operations \ {"create"}, ReadWorkflow(r, w, o)
        PROVE  RequestChain(r)'
    <3>1. /\ wf'[r] = w /\ seen'[r] = {a.type : a \in artifacts[w]}
          /\ pc'[r] \notin {"idle", "checked"}
      BY <2>2 DEF ReadWorkflow, Typing, TypeOK, Goto
    <3>2. QED
      BY <1>1, <3>1 DEF RequestChain, HasArtifact, Running
  <2>3. QED
    BY <2>1, <2>2 DEF UserStep
<1>4. ASSUME NEW w \in Workflows, NEW a \in artifacts'[w]
      PROVE  StartedFor(a.by, w)' /\ a.type = ArtifactOf(Stage(a.by)')
  <2>1. a.by \in Requests /\ StartedFor(a.by, w) /\ a.type = ArtifactOf(Stage(a.by))
    BY <1>1, <1>4 DEF Typing, TypeOK, Artifact, Chain
  <2>2. a.by # r /\ run'[a.by] # "none"
    BY <1>1, <2>1 DEF StartedFor
  <2>3. QED
    BY <1>1, <2>1, <2>2, StartedKept
<1>5. ASSUME NEW i \in issues'
      PROVE  StartedFor(i.by, i.wf)' /\ op'[i.by] = "approve_architecture"
  <2>1. i.by \in Requests /\ StartedFor(i.by, i.wf) /\ op[i.by] = "approve_architecture"
    BY <1>1, <1>5 DEF Typing, TypeOK, Issue, Chain
  <2>2. i.by # r /\ run'[i.by] # "none"
    BY <1>1, <2>1 DEF StartedFor
  <2>3. QED
    BY <1>1, <2>1, <2>2, StartedKept
<1>6. QED
  BY <1>2, <1>3, <1>4, <1>5 DEF Chain, ArtifactOf

\* A new workflow has no artifacts yet, and no request names it.
LEMMA CommitChain ==
    ASSUME Typing, Chain, NEW r \in Requests, NEW w \in Workflows, NEW f \in Features,
           CommitWorkflow(r, w, f)
    PROVE  Chain'
<1>1. /\ pc[r] = "checked" /\ run[r] = "none" /\ op[r] = "create" /\ seen[r] = {}
      /\ status[w] = "absent"
      /\ UNCHANGED <<artifacts, approvals, op, seen, issues>>
      /\ wf'[r] = w /\ run'[r] = "inbox" /\ pc'[r] = "waiting"
      /\ \A q \in Requests : q # r => wf'[q] = wf[q] /\ run'[q] = run[q] /\ pc'[q] = pc[q]
      /\ \A v \in Workflows : v # w => status'[v] = status[v]
  BY DEF CommitWorkflow, Typing, TypeOK, RequestOK, Chain, RequestChain, Goto, RunTo, SetStatus
<1>2. ASSUME NEW q \in Requests, q # r
      PROVE  RequestChain(q)'
  <2>1. run[q] # "none" => wf[q] \in Workflows
    BY DEF Typing, RequestOK
  <2>2. wf[q] \in Workflows => wf[q] # w
    BY <1>1 DEF Typing, RequestOK
  <2>3. QED
    BY <1>1, <1>2, <2>1, <2>2 DEF Chain, RequestChain, ApprovalKept, PreviewAvailable, Stage,
       HasArtifact, Exists
<1>3. RequestChain(r)'
  BY <1>1 DEF RequestChain, ApprovalKept, Running
<1>4. ASSUME NEW v \in Workflows, NEW a \in artifacts'[v]
      PROVE  StartedFor(a.by, v)' /\ a.type = ArtifactOf(Stage(a.by)')
  <2>1. a.by \in Requests /\ StartedFor(a.by, v) /\ a.type = ArtifactOf(Stage(a.by))
    BY <1>1, <1>4 DEF Typing, TypeOK, Artifact, Chain
  <2>2. a.by # r
    BY <1>1, <2>1 DEF StartedFor
  <2>3. run'[a.by] # "none"
    BY <1>1, <2>1, <2>2 DEF StartedFor
  <2>4. QED
    BY <1>1, <2>1, <2>2, <2>3, StartedKept
<1>5. ASSUME NEW i \in issues'
      PROVE  StartedFor(i.by, i.wf)' /\ op'[i.by] = "approve_architecture"
  <2>1. i.by \in Requests /\ StartedFor(i.by, i.wf) /\ op[i.by] = "approve_architecture"
    BY <1>1, <1>5 DEF Typing, TypeOK, Issue, Chain
  <2>2. i.by # r
    BY <1>1, <2>1 DEF StartedFor
  <2>3. run'[i.by] # "none"
    BY <1>1, <2>1, <2>2 DEF StartedFor
  <2>4. QED
    BY <1>1, <2>1, <2>2, <2>3, StartedKept
<1>6. QED
  BY <1>2, <1>3, <1>4, <1>5 DEF Chain, ArtifactOf

\* A decision leaves its approval row before its run exists.
LEMMA DecideChain ==
    ASSUME Typing, Chain, NEW r \in Requests, NEW o \in Operations, NEW k \in StepKeys,
           NEW d \in Decisions, NEW s \in WorkflowStatuses, NEW t \in StepStatuses,
           Decide(r, o, k, d, s, t),
           o = "approve_spec" => k = "spec_approval" /\ d = "approved",
           o = "approve_architecture" => k = "architecture_approval" /\ d = "approved"
    PROVE  Chain'
<1>1. /\ pc[r] = "read" /\ run[r] = "none" /\ op[r] = o /\ wf[r] \in Workflows
      /\ UNCHANGED <<artifacts, op, wf, seen, issues>>
      /\ pc'[r] \in {"waiting", "answered"} /\ run'[r] \in {"none", "inbox"}
      /\ \A q \in Requests : q # r => run'[q] = run[q] /\ pc'[q] = pc[q]
      /\ \A v \in Workflows : Exists(v)' <=> Exists(v)
      /\ \A v \in Workflows : approvals[v] \subseteq approvals'[v]
  BY DEF Decide, Typing, TypeOK, RequestOK, Goto, RunTo, SetStatus, Exists, InsertApproval
<1>2. [by |-> r, step |-> k, decision |-> d] \in approvals'[wf[r]]
  BY <1>1 DEF Decide, InsertApproval, Typing, TypeOK
<1>3. ASSUME NEW q \in Requests, q # r
      PROVE  RequestChain(q)'
  <2>1. run[q] # "none" => wf[q] \in Workflows
    BY DEF Typing, RequestOK
  <2>2. RequestChain(q)
    BY DEF Chain
  <2>3. run[q] # "none" /\ Exists(wf[q]) => ApprovalKept(q)'
    BY <1>1, <2>1, <2>2 DEF RequestChain, ApprovalKept
  <2>4. QED
    BY <1>1, <1>3, <2>1, <2>2, <2>3 DEF RequestChain, PreviewAvailable, Stage, HasArtifact
<1>4. RequestChain(r)'
  <2>1. ApprovalKept(r)'
    BY <1>1, <1>2 DEF ApprovalKept
  <2>2. QED
    BY <1>1, <2>1 DEF Chain, RequestChain, HasArtifact, Running
<1>5. ASSUME NEW v \in Workflows, NEW a \in artifacts'[v]
      PROVE  StartedFor(a.by, v)' /\ a.type = ArtifactOf(Stage(a.by)')
  <2>1. a.by \in Requests /\ StartedFor(a.by, v) /\ a.type = ArtifactOf(Stage(a.by))
    BY <1>1, <1>5 DEF Typing, TypeOK, Artifact, Chain
  <2>2. run'[a.by] # "none"
    BY <1>1, <2>1 DEF StartedFor
  <2>3. QED
    BY <1>1, <2>1, <2>2, StartedKept
<1>6. ASSUME NEW i \in issues'
      PROVE  StartedFor(i.by, i.wf)' /\ op'[i.by] = "approve_architecture"
  <2>1. i.by \in Requests /\ StartedFor(i.by, i.wf) /\ op[i.by] = "approve_architecture"
    BY <1>1, <1>6 DEF Typing, TypeOK, Issue, Chain
  <2>2. run'[i.by] # "none"
    BY <1>1, <2>1 DEF StartedFor
  <2>3. QED
    BY <1>1, <2>1, <2>2, StartedKept
<1>7. QED
  BY <1>3, <1>4, <1>5, <1>6 DEF Chain, ArtifactOf

LEMMA HubChain ==
    ASSUME Typing, Chain, NEW r \in Requests, HubStep(r) \/ Drop(r)
    PROVE  Chain'
<1>1. CASE ApproveSpec(r)
  BY <1>1, DecideChain DEF ApproveSpec, Operations, StepKeys, Decisions, WorkflowStatuses,
     StepStatuses
<1>2. CASE RequestSpecChanges(r)
  BY <1>2, DecideChain DEF RequestSpecChanges, Operations, StepKeys, Decisions,
     WorkflowStatuses, StepStatuses
<1>3. CASE ApproveArchitecture(r)
  BY <1>3, DecideChain DEF ApproveArchitecture, Operations, StepKeys, Decisions,
     WorkflowStatuses, StepStatuses
<1>4. CASE RequestArchitectureChanges(r)
  BY <1>4, DecideChain DEF RequestArchitectureChanges, Operations, StepKeys, Decisions,
     WorkflowStatuses, StepStatuses
<1>5. CASE Reject(r)
  BY <1>5, DecideChain DEF Reject, Operations, StepKeys, Decisions, WorkflowStatuses,
     StepStatuses
<1>6. CASE \/ \E f \in Features : RefuseWorkflow(r, f)
           \/ DecideNothing(r) \/ WebhookAnswers(r) \/ WebhookFails(r)
           \/ MarkWorkflowFailed(r) \/ Drop(r)
  <2>1. /\ UNCHANGED <<op, wf, seen, issues, approvals, artifacts, run>>
        /\ pc'[r] \in {"answered", "failing", "dropped"}
        /\ \A q \in Requests : q # r => pc'[q] = pc[q]
    BY <1>6 DEF RefuseWorkflow, DecideNothing, WebhookAnswers, WebhookFails, MarkWorkflowFailed,
       Drop, dbVars, n8nVars, Goto, Typing, TypeOK
  <2>2. \A w \in Workflows : Exists(w)' <=> Exists(w)
    BY <1>6 DEF RefuseWorkflow, DecideNothing, WebhookAnswers, WebhookFails, MarkWorkflowFailed,
       Drop, dbVars, SetStatus, Exists, WorkflowStatuses, Typing, TypeOK
  <2>3. \A q \in Requests : run[q] \in Running \ {"inbox"} => PreviewAvailable(q)
    BY DEF Chain, RequestChain
  <2>4. QED
    BY <2>1, <2>2, <2>3, ChainKept
<1>7. QED
  BY <1>1, <1>2, <1>3, <1>4, <1>5, <1>6, CommitChain DEF HubStep

LEMMA N8NChain ==
    ASSUME Typing, Chain, NEW r \in Requests, N8NStep(r)
    PROVE  Chain'
<1>1. /\ run[r] \in Running /\ run'[r] \in RunStates \ {"none", "inbox"}
      /\ UNCHANGED <<op, wf, seen, pc, approvals>>
      /\ \A q \in Requests : q # r => run'[q] = run[q]
  BY DEF N8NStep, RunStart, RunPutFile, RunCreateIssue, RunPostArtifact, RunPostStatus,
     RunPostEvent, RunThrow, dbVars, hubVars, RunTo, Continue, Running, RunStates, Typing, TypeOK
<1>2. wf[r] \in Workflows /\ run[r] # "none"
  BY <1>1, RunFacts DEF Running
<1>3. \A w \in Workflows : Exists(w)' <=> Exists(w)
  <2>1. CASE RunStart(r) \/ RunPutFile(r) \/ RunCreateIssue(r) \/ RunThrow(r)
    BY <2>1 DEF RunStart, RunPutFile, RunCreateIssue, RunThrow, dbVars, Exists
  <2>2. ASSUME NEW heard \in BOOLEAN,
               RunPostArtifact(r, heard) \/ RunPostStatus(r, heard) \/ RunPostEvent(r, heard)
        PROVE  \/ UNCHANGED status
               \/ Exists(wf[r]) /\ \E s \in WorkflowStatuses : SetStatus(wf[r], s)
    <3>1. Stage(r) \in Stages
      BY <1>2, RunFacts
    <3>2. QED
      BY <2>2, <3>1 DEF RunPostArtifact, RunPostStatus, RunPostEvent, Stages, WorkflowStatuses
  <2>3. QED
    BY <1>2, <2>1, <2>2 DEF N8NStep, SetStatus, Exists, Typing, TypeOK
<1>4. PreviewAvailable(r) \/ run'[r] = "failed"
  BY <1>1 DEF N8NStep, RunStart, RunPutFile, RunCreateIssue, RunPostArtifact, RunPostStatus,
     RunPostEvent, RunThrow, RunTo, Typing, TypeOK, Chain, RequestChain, Running
<1>5. \A q \in Requests :
         /\ run'[q] # "none" <=> run[q] # "none"
         /\ run'[q] \in Running \ {"inbox"} => PreviewAvailable(q)
  BY <1>1, <1>2, <1>4 DEF Chain, RequestChain, Running
<1>6. CASE UNCHANGED <<artifacts, issues>>
  BY <1>1, <1>3, <1>5, <1>6, ChainKept
<1>7. \A q \in Requests : RequestChain(q) /\ (\A w \in Workflows : artifacts[w] \subseteq artifacts'[w])
                         => RequestChain(q)'
  <2>1. \A q \in Requests : run[q] # "none" => wf[q] \in Workflows
    BY DEF Typing, RequestOK
  <2>2. QED
    BY <1>1, <1>3, <1>5, <2>1 DEF RequestChain, ApprovalKept, PreviewAvailable, Stage, HasArtifact
<1>8. CASE RunCreateIssue(r)
  <2>1. /\ UNCHANGED artifacts
        /\ issues' = issues \cup {[by |-> r, wf |-> wf[r]]}
        /\ op[r] = "approve_architecture" /\ PreviewAvailable(r)
    <3>1. op[r] \in Notifying /\ Stage(r) = "codex" /\ run[r] = "generating"
      BY <1>2, <1>8 DEF RunCreateIssue, Typing, RequestOK
    <3>2. QED
      BY <1>8, <3>1 DEF RunCreateIssue, dbVars, Stage, StageOf, Notifying, Chain, RequestChain,
         Running
  <2>2. ASSUME NEW w \in Workflows, NEW a \in artifacts'[w]
        PROVE  StartedFor(a.by, w)' /\ a.type = ArtifactOf(Stage(a.by)')
    <3>1. a.by \in Requests /\ StartedFor(a.by, w) /\ a.type = ArtifactOf(Stage(a.by))
      BY <2>1, <2>2 DEF Typing, TypeOK, Artifact, Chain
    <3>2. QED
      BY <1>1, <1>5, <3>1, StartedKept DEF StartedFor
  <2>3. ASSUME NEW i \in issues'
        PROVE  StartedFor(i.by, i.wf)' /\ op'[i.by] = "approve_architecture"
    <3>1. i.by \in Requests /\ StartedFor(i.by, i.wf) /\ op[i.by] = "approve_architecture"
      BY <1>2, <2>1, <2>3 DEF Typing, TypeOK, Issue, Chain, StartedFor
    <3>2. QED
      BY <1>1, <1>5, <3>1, StartedKept DEF StartedFor
  <2>4. QED
    BY <1>7, <2>1, <2>2, <2>3 DEF Chain, ArtifactOf
<1>9. ASSUME NEW heard \in BOOLEAN, RunPostArtifact(r, heard)
      PROVE  Chain'
  <2>1. /\ UNCHANGED issues
        /\ \A w \in Workflows : artifacts[w] \subseteq artifacts'[w]
        /\ \A w \in Workflows : \A a \in artifacts'[w] :
              a \in artifacts[w] \/ (w = wf[r] /\ a = [by |-> r, type |-> ArtifactOf(Stage(r))])
        /\ PreviewAvailable(r)
    BY <1>2, <1>9 DEF RunPostArtifact, InsertArtifact, Typing, TypeOK, Chain, RequestChain, Running
  <2>2. ASSUME NEW w \in Workflows, NEW a \in artifacts'[w]
        PROVE  StartedFor(a.by, w)' /\ a.type = ArtifactOf(Stage(a.by)')
    <3>1. a.by \in Requests /\ StartedFor(a.by, w) /\ a.type = ArtifactOf(Stage(a.by))
      BY <1>2, <2>1, <2>2 DEF Typing, TypeOK, Artifact, Chain, StartedFor
    <3>2. QED
      BY <1>1, <1>5, <3>1, StartedKept DEF StartedFor
  <2>3. ASSUME NEW i \in issues'
        PROVE  StartedFor(i.by, i.wf)' /\ op'[i.by] = "approve_architecture"
    <3>1. i.by \in Requests /\ StartedFor(i.by, i.wf) /\ op[i.by] = "approve_architecture"
      BY <2>1, <2>3 DEF Typing, TypeOK, Issue, Chain
    <3>2. QED
      BY <1>1, <1>5, <3>1, StartedKept DEF StartedFor
  <2>4. QED
    BY <1>7, <2>1, <2>2, <2>3 DEF Chain, ArtifactOf
<1>10. QED
  BY <1>6, <1>8, <1>9 DEF N8NStep, RunStart, RunPutFile, RunPostStatus, RunPostEvent, RunThrow,
     dbVars

\* What an issue claims about the approvals in the Hub is true, whatever the
\* order in which requests, runs, drops and deletions interleave.
THEOREM IssuesAreApproved == Spec => []IssueOnlyAfterBothApprovals
<1>1. Typing /\ Chain /\ [Next]_vars => Chain'
  <2>1. SUFFICES ASSUME Typing, Chain, [Next]_vars
                 PROVE  Chain'
    OBVIOUS
  <2>2. CASE UNCHANGED vars
    BY <2>1, <2>2 DEF vars, dbVars, hubVars, n8nVars, Chain, RequestChain, ApprovalKept,
       StartedFor, PreviewAvailable, Stage, HasArtifact, Exists
  <2>3. CASE Next
    BY <2>1, <2>3, ProjectChain, UserChain, HubChain, N8NChain DEF Next
  <2>4. QED
    BY <2>1, <2>2, <2>3
<1>2. QED
  BY InitTyping, TypingStep, InitChain, ChainSuffices, <1>1, PTL DEF Spec

=============================================================================
