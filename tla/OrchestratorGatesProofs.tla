----------------------- MODULE OrchestratorGatesProofs -----------------------
(***************************************************************************)
(* More theorems of OrchestratorWorkflow: that every status can be         *)
(* explained, that a stage is published once, and that the requests and    *)
(* the n8n runs implement StageGates.                                      *)
(***************************************************************************)
EXTENDS OrchestratorWorkflowProofs

-----------------------------------------------------------------------------
(* Every status has its evidence                                           *)

\* What StatusHasEvidence asks of the artifacts, approvals and events of a
\* workflow in status s.
Explained(s, arts, apps, evs) ==
    LET Has(t) == \E a \in arts : a.type = t
        Decided(k, d) == \E a \in apps : a.step = k /\ a.decision = d
    IN  /\ s = "spec_review" => Has("spec")
        /\ s = "architecture_review" => Has("architecture")
        /\ s = "ready_for_implementation" => Has("codex_prompt")
        /\ s = "spec_approved" => Decided("spec_approval", "approved")
        /\ s = "spec_changes_requested" => Decided("spec_approval", "changes_requested")
        /\ s = "rejected" => Decided("spec_approval", "rejected")
        /\ s = "architecture_approved" => Decided("architecture_approval", "approved")
        /\ s = "architecture_changes_requested" =>
              Decided("architecture_approval", "changes_requested")
        /\ s = "failed" =>
              \E e \in evs : e.type \in {"n8n_intake_failed", "n8n_approval_failed"}

AllExplained ==
    \A w \in Workflows :
        Exists(w) => Explained(status[w], artifacts[w], approvals[w], events[w])

\* A run that has posted its artifact finds it in the rows, unless the rows
\* are gone: its later callbacks set a status they do not explain themselves.
PostedIsThere ==
    \A r \in Requests :
        /\ run[r] \in {"posting_status", "posting_event"} /\ Exists(wf[r]) =>
              HasArtifact(wf[r], ArtifactOf(Stage(r)))
        /\ run[r] = "posting_status" => Stage(r) = "codex"

RowsGrow ==
    \A w \in Workflows : /\ artifacts[w] \subseteq artifacts'[w]
                         /\ approvals[w] \subseteq approvals'[w]
                         /\ events[w] \subseteq events'[w]

LEMMA ExplainedSuffices == AllExplained => StatusHasEvidence
BY DEF AllExplained, Explained, StatusHasEvidence, HasArtifact, HasApproval, HasEvent

LEMMA ExplainedGrows ==
    ASSUME NEW s, NEW A, NEW B, NEW P, NEW Q, NEW E, NEW F,
           Explained(s, A, P, E), A \subseteq B, P \subseteq Q, E \subseteq F
    PROVE  Explained(s, B, Q, F)
BY DEF Explained

\* A transaction that adds rows and sets a status they explain.
LEMMA ExplainedWrite ==
    ASSUME Typing, AllExplained, RowsGrow, NEW w \in Workflows, NEW s,
           SetStatus(w, s), Explained(s, artifacts'[w], approvals'[w], events'[w])
    PROVE  AllExplained'
<1>1. ASSUME NEW v \in Workflows, Exists(v)'
      PROVE  Explained(status'[v], artifacts'[v], approvals'[v], events'[v])
  <2>1. CASE v = w
    BY <2>1 DEF SetStatus, Typing, TypeOK
  <2>2. CASE v # w
    <3>1. status'[v] = status[v]
      BY <2>2 DEF SetStatus, Typing, TypeOK
    <3>2. Explained(status[v], artifacts[v], approvals[v], events[v])
      BY <1>1, <3>1 DEF Exists, AllExplained
    <3>. QED
      BY <3>1, <3>2, ExplainedGrows DEF RowsGrow
  <2>. QED
    BY <2>1, <2>2
<1>. QED
  BY <1>1 DEF AllExplained

LEMMA ExplainedStays ==
    ASSUME AllExplained, RowsGrow, UNCHANGED status
    PROVE  AllExplained'
BY ExplainedGrows DEF AllExplained, RowsGrow, Exists
\* A step that takes no run to a later callback.
LEMMA PostedStays ==
    ASSUME Typing, PostedIsThere, RowsGrow,
           \A q \in Requests : run'[q] \in {"posting_status", "posting_event"} =>
              /\ run[q] = run'[q]
              /\ op'[q] = op[q] /\ wf'[q] = wf[q]
              /\ Exists(wf[q])' => Exists(wf[q])
    PROVE  PostedIsThere'
<1>1. ASSUME NEW q \in Requests, run'[q] \in {"posting_status", "posting_event"}
      PROVE  /\ Exists(wf[q])' => HasArtifact(wf[q], ArtifactOf(Stage(q)))'
             /\ run'[q] = "posting_status" => Stage(q)' = "codex"
  <2>1. /\ run[q] = run'[q] /\ op'[q] = op[q] /\ wf'[q] = wf[q]
        /\ wf[q] \in Workflows /\ (Exists(wf[q])' => Exists(wf[q]))
    BY <1>1 DEF Typing, RequestOK
  <2>2. Exists(wf[q]) => HasArtifact(wf[q], ArtifactOf(Stage(q)))
    BY <1>1, <2>1 DEF PostedIsThere
  <2>3. run[q] = "posting_status" => Stage(q) = "codex"
    BY DEF PostedIsThere
  <2>. QED
    BY <2>1, <2>2, <2>3 DEF HasArtifact, RowsGrow, Stage, ArtifactOf
<1>. QED
  BY <1>1 DEF PostedIsThere

LEMMA DecideEvidence ==
    ASSUME Typing, AllExplained, PostedIsThere, NEW r \in Requests, NEW o \in Operations,
           NEW k \in StepKeys, NEW d \in Decisions, NEW s \in WorkflowStatuses,
           NEW t \in StepStatuses, Decide(r, o, k, d, s, t),
           Explained(s, {}, {[by |-> r, step |-> k, decision |-> d]}, {})
    PROVE  AllExplained' /\ PostedIsThere'
<1>1. /\ wf[r] \in Workflows /\ Exists(wf[r]) /\ SetStatus(wf[r], s)
      /\ InsertApproval(wf[r], r, k, d) /\ InsertEvent(wf[r], r, d)
      /\ UNCHANGED <<artifacts, op, wf>>
      /\ run' \in {run, [run EXCEPT ![r] = "inbox"]}
  BY DEF Decide, Typing, RequestOK, RunTo
<1>2. RowsGrow /\ [by |-> r, step |-> k, decision |-> d] \in approvals'[wf[r]]
  BY <1>1 DEF RowsGrow, InsertApproval, InsertEvent, Typing, TypeOK
<1>3. Explained(s, artifacts'[wf[r]], approvals'[wf[r]], events'[wf[r]])
  BY <1>2, ExplainedGrows
<1>4. AllExplained'
  BY <1>1, <1>2, <1>3, ExplainedWrite
<1>5. \A q \in Requests : run'[q] \in {"posting_status", "posting_event"} => run[q] = run'[q]
  BY <1>1 DEF Typing, TypeOK
<1>6. \A v \in Workflows : Exists(v)' => Exists(v)
  BY <1>1 DEF SetStatus, Exists, Typing, TypeOK
<1>7. \A q \in Requests : run[q] # "none" => wf[q] \in Workflows
  BY DEF Typing, RequestOK
<1>8. PostedIsThere'
  BY <1>1, <1>2, <1>5, <1>6, <1>7, PostedStays
<1>. QED
  BY <1>4, <1>8

LEMMA HubEvidence ==
    ASSUME Typing, AllExplained, PostedIsThere, NEW r \in Requests, HubStep(r)
    PROVE  AllExplained' /\ PostedIsThere'
<1>1. ASSUME NEW w \in Workflows, NEW f \in Features, CommitWorkflow(r, w, f)
      PROVE  AllExplained' /\ PostedIsThere'
  <2>1. /\ SetStatus(w, "system_analysis_running") /\ status[w] = "absent"
        /\ InsertEvent(w, r, "idea_created") /\ run[r] = "none"
        /\ run' = [run EXCEPT ![r] = "inbox"] /\ wf' = [wf EXCEPT ![r] = w]
        /\ UNCHANGED <<artifacts, approvals, op>>
    BY <1>1 DEF CommitWorkflow, RunTo, Typing, RequestOK
  <2>2. RowsGrow
    BY <2>1 DEF RowsGrow, InsertEvent, Typing, TypeOK
  <2>3. AllExplained'
    BY <2>1, <2>2, ExplainedWrite DEF Explained
  <2>4. ASSUME NEW q \in Requests, run'[q] \in {"posting_status", "posting_event"}
        PROVE  /\ run[q] = run'[q]
               /\ op'[q] = op[q] /\ wf'[q] = wf[q]
               /\ Exists(wf[q])' => Exists(wf[q])
    <3>1. q # r /\ run[q] = run'[q] /\ wf'[q] = wf[q] /\ op'[q] = op[q]
      BY <2>1, <2>4 DEF Typing, TypeOK
    <3>2. wf[q] \in Workflows /\ wf[q] # w
      BY <2>1, <2>4, <3>1 DEF Typing, RequestOK
    <3>. QED
      BY <2>1, <3>1, <3>2 DEF SetStatus, Exists, Typing, TypeOK
  <2>. QED
    BY <2>2, <2>3, <2>4, PostedStays
<1>2. CASE ApproveSpec(r) \/ RequestSpecChanges(r) \/ ApproveArchitecture(r)
           \/ RequestArchitectureChanges(r) \/ Reject(r)
  <2>1. /\ {"spec_approval", "architecture_approval"} \subseteq StepKeys
        /\ {"done", "failed"} \subseteq StepStatuses
        /\ {"spec_approved", "spec_changes_requested", "architecture_approved",
            "architecture_changes_requested", "rejected"} \subseteq WorkflowStatuses
    BY DEF StepKeys, StepStatuses, WorkflowStatuses
  <2>2. /\ {"approve_spec", "request_spec_changes", "approve_architecture",
            "request_architecture_changes", "reject"} \subseteq Operations
        /\ Decisions = {"approved", "changes_requested", "rejected"}
    BY DEF Operations, Decisions
  <2>3. CASE ApproveSpec(r)
    <3>1. Explained("spec_approved", {},
                    {[by |-> r, step |-> "spec_approval", decision |-> "approved"]}, {})
      BY DEF Explained
    <3>. QED
      BY <2>1, <2>2, <2>3, <3>1, DecideEvidence DEF ApproveSpec
  <2>4. CASE RequestSpecChanges(r)
    <3>1. Explained("spec_changes_requested", {},
                    {[by |-> r, step |-> "spec_approval", decision |-> "changes_requested"]}, {})
      BY DEF Explained
    <3>. QED
      BY <2>1, <2>2, <2>4, <3>1, DecideEvidence DEF RequestSpecChanges
  <2>5. CASE ApproveArchitecture(r)
    <3>1. Explained("architecture_approved", {},
                    {[by |-> r, step |-> "architecture_approval", decision |-> "approved"]}, {})
      BY DEF Explained
    <3>. QED
      BY <2>1, <2>2, <2>5, <3>1, DecideEvidence DEF ApproveArchitecture
  <2>6. CASE RequestArchitectureChanges(r)
    <3>1. Explained("architecture_changes_requested", {},
                    {[by |-> r, step |-> "architecture_approval",
                      decision |-> "changes_requested"]}, {})
      BY DEF Explained
    <3>. QED
      BY <2>1, <2>2, <2>6, <3>1, DecideEvidence DEF RequestArchitectureChanges
  <2>7. CASE Reject(r)
    <3>1. Explained("rejected", {},
                    {[by |-> r, step |-> "spec_approval", decision |-> "rejected"]}, {})
      BY DEF Explained
    <3>. QED
      BY <2>1, <2>2, <2>7, <3>1, DecideEvidence DEF Reject
  <2>. QED
    BY <1>2, <2>3, <2>4, <2>5, <2>6, <2>7
<1>3. CASE \/ \E f \in Features : RefuseWorkflow(r, f)
           \/ DecideNothing(r) \/ WebhookAnswers(r) \/ WebhookFails(r)
  <2>1. UNCHANGED <<status, artifacts, approvals, events, run, op, wf>>
    BY <1>3 DEF RefuseWorkflow, DecideNothing, WebhookAnswers, WebhookFails, dbVars, n8nVars
  <2>2. RowsGrow
    BY <2>1 DEF RowsGrow
  <2>. QED
    BY <2>1, <2>2, ExplainedStays, PostedStays DEF Exists
<1>4. CASE MarkWorkflowFailed(r)
  <2>1. /\ wf[r] \in Workflows /\ UNCHANGED <<artifacts, approvals, run, op, wf>>
        /\ FailureEvent(op[r]) \in {"n8n_intake_failed", "n8n_approval_failed"}
    BY <1>4 DEF MarkWorkflowFailed, Typing, RequestOK, FailureEvent, n8nVars
  <2>2. RowsGrow
    BY <1>4, <2>1 DEF MarkWorkflowFailed, RowsGrow, InsertEvent, Typing, TypeOK
  <2>3. AllExplained'
    <3>1. CASE ~Exists(wf[r])
      BY <1>4, <2>2, <3>1, ExplainedStays DEF MarkWorkflowFailed
    <3>2. CASE Exists(wf[r])
      <4>1. SetStatus(wf[r], "failed") /\ InsertEvent(wf[r], r, FailureEvent(op[r]))
        BY <1>4, <3>2 DEF MarkWorkflowFailed
      <4>2. [by |-> r, type |-> FailureEvent(op[r])] \in events'[wf[r]]
        BY <2>1, <4>1 DEF InsertEvent, Typing, TypeOK
      <4>3. Explained("failed", artifacts'[wf[r]], approvals'[wf[r]], events'[wf[r]])
        BY <2>1, <4>2 DEF Explained
      <4>. QED
        BY <2>1, <2>2, <4>1, <4>3, ExplainedWrite
    <3>. QED
      BY <3>1, <3>2
  <2>4. \A v \in Workflows : Exists(v)' => Exists(v)
    BY <1>4, <2>1 DEF MarkWorkflowFailed, SetStatus, Exists, Typing, TypeOK
  <2>5. \A q \in Requests : run[q] # "none" => wf[q] \in Workflows
    BY DEF Typing, RequestOK
  <2>6. \A q \in Requests : wf'[q] = wf[q] /\ run'[q] = run[q] /\ op'[q] = op[q]
    BY <2>1
  <2>. QED
    BY <2>2, <2>3, <2>4, <2>5, <2>6, PostedStays
<1>. QED
  BY <1>1, <1>2, <1>3, <1>4 DEF HubStep
\* A callback that explains the status it sets, or sets none.
LEMMA CallbackEvidence ==
    ASSUME Typing, AllExplained, PostedIsThere, RowsGrow,
           NEW r \in Requests, NEW w \in Workflows, w = wf[r], Exists(w),
           UNCHANGED <<op, wf>>, \A q \in Requests \ {r} : run'[q] = run[q],
           \/ UNCHANGED status
           \/ \E s \in WorkflowStatuses :
                SetStatus(w, s) /\ Explained(s, artifacts'[w], approvals'[w], events'[w]),
           run'[r] \in {"posting_status", "posting_event"} =>
              HasArtifact(w, ArtifactOf(Stage(r)))',
           run'[r] = "posting_status" => Stage(r) = "codex"
    PROVE  AllExplained' /\ PostedIsThere'
<1>1. AllExplained'
  BY ExplainedStays, ExplainedWrite
<1>2. \A v \in Workflows : Exists(v)' => Exists(v)
  BY DEF SetStatus, Exists, Typing, TypeOK
<1>3. ASSUME NEW q \in Requests, run'[q] \in {"posting_status", "posting_event"}
      PROVE  /\ Exists(wf[q])' => HasArtifact(wf[q], ArtifactOf(Stage(q)))'
             /\ run'[q] = "posting_status" => Stage(q)' = "codex"
  <2>1. CASE q = r
    BY <1>3, <2>1 DEF Stage
  <2>2. CASE q # r
    <3>1. run[q] = run'[q] /\ op'[q] = op[q] /\ wf'[q] = wf[q] /\ wf[q] \in Workflows
      BY <1>3, <2>2 DEF Typing, RequestOK
    <3>2. /\ Exists(wf[q])' => Exists(wf[q])
          /\ Exists(wf[q]) => HasArtifact(wf[q], ArtifactOf(Stage(q)))
          /\ run[q] = "posting_status" => Stage(q) = "codex"
      BY <1>2, <1>3, <3>1 DEF Exists, PostedIsThere
    <3>. QED
      BY <3>1, <3>2 DEF HasArtifact, RowsGrow, Stage, ArtifactOf
  <2>. QED
    BY <2>1, <2>2
<1>4. PostedIsThere'
  BY <1>3 DEF PostedIsThere
<1>. QED
  BY <1>1, <1>4

LEMMA N8NEvidence ==
    ASSUME Typing, AllExplained, PostedIsThere, NEW r \in Requests, N8NStep(r)
    PROVE  AllExplained' /\ PostedIsThere'
<1>. DEFINE w == wf[r]
<1>0. /\ run[r] \in Running /\ w \in Workflows /\ Stage(r) \in Stages
      /\ UNCHANGED <<op, wf>> /\ \A q \in Requests \ {r} : run'[q] = run[q]
  <2>1. /\ run[r] \in Running
        /\ UNCHANGED <<op, wf>> /\ \A q \in Requests \ {r} : run'[q] = run[q]
    BY DEF N8NStep, RunStart, RunPutFile, RunCreateIssue, RunPostArtifact, RunPostStatus,
       RunPostEvent, RunThrow, hubVars, RunTo, Continue, Running, Typing, TypeOK
  <2>. QED
    BY <2>1, RunFacts DEF Running
<1>1. CASE RunStart(r) \/ RunPutFile(r) \/ RunCreateIssue(r) \/ RunThrow(r)
  <2>1. /\ UNCHANGED <<status, artifacts, approvals, events>>
        /\ run'[r] \notin {"posting_status", "posting_event"}
    BY <1>1 DEF RunStart, RunPutFile, RunCreateIssue, RunThrow, dbVars, RunTo, Typing, TypeOK
  <2>2. RowsGrow
    BY <2>1 DEF RowsGrow
  <2>. QED
    BY <1>0, <2>1, <2>2, ExplainedStays, PostedStays DEF Exists
<1>2. ASSUME NEW heard \in BOOLEAN, RunPostArtifact(r, heard)
      PROVE  AllExplained' /\ PostedIsThere'
  <2>1. /\ Exists(w) /\ InsertArtifact(w, r, ArtifactOf(Stage(r)))
        /\ UNCHANGED <<approvals, events>>
    BY <1>2 DEF RunPostArtifact
  <2>2. RowsGrow /\ [by |-> r, type |-> ArtifactOf(Stage(r))] \in artifacts'[w]
    BY <1>0, <2>1 DEF RowsGrow, InsertArtifact, Typing, TypeOK
  <2>3. HasArtifact(w, ArtifactOf(Stage(r)))'
    BY <1>0, <2>2 DEF HasArtifact, Stage, ArtifactOf
  <2>4. \/ UNCHANGED status
        \/ \E s \in WorkflowStatuses :
             SetStatus(w, s) /\ Explained(s, artifacts'[w], approvals'[w], events'[w])
    BY <1>0, <1>2, <2>2 DEF RunPostArtifact, Stages, ArtifactOf, Explained, WorkflowStatuses
  <2>5. run'[r] = "posting_status" => Stage(r) = "codex"
    BY <1>2 DEF RunPostArtifact, Continue, RunTo, Typing, TypeOK
  <2>. QED
    BY <1>0, <2>1, <2>2, <2>3, <2>4, <2>5, CallbackEvidence
<1>3. ASSUME NEW heard \in BOOLEAN, RunPostStatus(r, heard)
      PROVE  AllExplained' /\ PostedIsThere'
  <2>1. /\ Exists(w) /\ SetStatus(w, "ready_for_implementation")
        /\ UNCHANGED <<artifacts, approvals, events>> /\ HasArtifact(w, ArtifactOf(Stage(r)))
    BY <1>3 DEF RunPostStatus, PostedIsThere
  <2>2. RowsGrow
    BY <2>1 DEF RowsGrow
  <2>3. Stage(r) = "codex" /\ run'[r] # "posting_status"
    BY <1>3 DEF RunPostStatus, PostedIsThere, Continue, RunTo, Typing, TypeOK
  <2>4. HasArtifact(w, ArtifactOf(Stage(r)))'
    BY <1>0, <2>1 DEF HasArtifact, Stage, ArtifactOf
  <2>5. Explained("ready_for_implementation", artifacts'[w], approvals'[w], events'[w])
    BY <2>1, <2>3 DEF Explained, HasArtifact, ArtifactOf
  <2>6. "ready_for_implementation" \in WorkflowStatuses
    BY DEF WorkflowStatuses
  <2>. QED
    BY <1>0, <2>1, <2>2, <2>3, <2>4, <2>5, <2>6, CallbackEvidence
<1>4. ASSUME NEW heard \in BOOLEAN, RunPostEvent(r, heard)
      PROVE  AllExplained' /\ PostedIsThere'
  <2>1. /\ Exists(w) /\ UNCHANGED <<artifacts, approvals>>
        /\ HasArtifact(w, ArtifactOf(Stage(r)))
    BY <1>4 DEF RunPostEvent, PostedIsThere
  <2>2. RowsGrow
    <3>1. \E t \in EventTypes : InsertEvent(w, r, t)
      BY <1>0, <1>4 DEF RunPostEvent, Stages, EventTypes
    <3>. QED
      BY <1>0, <2>1, <3>1 DEF RowsGrow, InsertEvent, Typing, TypeOK
  <2>3. \E s \in WorkflowStatuses :
           SetStatus(w, s) /\ Explained(s, artifacts'[w], approvals'[w], events'[w])
    BY <1>0, <1>4, <2>1 DEF RunPostEvent, Stages, ArtifactOf, HasArtifact, Explained,
       WorkflowStatuses
  <2>4. run'[r] \notin {"posting_status", "posting_event"}
    BY <1>4 DEF RunPostEvent, Continue, RunTo, Typing, TypeOK
  <2>. QED
    BY <1>0, <2>1, <2>2, <2>3, <2>4, CallbackEvidence
<1>. QED
  BY <1>1, <1>2, <1>3, <1>4 DEF N8NStep
LEMMA OthersEvidence ==
    ASSUME Typing, AllExplained, PostedIsThere,
           \/ UNCHANGED vars \/ UpdateProject \/ DeleteProject
           \/ \E r \in Requests : UserStep(r) \/ Drop(r)
    PROVE  AllExplained' /\ PostedIsThere'
<1>1. CASE DeleteProject
  <2>1. \A w \in Workflows : ~Exists(w)'
    BY <1>1 DEF DeleteProject, Exists, WorkflowStatuses, Typing, TypeOK
  <2>2. \A r \in Requests : run[r] # "none" => wf[r] \in Workflows
    BY DEF Typing, RequestOK
  <2>3. UNCHANGED <<run, wf, op>>
    BY <1>1 DEF DeleteProject, hubVars, n8nVars
  <2>. QED
    BY <2>1, <2>2, <2>3 DEF AllExplained, PostedIsThere, Exists, Stage
<1>2. CASE UNCHANGED vars \/ UpdateProject \/ \E r \in Requests : UserStep(r) \/ Drop(r)
  <2>1. UNCHANGED <<status, artifacts, approvals, events, run>>
    BY <1>2 DEF vars, UpdateProject, UserStep, CheckProject, ReadWorkflow, Drop, dbVars, n8nVars
  <2>2. \A q \in Requests : run[q] # "none" => op'[q] = op[q] /\ wf'[q] = wf[q]
    BY <1>2 DEF vars, UpdateProject, UserStep, CheckProject, ReadWorkflow, Drop, dbVars, hubVars,
       n8nVars, Typing, TypeOK, RequestOK
  <2>3. RowsGrow
    BY <2>1 DEF RowsGrow
  <2>4. \A q \in Requests : run[q] # "none" => (Exists(wf[q])' => Exists(wf[q]))
    BY <2>1, <2>2 DEF Exists
  <2>. QED
    BY <2>1, <2>2, <2>3, <2>4, ExplainedStays, PostedStays
<1>. QED
  BY <1>1, <1>2

\* Whatever the order of decisions, callbacks and failure marks, the status a
\* page shows is explained by an artifact, an approval or an event.
THEOREM StatusesAreExplained == Spec => []StatusHasEvidence
<1>1. Init => AllExplained /\ PostedIsThere
  BY DEF Init, AllExplained, PostedIsThere, Exists, WorkflowStatuses
<1>2. Typing /\ AllExplained /\ PostedIsThere /\ [Next]_vars => AllExplained' /\ PostedIsThere'
  <2>. SUFFICES ASSUME Typing, AllExplained, PostedIsThere, [Next]_vars
       PROVE  AllExplained' /\ PostedIsThere'
    OBVIOUS
  <2>. QED
    BY OthersEvidence, HubEvidence, N8NEvidence DEF Next
<1>. QED
  BY InitTyping, TypingStep, ExplainedSuffices, <1>1, <1>2, PTL DEF Spec

-----------------------------------------------------------------------------
(* A stage is published once                                               *)

WritesFile(r) == Stage(r) \in {"intake", "architecture"}
SameStage(q, r) == wf[q] = wf[r] /\ Stage(q) = Stage(r)

\* A run that is about to report a file has created it, and is the only one of
\* its stage to do so; a spec or an architecture in the rows is of a file that
\* no run is about to report.
FilesAreReportedOnce ==
    /\ \A r \in Requests : run[r] = "posting_artifact" /\ WritesFile(r) =>
         /\ DocumentOf(r) \in documents
         /\ \A q \in Requests : run[q] = "posting_artifact" /\ SameStage(q, r) => q = r
    /\ \A w \in Workflows : \A a \in artifacts[w] : a.type # "codex_prompt" =>
         /\ [feature |-> feature[w], stage |-> Stage(a.by)] \in documents
         /\ \A r \in Requests : run[r] = "posting_artifact" /\ wf[r] = w =>
              ArtifactOf(Stage(r)) # a.type

OnceInv == OneDocumentPerStage /\ FilesAreReportedOnce

\* An artifact is that of the stage of its author, whose run has begun.
LEMMA AuthorFacts ==
    ASSUME Typing, Chain, NEW w \in Workflows, NEW a \in artifacts[w]
    PROVE  /\ a.by \in Requests /\ a.type = ArtifactOf(Stage(a.by))
           /\ run[a.by] # "none" /\ wf[a.by] = w /\ status[w] # "absent"
BY DEF Typing, TypeOK, RequestOK, Artifact, Chain, StartedFor

\* A step that reports nothing and creates no file.
LEMMA OnceStays ==
    ASSUME Typing, Chain, OnceInv,
           documents \subseteq documents',
           \A w \in Workflows : artifacts'[w] \subseteq artifacts[w],
           \A w \in Workflows : status[w] # "absent" => feature'[w] = feature[w],
           \A q \in Requests : run[q] # "none" =>
              op'[q] = op[q] /\ wf'[q] = wf[q],
           \A q \in Requests : run'[q] = "posting_artifact" => run[q] = "posting_artifact"
    PROVE  OnceInv'
<1>1. \A q \in Requests : run[q] # "none" =>
        /\ wf'[q] = wf[q] /\ Stage(q)' = Stage(q) /\ wf[q] \in Workflows
        /\ DocumentOf(q)' = DocumentOf(q)
  BY DEF Typing, RequestOK, Stage, DocumentOf
<1>2. ASSUME NEW r \in Requests, run'[r] = "posting_artifact", WritesFile(r)'
      PROVE  /\ DocumentOf(r)' \in documents'
             /\ \A q \in Requests : run'[q] = "posting_artifact" /\ SameStage(q, r)' => q = r
  BY <1>1, <1>2 DEF OnceInv, FilesAreReportedOnce, WritesFile, SameStage
<1>3. ASSUME NEW w \in Workflows, NEW a \in artifacts'[w], a.type # "codex_prompt"
      PROVE  /\ [feature |-> feature'[w], stage |-> Stage(a.by)'] \in documents'
             /\ \A r \in Requests : run'[r] = "posting_artifact" /\ wf'[r] = w =>
                  ArtifactOf(Stage(r)') # a.type
  <2>1. a \in artifacts[w]
    BY <1>3
  <2>2. /\ a.by \in Requests /\ run[a.by] # "none" /\ feature'[w] = feature[w]
    BY <2>1, AuthorFacts
  <2>. QED
    BY <1>1, <1>3, <2>1, <2>2 DEF OnceInv, FilesAreReportedOnce
<1>4. OneDocumentPerStage'
  BY DEF OnceInv, OneDocumentPerStage
<1>. QED
  BY <1>2, <1>3, <1>4 DEF OnceInv, FilesAreReportedOnce, ArtifactOf

\* A run that finds its file there throws; the others create it.
LEMMA PutFileOnce ==
    ASSUME Typing, Chain, OnceInv, NEW r \in Requests, RunPutFile(r)
    PROVE  OnceInv'
<1>1. CASE DocumentOf(r) \in documents
  <2>1. /\ run' = [run EXCEPT ![r] = "failed"]
        /\ UNCHANGED <<documents, feature, artifacts, op, wf>>
    BY <1>1 DEF RunPutFile, RunTo, dbVars, hubVars
  <2>2. \A q \in Requests : run'[q] = "posting_artifact" => run[q] = "posting_artifact"
    BY <2>1 DEF Typing, TypeOK
  <2>. QED
    BY <2>1, <2>2, OnceStays
<1>2. CASE DocumentOf(r) \notin documents
  <2>1. /\ run[r] = "generating" /\ run' = [run EXCEPT ![r] = "posting_artifact"]
        /\ documents' = documents \cup {DocumentOf(r)}
        /\ UNCHANGED <<feature, artifacts, op, wf>>
    BY <1>2 DEF RunPutFile, RunTo, dbVars, hubVars
  <2>2. /\ \A q \in Requests : Stage(q)' = Stage(q) /\ DocumentOf(q)' = DocumentOf(q)
        /\ \A q \in Requests : SameStage(q, r) => DocumentOf(q) = DocumentOf(r)
    BY <2>1 DEF Stage, DocumentOf, SameStage
  <2>3. \A q \in Requests : run[q] = "posting_artifact" /\ WritesFile(q) =>
           ~SameStage(q, r) /\ ~SameStage(r, q)
    BY <1>2, <2>2 DEF OnceInv, FilesAreReportedOnce, SameStage
  <2>4. ASSUME NEW p \in Requests, run'[p] = "posting_artifact", WritesFile(p)
        PROVE  /\ DocumentOf(p) \in documents'
               /\ \A q \in Requests : run'[q] = "posting_artifact" /\ SameStage(q, p) => q = p
    <3>1. CASE p = r
      BY <2>1, <2>3, <2>4, <3>1 DEF Typing, TypeOK, WritesFile, SameStage
    <3>2. CASE p # r
      BY <2>1, <2>3, <2>4, <3>2 DEF Typing, TypeOK, OnceInv, FilesAreReportedOnce, SameStage
    <3>. QED
      BY <3>1, <3>2
  <2>5. ASSUME NEW w \in Workflows, NEW a \in artifacts[w], a.type # "codex_prompt"
        PROVE  /\ [feature |-> feature[w], stage |-> Stage(a.by)] \in documents'
               /\ \A q \in Requests : run'[q] = "posting_artifact" /\ wf[q] = w =>
                    ArtifactOf(Stage(q)) # a.type
    <3>1. /\ [feature |-> feature[w], stage |-> Stage(a.by)] \in documents
          /\ \A q \in Requests : run[q] = "posting_artifact" /\ wf[q] = w =>
                    ArtifactOf(Stage(q)) # a.type
      BY <2>5 DEF OnceInv, FilesAreReportedOnce
    <3>2. wf[r] = w => ArtifactOf(Stage(r)) # a.type
      <4>1. wf[r] = w => Stage(a.by) # Stage(r)
        BY <1>2, <3>1 DEF DocumentOf
      <4>2. a.by \in Requests /\ a.type = ArtifactOf(Stage(a.by)) /\ Stage(a.by) \in Stages
        BY <2>5, AuthorFacts, RunFacts
      <4>3. Stage(r) \in Stages
        BY <2>1, RunFacts
      <4>. QED
        BY <4>1, <4>2, <4>3 DEF ArtifactOf, Stages
    <3>. QED
      BY <2>1, <3>1, <3>2 DEF Typing, TypeOK
  <2>6. \A p, q \in Requests :
          /\ WritesFile(p)' <=> WritesFile(p)
          /\ SameStage(q, p)' <=> SameStage(q, p)
          /\ ArtifactOf(Stage(p)') = ArtifactOf(Stage(p))
    BY <2>1, <2>2 DEF WritesFile, SameStage
  <2>7. \A w \in Workflows : \A a \in artifacts[w] : a.by \in Requests
    BY AuthorFacts
  <2>8. OneDocumentPerStage'
    BY <2>1 DEF OnceInv, OneDocumentPerStage
  <2>9. FilesAreReportedOnce'
    BY <2>1, <2>2, <2>4, <2>5, <2>6, <2>7 DEF FilesAreReportedOnce, ArtifactOf
  <2>. QED
    BY <2>8, <2>9 DEF OnceInv
<1>. QED
  BY <1>1, <1>2

\* The run of the third stage writes no file and reports no document.
LEMMA CreateIssueOnce ==
    ASSUME Typing, Chain, OnceInv, NEW r \in Requests, RunCreateIssue(r)
    PROVE  OnceInv'
<1>1. /\ Stage(r) = "codex" /\ run' = [run EXCEPT ![r] = "posting_artifact"]
      /\ UNCHANGED <<documents, artifacts, feature, op, wf>>
  BY DEF RunCreateIssue, RunTo, dbVars, hubVars
<1>2. \A p, q \in Requests :
        /\ Stage(p)' = Stage(p) /\ DocumentOf(p)' = DocumentOf(p)
        /\ WritesFile(p)' <=> WritesFile(p)
        /\ SameStage(q, p)' <=> SameStage(q, p)
        /\ WritesFile(p) /\ SameStage(q, p) => q # r
  BY <1>1 DEF Stage, DocumentOf, WritesFile, SameStage
<1>3. \A q \in Requests \ {r} : run'[q] = run[q]
  BY <1>1 DEF Typing, TypeOK
<1>4. ASSUME NEW p \in Requests, run'[p] = "posting_artifact", WritesFile(p)
      PROVE  /\ DocumentOf(p) \in documents
             /\ \A q \in Requests : run'[q] = "posting_artifact" /\ SameStage(q, p) => q = p
  <2>1. p # r
    BY <1>1, <1>4 DEF WritesFile
  <2>. QED
    BY <1>2, <1>3, <1>4, <2>1 DEF OnceInv, FilesAreReportedOnce
<1>5. ASSUME NEW w \in Workflows, NEW a \in artifacts[w], a.type # "codex_prompt"
      PROVE  /\ [feature |-> feature[w], stage |-> Stage(a.by)] \in documents
             /\ \A q \in Requests : run'[q] = "posting_artifact" /\ wf[q] = w =>
                  ArtifactOf(Stage(q)) # a.type
  <2>1. ArtifactOf(Stage(r)) = "codex_prompt"
    BY <1>1 DEF ArtifactOf
  <2>. QED
    BY <1>3, <1>5, <2>1 DEF OnceInv, FilesAreReportedOnce
<1>6. \A w \in Workflows : \A a \in artifacts[w] : a.by \in Requests
  BY AuthorFacts
<1>7. OneDocumentPerStage'
  BY <1>1 DEF OnceInv, OneDocumentPerStage
<1>8. FilesAreReportedOnce'
  BY <1>1, <1>2, <1>4, <1>5, <1>6 DEF FilesAreReportedOnce, ArtifactOf
<1>. QED
  BY <1>7, <1>8 DEF OnceInv

LEMMA PostArtifactOnce ==
    ASSUME Typing, Chain, OnceInv, NEW r \in Requests, NEW heard \in BOOLEAN,
           RunPostArtifact(r, heard)
    PROVE  OnceInv'
<1>. DEFINE w == wf[r]
            new == [by |-> r, type |-> ArtifactOf(Stage(r))]
<1>1. /\ run[r] = "posting_artifact" /\ w \in Workflows /\ Stage(r) \in Stages
      /\ run' \in {[run EXCEPT ![r] = l] : l \in RunStates \ {"posting_artifact"}}
      /\ artifacts' = [artifacts EXCEPT ![w] = @ \cup {new}]
      /\ UNCHANGED <<feature, op, wf, documents>>
  BY RunFacts DEF RunPostArtifact, InsertArtifact, Continue, RunTo, RunStates, hubVars
<1>2. /\ \A q \in Requests : Stage(q)' = Stage(q) /\ DocumentOf(q)' = DocumentOf(q)
      /\ \A q \in Requests : run'[q] = "posting_artifact" => q # r /\ run[q] = "posting_artifact"
  BY <1>1 DEF Stage, DocumentOf, Typing, TypeOK
<1>3. new.type # "codex_prompt" => WritesFile(r)
  BY <1>1 DEF WritesFile, Stages, ArtifactOf
<1>4. \A a \in artifacts[w] : new.type # "codex_prompt" => a.type # new.type
  BY <1>1 DEF OnceInv, FilesAreReportedOnce
<1>5. OneDocumentPerStage'
  BY <1>1, <1>4 DEF OnceInv, OneDocumentPerStage, Typing, TypeOK
<1>6. ASSUME NEW v \in Workflows, NEW a \in artifacts'[v], a.type # "codex_prompt"
      PROVE  /\ [feature |-> feature[v], stage |-> Stage(a.by)] \in documents
             /\ \A q \in Requests : run'[q] = "posting_artifact" /\ wf[q] = v =>
                  ArtifactOf(Stage(q)) # a.type
  <2>1. CASE a \in artifacts[v]
    BY <1>2, <1>6, <2>1 DEF OnceInv, FilesAreReportedOnce
  <2>2. CASE a \notin artifacts[v]
    <3>1. v = w /\ a = new
      BY <1>1, <1>6, <2>2 DEF Typing, TypeOK
    <3>2. DocumentOf(r) \in documents
      BY <1>1, <1>3, <1>6, <3>1 DEF OnceInv, FilesAreReportedOnce
    <3>3. ASSUME NEW q \in Requests, run'[q] = "posting_artifact", wf[q] = w
          PROVE  ArtifactOf(Stage(q)) # new.type
      <4>1. Stage(q) # Stage(r)
        BY <1>1, <1>2, <1>3, <1>6, <3>1, <3>3 DEF OnceInv, FilesAreReportedOnce, SameStage
      <4>2. Stage(q) \in Stages
        BY <1>2, <3>3, RunFacts
      <4>. QED
        BY <1>1, <4>1, <4>2 DEF ArtifactOf, Stages
    <3>. QED
      BY <3>1, <3>2, <3>3 DEF DocumentOf
  <2>. QED
    BY <2>1, <2>2
<1>7. \A p, q \in Requests :
        /\ WritesFile(p)' <=> WritesFile(p)
        /\ SameStage(q, p)' <=> SameStage(q, p)
  BY <1>1, <1>2 DEF WritesFile, SameStage
<1>8. \A v \in Workflows : \A a \in artifacts'[v] : a.by \in Requests
  BY <1>1, AuthorFacts DEF Typing, TypeOK
<1>9. \A p \in Requests : run'[p] = "posting_artifact" /\ WritesFile(p)' =>
        /\ DocumentOf(p)' \in documents'
        /\ \A q \in Requests : run'[q] = "posting_artifact" /\ SameStage(q, p)' => q = p
  BY <1>1, <1>2, <1>7 DEF OnceInv, FilesAreReportedOnce
<1>10. FilesAreReportedOnce'
  BY <1>1, <1>2, <1>6, <1>8, <1>9 DEF FilesAreReportedOnce, ArtifactOf
<1>. QED
  BY <1>5, <1>10 DEF OnceInv

LEMMA OnceStep ==
    ASSUME Typing, Chain, OnceInv, [Next]_vars
    PROVE  OnceInv'
<1>1. CASE \/ UNCHANGED vars \/ UpdateProject \/ DeleteProject
           \/ \E r \in Requests : UserStep(r) \/ Drop(r)
  BY <1>1, OnceStays
     DEF vars, UpdateProject, DeleteProject, UserStep, CheckProject, ReadWorkflow, Drop, dbVars,
         hubVars, n8nVars, Typing, TypeOK, RequestOK
<1>2. ASSUME NEW r \in Requests, HubStep(r) PROVE OnceInv'
  <2>1. ASSUME NEW w \in Workflows, NEW f \in Features, CommitWorkflow(r, w, f)
        PROVE  OnceInv'
    <3>1. /\ UNCHANGED <<documents, artifacts, op>> /\ status[w] = "absent"
          /\ feature' = [feature EXCEPT ![w] = f] /\ run[r] = "none"
          /\ wf' = [wf EXCEPT ![r] = w] /\ run' = [run EXCEPT ![r] = "inbox"]
      BY <2>1 DEF CommitWorkflow, RunTo, Typing, RequestOK
    <3>. QED
      BY <3>1, OnceStays DEF Typing, TypeOK
  <2>2. CASE ~\E w \in Workflows, f \in Features : CommitWorkflow(r, w, f)
    <3>1. /\ UNCHANGED <<documents, artifacts, feature, op, wf>>
          /\ run' \in {run, [run EXCEPT ![r] = "inbox"]}
      BY <1>2, <2>2 DEF HubStep, RefuseWorkflow, ApproveSpec, RequestSpecChanges,
         ApproveArchitecture, RequestArchitectureChanges, Reject, Decide, DecideNothing,
         WebhookAnswers, WebhookFails, MarkWorkflowFailed, RunTo, dbVars, n8nVars
    <3>. QED
      BY <3>1, OnceStays DEF Typing, TypeOK
  <2>. QED
    BY <2>1, <2>2
<1>3. ASSUME NEW r \in Requests,
             \/ RunStart(r) \/ RunThrow(r)
             \/ \E heard \in BOOLEAN : RunPostStatus(r, heard) \/ RunPostEvent(r, heard)
      PROVE  OnceInv'
  <2>1. /\ UNCHANGED <<documents, artifacts, feature, op, wf>>
        /\ \E l \in RunStates \ {"posting_artifact"} : run' = [run EXCEPT ![r] = l]
    BY <1>3 DEF RunStart, RunThrow, RunPostStatus, RunPostEvent, Continue, RunTo, dbVars,
       hubVars, RunStates
  <2>2. \A q \in Requests : run'[q] = "posting_artifact" => run[q] = "posting_artifact"
    BY <2>1 DEF Typing, TypeOK
  <2>. QED
    BY <2>1, <2>2, OnceStays
<1>4. CASE \E r \in Requests : N8NStep(r)
  <2>1. PICK r \in Requests : N8NStep(r)
    BY <1>4
  <2>. QED
    BY <2>1, <1>3, PutFileOnce, CreateIssueOnce, PostArtifactOnce DEF N8NStep
<1>. QED
  BY <1>1, <1>2, <1>4 DEF Next

LEMMA ChainStep == Typing /\ Chain /\ [Next]_vars => Chain'
<1>. SUFFICES ASSUME Typing, Chain, [Next]_vars
     PROVE  Chain'
  OBVIOUS
<1>1. CASE UNCHANGED vars
  BY <1>1 DEF vars, dbVars, hubVars, n8nVars, Chain, RequestChain, ApprovalKept, StartedFor,
     PreviewAvailable, Stage, HasArtifact, Exists
<1>2. CASE Next
  BY <1>2, ProjectChain, UserChain, HubChain, N8NChain DEF Next
<1>. QED
  BY <1>1, <1>2

\* A workflow lists one spec and one architecture, however often a stage is
\* approved and however late its runs report (repository.go:330-362).
THEOREM DocumentsAreUnique == Spec => []OneDocumentPerStage
<1>1. Init => OnceInv
  BY DEF Init, OnceInv, OneDocumentPerStage, FilesAreReportedOnce
<1>2. Typing /\ Chain /\ OnceInv /\ [Next]_vars => OnceInv'
  BY OnceStep
<1>3. OnceInv => OneDocumentPerStage
  BY DEF OnceInv
<1>. QED
  BY InitTyping, TypingStep, InitChain, ChainStep, <1>1, <1>2, <1>3, PTL DEF Spec
-----------------------------------------------------------------------------
(* The gates                                                               *)

Rows == {v \in Workflows : status[v] # "absent"}

\* A feature belongs to one row, a document to the feature of a row, and an
\* artifact a request has read to a document.
GateInv ==
    /\ (\E v \in Workflows : status[v] = "deleted") => project = "deleted"
    /\ \A v \in Workflows : v \notin Rows => feature[v] = NoValue
    /\ \A v, w \in Rows : feature[v] = feature[w] => v = w
    /\ \A d \in documents : \E v \in Rows : d.feature = feature[v]
    /\ \A r \in Requests : wf[r] \in Workflows =>
         /\ "spec" \in seen[r] => [feature |-> feature[wf[r]], stage |-> "intake"] \in documents
         /\ "architecture" \in seen[r] =>
              [feature |-> feature[wf[r]], stage |-> "architecture"] \in documents

\* What a step leaves alone that inserts no row and reads none.
LEMMA GateStays ==
    ASSUME GateInv, UNCHANGED <<feature, wf, seen>>, documents \subseteq documents',
           \A v \in Workflows : status'[v] = "absent" <=> status[v] = "absent",
           (\E v \in Workflows : status'[v] = "deleted") => project' = "deleted",
           \A d \in documents' \ documents : \E v \in Rows : d.feature = feature[v]
    PROVE  GateInv'
BY DEF GateInv, Rows

\* A step that starts no run and publishes nothing is not seen outside.
LEMMA NothingPublished ==
    ASSUME UNCHANGED <<feature, documents, issues>>,
           \A q \in Requests : run'[q] = "none" <=> run[q] = "none",
           \A q \in Requests : run[q] # "none" => op'[q] = op[q] /\ wf'[q] = wf[q]
    PROVE  UNCHANGED <<Granted, Published>>
<1>1. \A w \in Workflows :
        {StageOf(op'[r]) : r \in {q \in Requests : wf'[q] = w /\ run'[q] # "none"}}
          = {StageOf(op[r]) : r \in {q \in Requests : wf[q] = w /\ run[q] # "none"}}
  <2>. SUFFICES ASSUME NEW w \in Workflows
       PROVE  {StageOf(op'[r]) : r \in {q \in Requests : wf'[q] = w /\ run'[q] # "none"}}
                = {StageOf(op[r]) : r \in {q \in Requests : wf[q] = w /\ run[q] # "none"}}
    OBVIOUS
  <2>1. {q \in Requests : wf'[q] = w /\ run'[q] # "none"}
          = {q \in Requests : wf[q] = w /\ run[q] # "none"}
    OBVIOUS
  <2>. DEFINE started == {q \in Requests : wf[q] = w /\ run[q] # "none"}
  <2>2. \A r \in started : op'[r] = op[r]
    OBVIOUS
  <2>. HIDE DEF started
  <2>3. {StageOf(op'[r]) : r \in started} = {StageOf(op[r]) : r \in started}
    BY <2>2
  <2>. QED
    BY <2>1, <2>3 DEF started
<1>2. Granted' = Granted
  BY <1>1 DEF Granted
<1>3. Published' = Published
  BY DEF Published
<1>. QED
  BY <1>2, <1>3
\* A request that starts a run lets the stage of its operation through.
LEMMA StageGranted ==
    ASSUME Typing, NEW r \in Requests, NEW w \in Workflows,
           run[r] = "none", run'[r] # "none", wf'[r] = w, op'[r] = op[r],
           \A q \in Requests \ {r} : run'[q] = run[q] /\ op'[q] = op[q] /\ wf'[q] = wf[q]
    PROVE  Granted' = [Granted EXCEPT ![w] = @ \cup {StageOf(op[r])}]
<1>. DEFINE started(v) == {q \in Requests : wf[q] = v /\ run[q] # "none"}
            after(v) == {q \in Requests : wf'[q] = v /\ run'[q] # "none"}
<1>1. \A v \in Workflows : after(v) = IF v = w THEN started(v) \cup {r} ELSE started(v)
  OBVIOUS
<1>2. \A v \in Workflows : \A q \in started(v) \cup {r} : op'[q] = op[q]
  OBVIOUS
<1>3. Granted = [v \in Workflows |-> {StageOf(op[q]) : q \in started(v)}]
  BY DEF Granted
<1>4. Granted' = [v \in Workflows |-> {StageOf(op'[q]) : q \in after(v)}]
  BY DEF Granted
<1>. HIDE DEF started, after
<1>5. \A v \in Workflows : {StageOf(op'[q]) : q \in after(v)} =
        IF v = w THEN {StageOf(op[q]) : q \in started(v)} \cup {StageOf(op[r])}
                 ELSE {StageOf(op[q]) : q \in started(v)}
  BY <1>1, <1>2
<1>. QED
  BY <1>3, <1>4, <1>5

\* CommitWorkflow opens the first stage of a feature nothing was published of.
LEMMA CommitGrants ==
    ASSUME Typing, Chain, GateInv, NEW r \in Requests, NEW w \in Workflows, NEW f \in Features,
           CommitWorkflow(r, w, f)
    PROVE  GateInv' /\ Gates!Grant(w, "intake")
<1>1. /\ project # "deleted" /\ status[w] = "absent" /\ ~FeatureTaken(f)
      /\ status' = [status EXCEPT ![w] = "system_analysis_running"]
      /\ feature' = [feature EXCEPT ![w] = f]
      /\ wf' = [wf EXCEPT ![r] = w] /\ run' = [run EXCEPT ![r] = "inbox"]
      /\ run[r] = "none" /\ op[r] = "create" /\ seen[r] = {}
      /\ UNCHANGED <<op, seen, documents, issues, project>>
  BY DEF CommitWorkflow, SetStatus, RunTo, Typing, RequestOK, Chain, RequestChain
<1>2. \A v \in Rows : feature[v] # f
  BY <1>1 DEF GateInv, Rows, FeatureTaken, Exists, Typing, TypeOK
<1>3. Rows' = Rows \cup {w} /\ w \notin Rows
  BY <1>1 DEF Rows, Typing, TypeOK
<1>4. \A v \in Rows : feature'[v] = feature[v]
  BY <1>1, <1>3 DEF Rows, Typing, TypeOK
<1>5. feature'[w] = f
  BY <1>1 DEF Typing, TypeOK
<1>6. \A q \in Requests : wf'[q] \in Workflows =>
        \/ q = r
        \/ wf'[q] = wf[q] /\ wf[q] \in Rows
  BY <1>1 DEF Typing, TypeOK, RequestOK, Rows
<1>7. GateInv'
  <2>1. (\E v \in Workflows : status'[v] = "deleted") => project' = "deleted"
    BY <1>1 DEF GateInv, Typing, TypeOK
  <2>2. \A v \in Workflows : v \notin Rows' => feature'[v] = NoValue
    BY <1>1, <1>3 DEF GateInv, Typing, TypeOK
  <2>3. \A u, v \in Rows' : feature'[u] = feature'[v] => u = v
    BY <1>2, <1>3, <1>4, <1>5 DEF GateInv
  <2>4. \A d \in documents' : \E v \in Rows' : d.feature = feature'[v]
    BY <1>1, <1>3, <1>4 DEF GateInv
  <2>5. \A q \in Requests : wf'[q] \in Workflows =>
          /\ "spec" \in seen'[q] =>
               [feature |-> feature'[wf'[q]], stage |-> "intake"] \in documents'
          /\ "architecture" \in seen'[q] =>
               [feature |-> feature'[wf'[q]], stage |-> "architecture"] \in documents'
    BY <1>1, <1>4, <1>6 DEF GateInv, Rows
  <2>. QED
    BY <2>1, <2>2, <2>3, <2>4, <2>5 DEF GateInv
<1>8. Published' = Published
  <2>1. \A v \in Workflows :
          {d \in documents : d.feature = feature'[v]} = {d \in documents : d.feature = feature[v]}
    <3>. SUFFICES ASSUME NEW v \in Workflows, NEW d \in documents
         PROVE  d.feature = feature'[v] <=> d.feature = feature[v]
      OBVIOUS
    <3>1. PICK u \in Rows : d.feature = feature[u]
      BY DEF GateInv
    <3>2. CASE v # w
      BY <1>1, <3>2 DEF Typing, TypeOK
    <3>3. CASE v = w
      <4>1. feature[w] = NoValue /\ feature[u] # NoValue
        BY <1>3, NoValueAssumption DEF GateInv, Typing, FeatureOK, Rows
      <4>. QED
        BY <1>2, <1>5, <3>1, <3>3, <4>1
    <3>. QED
      BY <3>2, <3>3
  <2>. QED
    BY <1>1, <2>1 DEF Published
<1>9. Granted' = [Granted EXCEPT ![w] = @ \cup {StageOf(op[r])}]
  <2>1. run'[r] # "none" /\ wf'[r] = w
    BY <1>1 DEF Typing, TypeOK
  <2>2. \A q \in Requests \ {r} : run'[q] = run[q] /\ op'[q] = op[q] /\ wf'[q] = wf[q]
    BY <1>1 DEF Typing, TypeOK
  <2>. QED
    BY <1>1, <2>1, <2>2, StageGranted
<1>. QED
  BY <1>1, <1>7, <1>8, <1>9 DEF Gates!Grant, StageOf
\* A decision lets the stage through whose webhook it calls, if it calls one.
LEMMA DecideGrants ==
    ASSUME Typing, GateInv, NEW r \in Requests, NEW o \in Operations, NEW k \in StepKeys,
           NEW d \in Decisions, NEW s \in WorkflowStatuses, NEW t \in StepStatuses,
           Decide(r, o, k, d, s, t)
    PROVE  /\ GateInv'
           /\ \/ UNCHANGED <<Granted, Published>>
              \/ \E w \in Workflows, stage \in Stages : Gates!Grant(w, stage)
<1>1. /\ wf[r] \in Workflows /\ Exists(wf[r]) /\ op[r] = o /\ run[r] = "none"
      /\ status' = [status EXCEPT ![wf[r]] = s]
      /\ run' = IF o \in Notifying THEN [run EXCEPT ![r] = "inbox"] ELSE run
      /\ UNCHANGED <<feature, op, wf, seen, documents, issues, project>>
  BY DEF Decide, SetStatus, RunTo, Typing, RequestOK
<1>2. GateInv'
  <2>1. \A v \in Workflows : /\ status'[v] = "absent" <=> status[v] = "absent"
                             /\ status'[v] = "deleted" => status[v] = "deleted"
    BY <1>1 DEF Typing, TypeOK, Exists, WorkflowStatuses
  <2>. QED
    BY <1>1, <2>1, GateStays DEF GateInv
<1>3. CASE o \notin Notifying
  BY <1>1, <1>2, <1>3, NothingPublished
<1>4. CASE o \in Notifying
  <2>1. StageOf(o) \in Stages
    BY <1>4 DEF StageOf, Stages, Notifying
  <2>2. /\ run'[r] # "none" /\ wf'[r] = wf[r] /\ op'[r] = op[r]
        /\ \A q \in Requests \ {r} : run'[q] = run[q] /\ op'[q] = op[q] /\ wf'[q] = wf[q]
    BY <1>1, <1>4 DEF Typing, TypeOK
  <2>3. Granted' = [Granted EXCEPT ![wf[r]] = @ \cup {StageOf(o)}]
    BY <1>1, <2>2, StageGranted
  <2>4. Published' = Published
    BY <1>1 DEF Published
  <2>. QED
    BY <1>1, <1>2, <2>1, <2>3, <2>4 DEF Gates!Grant
<1>. QED
  BY <1>3, <1>4

\* What a run has in its payload its workflow has published.
LEMMA PayloadIsPublished ==
    ASSUME Typing, Chain, GateInv, NEW r \in Requests, run[r] = "generating"
    PROVE  /\ wf[r] \in Workflows
           /\ Stage(r) \in Granted[wf[r]]
           /\ Gates!Previous(Stage(r)) \subseteq Published[wf[r]]
<1>1. wf[r] \in Workflows /\ Stage(r) \in Stages
  BY RunFacts
<1>2. PreviewAvailable(r)
  BY DEF Chain, RequestChain, Running
<1>3. \A t \in Stages : [feature |-> feature[wf[r]], stage |-> t] \in documents =>
        t \in Published[wf[r]]
  <2>. SUFFICES ASSUME NEW t \in Stages, [feature |-> feature[wf[r]], stage |-> t] \in documents
       PROVE  t \in Published[wf[r]]
    OBVIOUS
  <2>1. t \in {d.stage : d \in {e \in documents : e.feature = feature[wf[r]]}}
    OBVIOUS
  <2>. QED
    BY <1>1, <2>1 DEF Published
<1>4. Gates!Previous(Stage(r)) \subseteq Published[wf[r]]
  BY <1>1, <1>2, <1>3 DEF GateInv, PreviewAvailable, Gates!Previous, Stages
<1>5. Stage(r) \in Granted[wf[r]]
  BY <1>1 DEF Granted, Stage
<1>. QED
  BY <1>1, <1>4, <1>5

\* putGitHubFile publishes the stage of the run, of its workflow alone.
LEMMA PutFilePublishes ==
    ASSUME Typing, Chain, GateInv, NEW r \in Requests, RunPutFile(r)
    PROVE  /\ GateInv'
           /\ \/ UNCHANGED <<Granted, Published>>
              \/ \E w \in Workflows, stage \in Stages : Gates!Publish(w, stage)
<1>. DEFINE w == wf[r]
<1>1. /\ run[r] = "generating" /\ w \in Rows /\ Stage(r) \in Stages
      /\ UNCHANGED <<project, status, feature, op, wf, seen, issues>>
      /\ documents' = documents \cup {DocumentOf(r)} \/ documents' = documents
      /\ run' \in {[run EXCEPT ![r] = l] : l \in RunStates \ {"none"}}
  BY RunFacts DEF RunPutFile, RunTo, RunStates, Rows, Typing, RequestOK, dbVars, hubVars
<1>2. w \in Workflows /\ DocumentOf(r).feature = feature[w] /\ DocumentOf(r).stage = Stage(r)
  BY <1>1 DEF Rows, DocumentOf
<1>3. GateInv'
  BY <1>1, <1>2, GateStays DEF GateInv
<1>4. \A q \in Requests : run'[q] = "none" <=> run[q] = "none"
  BY <1>1 DEF Typing, TypeOK
<1>5. CASE documents' = documents
  BY <1>1, <1>3, <1>4, <1>5, NothingPublished
<1>6. CASE documents' = documents \cup {DocumentOf(r)}
  <2>1. \A v \in Workflows : feature[v] = feature[w] <=> v = w
    BY <1>1, NoValueAssumption DEF GateInv, Rows, Typing, FeatureOK
  <2>. DEFINE of(v) == {e \in documents : e.feature = feature[v]}
  <2>2. \A v \in Workflows : {e \in documents' : e.feature = feature[v]} =
          IF v = w THEN of(v) \cup {DocumentOf(r)} ELSE of(v)
    BY <1>2, <1>6, <2>1
  <2>3. Published' = [Published EXCEPT ![w] = @ \cup {Stage(r)}]
    <3>. DEFINE opened(v) == {"codex" : i \in {j \in issues : j.wf = v}}
    <3>1. Published = [v \in Workflows |-> {e.stage : e \in of(v)} \cup opened(v)]
      BY DEF Published
    <3>2. Published' = [v \in Workflows |->
            {e.stage : e \in IF v = w THEN of(v) \cup {DocumentOf(r)} ELSE of(v)} \cup opened(v)]
      BY <1>1, <2>2 DEF Published
    <3>. HIDE DEF of, opened
    <3>3. \A v \in Workflows :
            {e.stage : e \in IF v = w THEN of(v) \cup {DocumentOf(r)} ELSE of(v)} =
              IF v = w THEN {e.stage : e \in of(v)} \cup {Stage(r)} ELSE {e.stage : e \in of(v)}
      BY <1>2
    <3>. QED
      BY <1>2, <3>1, <3>2, <3>3
  <2>4. Granted' = Granted
    <3>1. \A q \in Requests : wf'[q] = wf[q] /\ op'[q] = op[q]
      BY <1>1
    <3>2. \A v \in Workflows : {q \in Requests : wf'[q] = v /\ run'[q] # "none"}
                                = {q \in Requests : wf[q] = v /\ run[q] # "none"}
      BY <1>1, <1>4
    <3>. QED
      BY <1>1, <3>2 DEF Granted
  <2>5. Gates!Publish(w, Stage(r))
    BY <1>1, <2>3, <2>4, PayloadIsPublished DEF Gates!Publish
  <2>. QED
    BY <1>1, <1>2, <1>3, <2>5
<1>. QED
  BY <1>1, <1>5, <1>6
\* createGitHubIssue publishes the last stage of the workflow of the run.
LEMMA CreateIssuePublishes ==
    ASSUME Typing, Chain, GateInv, NEW r \in Requests, RunCreateIssue(r)
    PROVE  GateInv' /\ \E w \in Workflows, stage \in Stages : Gates!Publish(w, stage)
<1>. DEFINE w == wf[r]
<1>1. /\ run[r] = "generating" /\ w \in Workflows /\ Stage(r) = "codex"
      /\ UNCHANGED <<project, status, feature, op, wf, seen, documents>>
      /\ issues' = issues \cup {[by |-> r, wf |-> w]}
      /\ run' = [run EXCEPT ![r] = "posting_artifact"]
  BY RunFacts DEF RunCreateIssue, RunTo, dbVars, hubVars
<1>2. GateInv'
  BY <1>1, GateStays DEF GateInv
<1>. DEFINE written(v) == {d.stage : d \in {e \in documents : e.feature = feature[v]}}
            opened(v) == {j \in issues : j.wf = v}
<1>3. Published' = [Published EXCEPT ![w] = @ \cup {"codex"}]
  <2>1. Published = [v \in Workflows |-> written(v) \cup {"codex" : i \in opened(v)}]
    BY DEF Published
  <2>2. Published' =
          [v \in Workflows |-> written(v) \cup {"codex" : i \in {j \in issues' : j.wf = v}}]
    BY <1>1 DEF Published
  <2>3. \A v \in Workflows : {j \in issues' : j.wf = v} =
          IF v = w THEN opened(v) \cup {[by |-> r, wf |-> w]} ELSE opened(v)
    BY <1>1
  <2>. HIDE DEF written, opened
  <2>4. \A v \in Workflows : {"codex" : i \in {j \in issues' : j.wf = v}} =
          IF v = w THEN {"codex" : i \in opened(v)} \cup {"codex"} ELSE {"codex" : i \in opened(v)}
    <3>1. {"codex" : i \in opened(w) \cup {[by |-> r, wf |-> w]}}
            = {"codex" : i \in opened(w)} \cup {"codex"}
      OBVIOUS
    <3>. QED
      BY <2>3, <3>1
  <2>5. Published' = [v \in Workflows |-> IF v = w THEN Published[v] \cup {"codex"} ELSE Published[v]]
    BY <2>1, <2>2, <2>4
  <2>6. Published = [v \in Workflows |-> Published[v]]
    BY <2>1
  <2>. QED
    BY <1>1, <2>5, <2>6
<1>4. Granted' = Granted
  <2>1. \A v \in Workflows : {q \in Requests : wf'[q] = v /\ run'[q] # "none"}
                              = {q \in Requests : wf[q] = v /\ run[q] # "none"}
    BY <1>1 DEF Typing, TypeOK
  <2>. QED
    BY <1>1, <2>1 DEF Granted
<1>5. Gates!Publish(w, "codex")
  BY <1>1, <1>3, <1>4, PayloadIsPublished DEF Gates!Publish
<1>. QED
  BY <1>1, <1>2, <1>5 DEF Stages

\* GetWorkflow reads artifacts whose files are published.
LEMMA ReadIsPublished ==
    ASSUME Typing, Chain, OnceInv, GateInv, NEW r \in Requests, NEW w \in Workflows,
           NEW o \in Operations, ReadWorkflow(r, w, o)
    PROVE  GateInv'
<1>1. /\ UNCHANGED <<project, status, feature, documents>>
      /\ wf' = [wf EXCEPT ![r] = w] /\ seen' = [seen EXCEPT ![r] = {a.type : a \in artifacts[w]}]
  BY DEF ReadWorkflow, dbVars, n8nVars
<1>2. ASSUME NEW a \in artifacts[w]
      PROVE  /\ a.type = "spec" => [feature |-> feature[w], stage |-> "intake"] \in documents
             /\ a.type = "architecture" =>
                  [feature |-> feature[w], stage |-> "architecture"] \in documents
  <2>1. a.type = ArtifactOf(Stage(a.by)) /\ Stage(a.by) \in Stages
    BY AuthorFacts, RunFacts
  <2>2. /\ a.type = "spec" => Stage(a.by) = "intake"
        /\ a.type = "architecture" => Stage(a.by) = "architecture"
    BY <2>1 DEF ArtifactOf, Stages
  <2>. QED
    BY <2>2 DEF OnceInv, FilesAreReportedOnce
<1>3. ASSUME NEW q \in Requests, wf'[q] \in Workflows
      PROVE  /\ "spec" \in seen'[q] =>
                  [feature |-> feature[wf'[q]], stage |-> "intake"] \in documents
             /\ "architecture" \in seen'[q] =>
                  [feature |-> feature[wf'[q]], stage |-> "architecture"] \in documents
  <2>1. CASE q = r
    BY <1>1, <1>2, <2>1 DEF Typing, TypeOK
  <2>2. CASE q # r
    BY <1>1, <1>3, <2>2 DEF GateInv, Typing, TypeOK
  <2>. QED
    BY <2>1, <2>2
<1>. QED
  BY <1>1, <1>3 DEF GateInv, Rows

\* Every step keeps the invariant and is a step, or a stutter, of StageGates.
LEMMA GateStep ==
    ASSUME Typing, Chain, OnceInv, GateInv, [Next]_vars
    PROVE  GateInv' /\ [Gates!Next]_<<Granted, Published>>
<1>1. CASE UNCHANGED vars \/ UpdateProject \/ DeleteProject
  <2>1. /\ UNCHANGED <<feature, op, wf, seen, run, documents, issues>>
        /\ \A v \in Workflows : status'[v] = "absent" <=> status[v] = "absent"
        /\ (\E v \in Workflows : status'[v] = "deleted") => project' = "deleted"
    BY <1>1 DEF vars, UpdateProject, DeleteProject, dbVars, hubVars, n8nVars, GateInv, Exists,
       WorkflowStatuses
  <2>. QED
    BY <2>1, GateStays, NothingPublished
<1>2. ASSUME NEW r \in Requests, UserStep(r)
      PROVE  GateInv' /\ UNCHANGED <<Granted, Published>>
  <2>1. /\ UNCHANGED <<project, status, feature, run, documents, issues>>
        /\ \A q \in Requests : run[q] # "none" => op'[q] = op[q] /\ wf'[q] = wf[q]
    BY <1>2 DEF UserStep, CheckProject, ReadWorkflow, dbVars, n8nVars, Typing, TypeOK, RequestOK
  <2>2. CASE CheckProject(r)
    BY <2>1, <2>2, GateStays, NothingPublished DEF CheckProject, GateInv
  <2>3. CASE ~CheckProject(r)
    BY <1>2, <2>1, <2>3, ReadIsPublished, NothingPublished DEF UserStep
  <2>. QED
    BY <2>2, <2>3
<1>3. ASSUME NEW r \in Requests,
             \/ \E f \in Features : RefuseWorkflow(r, f)
             \/ DecideNothing(r) \/ WebhookAnswers(r) \/ WebhookFails(r)
             \/ MarkWorkflowFailed(r) \/ Drop(r)
      PROVE  GateInv' /\ UNCHANGED <<Granted, Published>>
  <2>1. /\ UNCHANGED <<project, feature, op, wf, seen, run, documents, issues>>
        /\ \A v \in Workflows : /\ status'[v] = "absent" <=> status[v] = "absent"
                                /\ status'[v] = "deleted" => status[v] = "deleted"
    BY <1>3 DEF RefuseWorkflow, DecideNothing, WebhookAnswers, WebhookFails, MarkWorkflowFailed,
       SetStatus, Drop, dbVars, n8nVars, Typing, TypeOK, Exists, WorkflowStatuses
  <2>. QED
    BY <2>1, GateStays, NothingPublished DEF GateInv
<1>4. ASSUME NEW r \in Requests,
             \/ RunStart(r) \/ RunThrow(r)
             \/ \E heard \in BOOLEAN :
                  RunPostArtifact(r, heard) \/ RunPostStatus(r, heard) \/ RunPostEvent(r, heard)
      PROVE  GateInv' /\ UNCHANGED <<Granted, Published>>
  <2>1. /\ UNCHANGED <<project, feature, op, wf, seen, documents, issues>>
        /\ \A v \in Workflows : /\ status'[v] = "absent" <=> status[v] = "absent"
                                /\ status'[v] = "deleted" => status[v] = "deleted"
    BY <1>4, RunFacts DEF RunStart, RunThrow, RunPostArtifact, RunPostStatus, RunPostEvent,
       SetStatus, dbVars, hubVars, Typing, TypeOK, Exists, WorkflowStatuses, Stages
  <2>2. \A q \in Requests : run'[q] = "none" <=> run[q] = "none"
    BY <1>4 DEF RunStart, RunThrow, RunPostArtifact, RunPostStatus, RunPostEvent, Continue,
       RunTo, Running, Typing, TypeOK
  <2>. QED
    BY <2>1, <2>2, GateStays, NothingPublished DEF GateInv
<1>5. ASSUME NEW r \in Requests, NEW w \in Workflows, NEW f \in Features, CommitWorkflow(r, w, f)
      PROVE  GateInv' /\ Gates!Next
  BY <1>5, CommitGrants DEF Gates!Next, Gates!Stages
<1>6. ASSUME NEW r \in Requests,
             \/ ApproveSpec(r) \/ RequestSpecChanges(r) \/ ApproveArchitecture(r)
             \/ RequestArchitectureChanges(r) \/ Reject(r)
      PROVE  GateInv' /\ (Gates!Next \/ UNCHANGED <<Granted, Published>>)
  <2>1. PICK o \in Operations, k \in StepKeys, d \in Decisions, s \in WorkflowStatuses,
             t \in StepStatuses : Decide(r, o, k, d, s, t)
    BY <1>6 DEF ApproveSpec, RequestSpecChanges, ApproveArchitecture, RequestArchitectureChanges,
       Reject, Operations, StepKeys, Decisions, WorkflowStatuses, StepStatuses
  <2>. QED
    BY <2>1, DecideGrants DEF Gates!Next, Gates!Stages, Stages
<1>7. ASSUME NEW r \in Requests, RunPutFile(r) \/ RunCreateIssue(r)
      PROVE  GateInv' /\ (Gates!Next \/ UNCHANGED <<Granted, Published>>)
  BY <1>7, PutFilePublishes, CreateIssuePublishes DEF Gates!Next, Gates!Stages, Stages
<1>8. ASSUME NEW r \in Requests, HubStep(r)
      PROVE  GateInv' /\ (Gates!Next \/ UNCHANGED <<Granted, Published>>)
  BY <1>3, <1>5, <1>6, <1>8 DEF HubStep
<1>9. ASSUME NEW r \in Requests, N8NStep(r)
      PROVE  GateInv' /\ (Gates!Next \/ UNCHANGED <<Granted, Published>>)
  BY <1>4, <1>7, <1>9 DEF N8NStep
<1>10. CASE \E r \in Requests : UserStep(r) \/ HubStep(r) \/ Drop(r) \/ N8NStep(r)
  BY <1>2, <1>3, <1>8, <1>9, <1>10
<1>. QED
  BY <1>1, <1>10 DEF Next

\* The requests, their stale payloads and the n8n runs keep the gates of the
\* stages (service.go:209-259, 340-449; the three branches of the n8n
\* workflow): the detailed specification implements StageGates.
THEOREM GatesAreKept == Spec => ImplementsGates
<1>1. Init => OnceInv /\ GateInv /\ Gates!Init
  <2>1. Init => OnceInv /\ GateInv
    BY NoValueAssumption DEF Init, OnceInv, OneDocumentPerStage, FilesAreReportedOnce, GateInv, Rows
  <2>2. Init => Gates!Init
    BY DEF Init, Gates!Init, Granted, Published
  <2>. QED
    BY <2>1, <2>2
<1>2. Typing /\ Chain /\ OnceInv /\ GateInv /\ [Next]_vars =>
        OnceInv' /\ GateInv' /\ [Gates!Next]_<<Granted, Published>>
  BY OnceStep, GateStep
<1>3. Spec => Gates!Spec
  BY InitTyping, TypingStep, InitChain, ChainStep, <1>1, <1>2, PTL DEF Spec, Gates!Spec
<1>. QED
  BY <1>3 DEF ImplementsGates
=============================================================================
