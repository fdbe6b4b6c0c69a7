----------------------------- MODULE StageGates -----------------------------
(***************************************************************************)
(* What the orchestrator promises its user about the stages of a feature:  *)
(* a stage publishes only after the user let it through its gate in the    *)
(* Hub, and only when the stage before it has published.  The gates are    *)
(* the creation of the workflow, the approval of the spec and the approval *)
(* of the architecture (deploy/n8n/README.md, section Flow).               *)
(***************************************************************************)

CONSTANT Workflows

VARIABLES
    granted,     \* granted[w]: the stages the user let through
    published    \* published[w]: the stages with a file or an issue on GitHub

Stages == {"intake", "architecture", "codex"}

Previous(stage) == CASE stage = "intake" -> {}
                     [] stage = "architecture" -> {"intake"}
                     [] stage = "codex" -> {"architecture"}

Init ==
    /\ granted = [w \in Workflows |-> {}]
    /\ published = [w \in Workflows |-> {}]

Grant(w, stage) ==
    /\ granted' = [granted EXCEPT ![w] = @ \cup {stage}]
    /\ UNCHANGED published

Publish(w, stage) ==
    /\ stage \in granted[w]
    /\ Previous(stage) \subseteq published[w]
    /\ published' = [published EXCEPT ![w] = @ \cup {stage}]
    /\ UNCHANGED granted

Next == \E w \in Workflows, stage \in Stages : Grant(w, stage) \/ Publish(w, stage)

Spec == Init /\ [][Next]_<<granted, published>>
=============================================================================
