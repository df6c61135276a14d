---------------------------- MODULE WorkflowFsm ----------------------------
(***************************************************************************)
(* The workflow table of the orchestrator: the states of                   *)
(* workflow-state.ts and the legal transitions of transitions.ts, each     *)
(* with the conditions it requires.  Every component that moves a run      *)
(* from one state to another calls assertTransition, so this module is     *)
(* shared by all of them.  A TransitionConditions object is modelled by    *)
(* the set of its fields that are true.                                    *)
(***************************************************************************)
EXTENDS Naturals

WORKFLOW_STATES ==
  { "RECEIVED", "POLICY_LOADED", "CLOUD_CONTEXT_LOADED", "CLARIFYING",
    "MANIFEST_CREATING", "MANIFEST_VALIDATING", "IAC_GENERATING",
    "PLAN_CREATING", "POLICY_CHECKING", "CONFIRMING", "APPROVING",
    "EXECUTING", "COMPLETED", "FAILED", "CANCELLED" }

TERMINAL_WORKFLOW_STATES == { "COMPLETED", "FAILED", "CANCELLED" }

isTerminalWorkflowState(state) == state \in TERMINAL_WORKFLOW_STATES

TransitionConditions ==
  { "policiesEnabled", "policyRequirementsLoaded", "cloudContextLoaded",
    "clarificationCompleted", "manifestCreated", "manifestValidationPassed",
    "manifestConfirmed", "iacGenerated", "planCreated", "policyCheckPassed",
    "confirmationCompleted", "approvalRequired", "approvalCompleted" }

---------------------------------------------------------------------------
To(state, requiredConditions) ==
  [to |-> state, requiredConditions |-> requiredConditions]

EXIT_TO_FAILURE_OR_CANCELLATION == { To("FAILED", {}), To("CANCELLED", {}) }

\* Both kinds of planning context, required before any draft may be made.
PlanningContext == { "policyRequirementsLoaded", "cloudContextLoaded" }

\* The forward edges that leave a state; the exits are added below.
ForwardTransitions(from) ==
  CASE from = "RECEIVED" ->
         { To("POLICY_LOADED", {}), To("CLOUD_CONTEXT_LOADED", {}) }
    [] from = "POLICY_LOADED" ->
         { To("CLOUD_CONTEXT_LOADED", {"policyRequirementsLoaded"}) }
    [] from = "CLOUD_CONTEXT_LOADED" ->
         { To("CLARIFYING", {"cloudContextLoaded"}),
           To("MANIFEST_CREATING", PlanningContext) }
    [] from = "CLARIFYING" ->
         { To("CLARIFYING", {}),
           To("MANIFEST_CREATING", PlanningContext \cup {"clarificationCompleted"}) }
    [] from = "MANIFEST_CREATING" ->
         { To("CLARIFYING", {"cloudContextLoaded"}),
           To("MANIFEST_VALIDATING", {"manifestCreated"}) }
    [] from = "MANIFEST_VALIDATING" ->
         { To("MANIFEST_CREATING", PlanningContext),
           To("IAC_GENERATING", {"manifestValidationPassed", "manifestConfirmed"}) }
    [] from = "IAC_GENERATING" -> { To("PLAN_CREATING", {"iacGenerated"}) }
    [] from = "PLAN_CREATING" -> { To("POLICY_CHECKING", {"planCreated"}) }
    [] from = "POLICY_CHECKING" -> { To("CONFIRMING", {"policyCheckPassed"}) }
    [] from = "CONFIRMING" ->
         { To("APPROVING", {"confirmationCompleted", "approvalRequired"}),
           To("EXECUTING", {"confirmationCompleted"}) }
    [] from = "APPROVING" ->
         { To("MANIFEST_CREATING", PlanningContext),
           To("EXECUTING",
              {"confirmationCompleted", "approvalRequired", "approvalCompleted"}) }
    [] from = "EXECUTING" -> { To("COMPLETED", {}), To("FAILED", {}) }
    [] OTHER -> {}

\* The only legal state changes.  EXECUTING may fail but not be cancelled.
ALLOWED_TRANSITIONS(from) ==
  ForwardTransitions(from)
    \cup (IF isTerminalWorkflowState(from) \/ from = "EXECUTING"
          THEN {} ELSE EXIT_TO_FAILURE_OR_CANCELLATION)

\* The hard gates, which hold whatever the table says.
HardGates(to, conditions) ==
  /\ to = "MANIFEST_CREATING" /\ "policiesEnabled" \in conditions
       => "policyRequirementsLoaded" \in conditions
  /\ to = "EXECUTING" => "policyCheckPassed" \in conditions
  /\ to = "EXECUTING" /\ "approvalRequired" \in conditions
       => "approvalCompleted" \in conditions

\* TRUE when assertTransition returns, FALSE when it throws.
assertTransition(from, to, conditions) ==
  /\ \E t \in ALLOWED_TRANSITIONS(from) :
       t.to = to /\ t.requiredConditions \subseteq conditions
  /\ HardGates(to, conditions)
============================================================================
