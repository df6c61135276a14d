---------------------------- MODULE RunLifecycle ---------------------------
(***************************************************************************)
(* One provisioning run as RunsService (orchestrator/src/state-machine/    *)
(* runs.service.ts) drives it: the row of provisioning_runs, the planning  *)
(* workers of the orchestrator processes, the sweeper that expires         *)
(* clarifications, the request handlers of the run's users, and the two    *)
(* stores the workers reach over HTTP (manifest versions and Terraform     *)
(* artifacts).                                                             *)
(*                                                                         *)
(* Every handler reads the row, awaits something, and commits through      *)
(* mutate, which takes the row lock and compares state_version with the    *)
(* version it read; one action here is what happens between two awaits.    *)
(* An HTTP call that changes no modelled state is one step with the commit *)
(* that follows it; a call that stores something is a step of its own, may *)
(* be lost, and may take effect after its caller has given up.             *)
(*                                                                         *)
(* 0 stands for SQL NULL in the version columns.  The columns              *)
(* policy_decision and approval_status are left out: no wired operation    *)
(* writes them, and POLICY_CHECKING and the states after it are not        *)
(* reached.                                                                *)
(***************************************************************************)
EXTENDS WorkflowFsm, Sequences, FiniteSets

CONSTANTS
  Workers,       \* planning workers, one per orchestrator process
  Clients,       \* concurrent requests of the run's users
  Drafts,        \* manifest contents the agent may produce
  Keys,          \* idempotency keys of clarification answers
  Answers,       \* clarification answers that match the question's fields
  PolicyModes,   \* outcomes of the workspace's policies_enabled setting
  None,          \* "no worker", "no draft", "no key"
  MaxAsks,       \* bound: clarification questions the agent asks
  MaxSays,       \* bound: agent outputs that are neither draft nor question
  MaxRevisions,  \* bound: revisions the users request
  MaxFaults      \* bound: crashes, lost lock connections, lost replies

ASSUME ConstantsAssumption ==
  /\ None \notin Workers \cup Drafts \cup Keys \cup Answers
  /\ PolicyModes \subseteq {"enabled", "disabled"}
  /\ MaxAsks \in Nat /\ MaxSays \in Nat /\ MaxRevisions \in Nat /\ MaxFaults \in Nat

VARIABLES
  run,        \* the row of provisr_state.provisioning_runs
  expired,    \* the deadline of the current question has passed
  manifests,  \* provisr_manifest.manifests of the run, by version
  artifacts,  \* versions that have a row in provisr_iac.artifacts
  shown,      \* ManifestReadyEvents: the draft published under each version
  late,       \* store requests whose caller no longer waits for the reply
  lock,       \* holder of the session lock pg_try_advisory_lock(run)
  worker,     \* control point and local variables of every worker
  sweep,      \* state_version read by expireClarifications, 0 between polls
  client,     \* control point and local variables of every request
  acked,      \* clarification answers acknowledged to a user
  used        \* how much of each bound has been used, and the history of
              \* the invalid drafts recorded since the last revision

database  == << run, manifests, artifacts, shown, acked >>
processes == << late, lock, worker, sweep, client >>
vars      == << database, processes, expired, used >>
----------------------------------------------------------------------------
(* The row                                                                 *)

NewRun ==
  [ state                      |-> "RECEIVED",
    stateVersion               |-> 0,
    policyRequirements         |-> "none",
    cloudContext               |-> FALSE,
    agentSession               |-> FALSE,
    agentTurnPending           |-> TRUE,
    currentQuestion            |-> 0,
    answersHistory             |-> << >>,
    manifestValidationAttempts |-> 0,
    manifestVersion            |-> 0,
    manifestValidatedVersion   |-> 0,
    manifestConfirmedVersion   |-> 0,
    iacArtifactId              |-> 0 ]

\* The attempts of dispatchAgent before a run whose drafts are invalid fails.
MaxValidationAttempts == 3

assertConfirmedManifest(row) ==
  /\ row.manifestVersion # 0
  /\ row.manifestVersion = row.manifestValidatedVersion
  /\ row.manifestVersion = row.manifestConfirmedVersion

\* The evidence query of mutate: the artifact row of the confirmed version.
IacEvidence(row) ==
  /\ row.iacArtifactId # 0
  /\ assertConfirmedManifest(row)
  /\ row.iacArtifactId \in artifacts
  /\ row.iacArtifactId = row.manifestVersion

When(holds, condition) == IF holds THEN {condition} ELSE {}

\* confirmationCompleted and planCreated have no source of evidence: never true.
conditions(row) ==
  UNION {
    When(row.policyRequirements # "disabled", "policiesEnabled"),
    When(row.policyRequirements # "none", "policyRequirementsLoaded"),
    When(row.cloudContext, "cloudContextLoaded"),
    When(row.currentQuestion = 0 /\ row.answersHistory # << >>, "clarificationCompleted"),
    When(row.manifestVersion # 0, "manifestCreated"),
    When(row.manifestVersion # 0 /\ row.manifestValidatedVersion = row.manifestVersion,
         "manifestValidationPassed"),
    When(row.manifestConfirmedVersion # 0
           /\ row.manifestConfirmedVersion = row.manifestVersion, "manifestConfirmed"),
    When(IacEvidence(row), "iacGenerated") }

\* mutate with a state: the version read is still current and the gates hold.
MayTransition(expectedVersion, to, candidate) ==
  /\ run.stateVersion = expectedVersion
  /\ assertTransition(run.state, to, conditions(candidate))

\* mutate without a state: refused only for a terminal run.
MayTouch(expectedVersion) ==
  /\ run.stateVersion = expectedVersion
  /\ ~isTerminalWorkflowState(run.state)

\* Mutant of Committed: the update forgets state_version + 1.
CommittedSameVersion(to, candidate) == [candidate EXCEPT !.state = to]

Committed(to, candidate) ==
  [candidate EXCEPT !.state = to, !.stateVersion = run.stateVersion + 1]
----------------------------------------------------------------------------
(* The stores behind the workers' HTTP calls                               *)

\* StoreManifestVersionWithKey: a key that is already used answers with its
\* version when the content is the same and is a conflict (0) when it is not.
StoredUnder(key) == { v \in DOMAIN manifests : manifests[v].key = key }

\* Mutant of StoreResult: a used key answers without comparing the content.
StoreResultIgnoringContent(key, draft) ==
  IF StoredUnder(key) = {} THEN Len(manifests) + 1
  ELSE CHOOSE v \in StoredUnder(key) : TRUE

StoreResult(key, draft) ==
  IF StoredUnder(key) = {} THEN Len(manifests) + 1
  ELSE LET v == CHOOSE v \in StoredUnder(key) : TRUE
       IN  IF manifests[v].draft = draft THEN v ELSE 0

\* Mutant of StoreManifestVersionWithKey: the key is not looked up.
StoreManifestVersionWithoutKey(key, draft) ==
  manifests' = Append(manifests, [key |-> key, draft |-> draft])

StoreManifestVersionWithKey(key, draft) ==
  manifests' = IF StoredUnder(key) = {}
               THEN Append(manifests, [key |-> key, draft |-> draft])
               ELSE manifests

\* Generate: checks the row under its lock; a repeated key returns the artifact.
GenerateAccepts(version) ==
  /\ assertConfirmedManifest(run)
  /\ run.manifestVersion = version
  /\ version \in artifacts \/ run.state = "IAC_GENERATING"

Generate(version) ==
  artifacts' = IF GenerateAccepts(version) THEN artifacts \cup {version} ELSE artifacts
----------------------------------------------------------------------------
(* The planning worker                                                     *)

Resting(pc) == [pc |-> pc, run |-> NewRun, draft |-> None, version |-> 0]
At(w, pc)   == worker[w].pc = pc
Read(w)     == worker[w].run
Goto(w, pc) == worker' = [worker EXCEPT ![w] = Resting(pc)]
Await(w, pc, draft, version) ==
  worker' = [worker EXCEPT ![w] =
               [pc |-> pc, run |-> Read(w), draft |-> draft, version |-> version]]

\* A commit of worker w that leaves the run in state `to` and continues at pc.
\* A conflict (stale version or closed gate) is swallowed and ends the pass.
CommitAt(w, to, candidate, pc) ==
  IF MayTransition(Read(w).stateVersion, to, candidate)
  THEN /\ run' = Committed(to, candidate)
       /\ worker' = [worker EXCEPT ![w] = [Resting(pc) EXCEPT !.run = Committed(to, candidate)]]
  ELSE /\ Goto(w, "unlock")
       /\ UNCHANGED run

\* The last commit of a pass: nothing is kept from the row.
CommitLast(w, to, candidate) ==
  /\ run' = IF MayTransition(Read(w).stateVersion, to, candidate)
            THEN Committed(to, candidate) ELSE run
  /\ Goto(w, "unlock")

TouchAt(w, candidate, pc) ==
  IF MayTouch(Read(w).stateVersion)
  THEN /\ run' = Committed(run.state, candidate)
       /\ worker' = [worker EXCEPT ![w] =
                       [worker[w] EXCEPT !.pc = pc, !.run = Committed(run.state, candidate),
                                         !.draft = None]]
  ELSE /\ Goto(w, "unlock")
       /\ UNCHANGED run

\* The states processPendingRuns selects.
Pending(row) ==
  \/ row.state \in {"RECEIVED", "POLICY_LOADED", "CLOUD_CONTEXT_LOADED", "IAC_GENERATING"}
  \/ row.state = "MANIFEST_CREATING" /\ row.agentTurnPending

\* Where processRun goes for a row it has read or just written.
Dispatch(row) ==
  CASE row.state \in {"RECEIVED", "POLICY_LOADED", "CLOUD_CONTEXT_LOADED"} -> "load_context"
    [] row.state = "MANIFEST_CREATING" /\ row.agentTurnPending             -> "agent"
    [] row.state = "IAC_GENERATING"                                        -> "iac"
    [] row.state = "CLARIFYING" /\ expired                                 -> "expire"
    [] OTHER                                                               -> "unlock"

SelectPending(w) ==
  /\ At(w, "idle")
  /\ Pending(run)
  /\ Goto(w, "lock")
  /\ UNCHANGED << database, late, lock, sweep, client, expired, used >>

TryLock(w) ==
  /\ At(w, "lock")
  /\ IF lock = None
     THEN lock' = w /\ Goto(w, "read")
     ELSE UNCHANGED lock /\ Goto(w, "idle")
  /\ UNCHANGED << database, late, sweep, client, expired, used >>

ReadRun(w) ==
  /\ At(w, "read")
  /\ worker' = [worker EXCEPT ![w] =
       IF Dispatch(run) = "unlock" THEN Resting("unlock")
       ELSE [Resting(Dispatch(run)) EXCEPT !.run = run]]
  /\ UNCHANGED << database, late, lock, sweep, client, expired, used >>

StartPolicyLoad(w) ==
  /\ At(w, "load_context") /\ Read(w).state = "RECEIVED"
  /\ CommitAt(w, "POLICY_LOADED", run, "load_context")
  /\ UNCHANGED << manifests, artifacts, shown, acked, late, lock, sweep, client, expired, used >>

\* Mutant of LoadPolicy: the requirements are fetched and not recorded.
LoadPolicyUnrecorded(w, mode) ==
  /\ At(w, "load_context") /\ Read(w).state = "POLICY_LOADED"
  /\ CommitAt(w, "CLOUD_CONTEXT_LOADED", run, "load_context")
  /\ UNCHANGED << manifests, artifacts, shown, acked, late, lock, sweep, client, expired, used >>

LoadPolicy(w, mode) ==
  /\ At(w, "load_context") /\ Read(w).state = "POLICY_LOADED"
  /\ CommitAt(w, "CLOUD_CONTEXT_LOADED",
              [run EXCEPT !.policyRequirements = mode], "load_context")
  /\ UNCHANGED << manifests, artifacts, shown, acked, late, lock, sweep, client, expired, used >>

LoadCloudContext(w) ==
  /\ At(w, "load_context") /\ Read(w).state = "CLOUD_CONTEXT_LOADED"
  /\ CommitAt(w, "MANIFEST_CREATING", [run EXCEPT !.cloudContext = TRUE], "agent")
  /\ UNCHANGED << manifests, artifacts, shown, acked, late, lock, sweep, client, expired, used >>
----------------------------------------------------------------------------
(* dispatchAgent                                                           *)

ContextComplete(row) == row.policyRequirements # "none" /\ row.cloudContext

LinkAgentSession(w) ==
  /\ At(w, "agent") /\ ContextComplete(Read(w)) /\ ~Read(w).agentSession
  /\ TouchAt(w, [run EXCEPT !.agentSession = TRUE], "agent")
  /\ UNCHANGED << manifests, artifacts, shown, acked, late, lock, sweep, client, expired, used >>

InTurn(w) == At(w, "agent") /\ ContextComplete(Read(w)) /\ Read(w).agentSession

\* suspendRun: a new question, numbered, with a new deadline.
AgentAsks(w) ==
  /\ InTurn(w) /\ used.asks < MaxAsks
  /\ LET question  == used.asks + 1
         candidate == [run EXCEPT !.currentQuestion = question, !.agentTurnPending = FALSE]
         asked     == MayTransition(Read(w).stateVersion, "CLARIFYING", candidate)
     IN  /\ CommitLast(w, "CLARIFYING", candidate)
         /\ expired' = IF asked THEN FALSE ELSE expired
         /\ used' = IF asked THEN [used EXCEPT !.asks = question] ELSE used
  /\ UNCHANGED << manifests, artifacts, shown, acked, late, lock, sweep, client >>

\* A component payload or an assistant message ends the turn.
AgentSays(w) ==
  /\ InTurn(w) /\ used.says < MaxSays
  /\ used' = [used EXCEPT !.says = @ + 1]
  /\ run' = IF MayTouch(Read(w).stateVersion)
            THEN Committed(run.state, [run EXCEPT !.agentTurnPending = FALSE]) ELSE run
  /\ Goto(w, "unlock")
  /\ UNCHANGED << manifests, artifacts, shown, acked, late, lock, sweep, client, expired >>

\* Mutant of AgentDrafts: the draft is dropped before it is sent.
AgentDraftsNothing(w, draft) ==
  /\ InTurn(w)
  /\ Await(w, "store", None, 0)
  /\ UNCHANGED << database, late, lock, sweep, client, expired, used >>

\* createManifest is sent with the key manifest:<run>:<stateVersion>.
AgentDrafts(w, draft) ==
  /\ InTurn(w)
  /\ Await(w, "store", draft, 0)
  /\ UNCHANGED << database, late, lock, sweep, client, expired, used >>

\* Mutant of RejectDraft: one attempt too many.
RejectDraftOnceMore(w) ==
  /\ At(w, "store")
  /\ LET attempts  == Read(w).manifestValidationAttempts + 1
         candidate == [run EXCEPT !.manifestValidationAttempts = attempts]
         last      == attempts > MaxValidationAttempts
         recorded  == IF last THEN MayTransition(Read(w).stateVersion, "FAILED", candidate)
                              ELSE MayTouch(Read(w).stateVersion)
     IN  /\ IF last THEN CommitLast(w, "FAILED", candidate) ELSE TouchAt(w, candidate, "agent")
         /\ used' = IF recorded THEN [used EXCEPT !.invalid = @ + 1] ELSE used
  /\ UNCHANGED << manifests, artifacts, shown, acked, late, lock, sweep, client, expired >>

\* The draft is invalid: another turn, or FAILED after the third attempt.
RejectDraft(w) ==
  /\ At(w, "store")
  /\ LET attempts  == Read(w).manifestValidationAttempts + 1
         candidate == [run EXCEPT !.manifestValidationAttempts = attempts]
         last      == attempts >= MaxValidationAttempts
         recorded  == IF last THEN MayTransition(Read(w).stateVersion, "FAILED", candidate)
                              ELSE MayTouch(Read(w).stateVersion)
     IN  /\ IF last THEN CommitLast(w, "FAILED", candidate) ELSE TouchAt(w, candidate, "agent")
         /\ used' = IF recorded THEN [used EXCEPT !.invalid = @ + 1] ELSE used
  /\ UNCHANGED << manifests, artifacts, shown, acked, late, lock, sweep, client, expired >>

\* The draft is valid and stored, and the reply arrives; a key conflict is an error.
StoreDraft(w) ==
  /\ At(w, "store")
  /\ LET key    == Read(w).stateVersion
         draft  == worker[w].draft
         result == StoreResult(key, draft)
     IN  /\ StoreManifestVersionWithKey(key, draft)
         /\ IF result = 0 THEN Await(w, "recheck", None, 0)
                          ELSE Await(w, "ready", draft, result)
  /\ UNCHANGED << run, artifacts, shown, acked, late, lock, sweep, client, expired, used >>

\* The manifest becomes the active, validated one, and its components are published.
CommitManifest(w) ==
  /\ At(w, "ready")
  /\ LET version   == worker[w].version
         candidate == [run EXCEPT !.manifestVersion = version,
                                  !.manifestValidatedVersion = version,
                                  !.agentTurnPending = FALSE,
                                  !.manifestConfirmedVersion = 0]
     IN  /\ CommitLast(w, "MANIFEST_VALIDATING", candidate)
         /\ shown' = IF MayTransition(Read(w).stateVersion, "MANIFEST_VALIDATING", candidate)
                     THEN shown \cup {[version |-> version, draft |-> worker[w].draft]}
                     ELSE shown
  /\ UNCHANGED << manifests, artifacts, acked, late, lock, sweep, client, expired, used >>
----------------------------------------------------------------------------
(* generateIac                                                             *)

\* The progress event "generation" moves the version the worker must present.
StartGeneration(w) ==
  /\ At(w, "iac") /\ assertConfirmedManifest(Read(w))
  /\ Read(w).manifestVersion \in DOMAIN manifests
  /\ TouchAt(w, run, "generate")
  /\ UNCHANGED << manifests, artifacts, shown, acked, late, lock, sweep, client, expired, used >>

GenerateIac(w) ==
  /\ At(w, "generate")
  /\ LET version == Read(w).manifestVersion
     IN  /\ Generate(version)
         /\ IF GenerateAccepts(version) THEN Await(w, "validate", None, version)
                                        ELSE Await(w, "recheck", None, 0)
  /\ UNCHANGED << run, manifests, shown, acked, late, lock, sweep, client, expired, used >>

\* The progress event "validation", then verifyIacArtifact on the response.
ReportValidation(w) ==
  /\ At(w, "validate")
  /\ TouchAt(w, run, "plan")
  /\ UNCHANGED << manifests, artifacts, shown, acked, late, lock, sweep, client, expired, used >>

\* Mutant of CommitPlan: the state is written without recording the artifact.
CommitPlanUnrecorded(w) ==
  /\ At(w, "plan")
  /\ run' = IF run.stateVersion = Read(w).stateVersion
            THEN Committed("PLAN_CREATING", run) ELSE run
  /\ Goto(w, "unlock")
  /\ UNCHANGED << manifests, artifacts, shown, acked, late, lock, sweep, client, expired, used >>

\* Mutant of CommitPlan: the evidence is checked, the version and the gate are not.
CommitPlanBlind(w) ==
  /\ At(w, "plan")
  /\ LET candidate == [run EXCEPT !.iacArtifactId = worker[w].version]
     IN  run' = IF IacEvidence(candidate) THEN Committed("PLAN_CREATING", candidate) ELSE run
  /\ Goto(w, "unlock")
  /\ UNCHANGED << manifests, artifacts, shown, acked, late, lock, sweep, client, expired, used >>

\* Missing evidence is an IacGenerationError, not a conflict.
CommitPlan(w) ==
  /\ At(w, "plan")
  /\ LET candidate == [run EXCEPT !.iacArtifactId = worker[w].version]
     IN  IF run.stateVersion = Read(w).stateVersion /\ ~IacEvidence(candidate)
         THEN Await(w, "recheck", None, 0) /\ UNCHANGED run
         ELSE CommitLast(w, "PLAN_CREATING", candidate)
  /\ UNCHANGED << manifests, artifacts, shown, acked, late, lock, sweep, client, expired, used >>
----------------------------------------------------------------------------
(* Errors, timeouts, crashes                                               *)

Working == {"load_context", "agent", "store", "ready", "iac", "generate", "validate", "plan"}

\* The requests that outlive a caller waiting at pc.
Outstanding(w) ==
  CASE At(w, "store") ->
         {[kind |-> "manifest", key |-> Read(w).stateVersion, draft |-> worker[w].draft]}
    [] At(w, "generate") -> {[kind |-> "iac", version |-> Read(w).manifestVersion]}
    [] OTHER -> {}

\* Any other error of a pass: a dependency refuses or answers nonsense.
StepFails(w) ==
  /\ worker[w].pc \in Working
  /\ Await(w, "recheck", None, 0)
  /\ UNCHANGED << database, late, lock, sweep, client, expired, used >>

\* A store request times out at its caller and may still be carried out.
Timeout(w) ==
  /\ worker[w].pc \in {"store", "generate"} /\ used.faults < MaxFaults
  /\ used' = [used EXCEPT !.faults = @ + 1]
  /\ late' = late \cup Outstanding(w)
  /\ Await(w, "recheck", None, 0)
  /\ UNCHANGED << database, lock, sweep, client, expired >>

\* The catch blocks read the run again and fail it only if nothing else moved it.
Recheck(w) ==
  /\ At(w, "recheck")
  /\ IF run.stateVersion = Read(w).stateVersion /\ ~isTerminalWorkflowState(run.state)
     THEN Await(w, "fail", None, 0) ELSE Goto(w, "unlock")
  /\ UNCHANGED << database, late, lock, sweep, client, expired, used >>

FailRun(w) ==
  /\ At(w, "fail")
  /\ CommitLast(w, "FAILED", run)
  /\ UNCHANGED << manifests, artifacts, shown, acked, late, lock, sweep, client, expired, used >>

\* processRun on a run that was suspended after it was selected.
ExpireInPass(w) ==
  /\ At(w, "expire")
  /\ CommitLast(w, "CANCELLED", run)
  /\ UNCHANGED << manifests, artifacts, shown, acked, late, lock, sweep, client, expired, used >>

Unlock(w) ==
  /\ At(w, "unlock")
  /\ lock' = IF lock = w THEN None ELSE lock
  /\ Goto(w, "idle")
  /\ UNCHANGED << database, late, sweep, client, expired, used >>

\* The process dies, or is stopped and aborts its calls: the session lock goes
\* with its connection, a request already sent does not.
Crash(w) ==
  /\ ~At(w, "idle") /\ used.faults < MaxFaults
  /\ used' = [used EXCEPT !.faults = @ + 1]
  /\ late' = late \cup Outstanding(w)
  /\ lock' = IF lock = w THEN None ELSE lock
  /\ Goto(w, "idle")
  /\ UNCHANGED << database, sweep, client, expired >>

\* The lock's connection breaks while the worker goes on.
LoseLock(w) ==
  /\ lock = w /\ used.faults < MaxFaults
  /\ used' = [used EXCEPT !.faults = @ + 1]
  /\ lock' = None
  /\ UNCHANGED << database, late, worker, sweep, client, expired >>

\* A request whose caller gave up reaches its store.
LateRequest(request) ==
  /\ late' = late \ {request}
  /\ IF request.kind = "manifest"
     THEN StoreManifestVersionWithKey(request.key, request.draft) /\ UNCHANGED artifacts
     ELSE Generate(request.version) /\ UNCHANGED manifests
  /\ UNCHANGED << run, shown, acked, lock, worker, sweep, client, expired, used >>
----------------------------------------------------------------------------
(* Clarification deadlines                                                 *)

DeadlinePasses ==
  /\ run.state = "CLARIFYING" /\ ~expired
  /\ expired' = TRUE
  /\ UNCHANGED << database, processes, used >>

\* Mutant of SweepSelect: the comparison with now() is the wrong way round.
SweepSelectUnexpired ==
  /\ sweep = 0 /\ run.state = "CLARIFYING" /\ ~expired
  /\ sweep' = run.stateVersion
  /\ UNCHANGED << database, late, lock, worker, client, expired, used >>

\* expireClarifications: the select, then one commit per row.
SweepSelect ==
  /\ sweep = 0 /\ run.state = "CLARIFYING" /\ expired
  /\ sweep' = run.stateVersion
  /\ UNCHANGED << database, late, lock, worker, client, expired, used >>

SweepCommit ==
  /\ sweep # 0
  /\ run' = IF MayTransition(sweep, "CANCELLED", run) THEN Committed("CANCELLED", run) ELSE run
  /\ sweep' = 0
  /\ UNCHANGED << manifests, artifacts, shown, acked, late, lock, worker, client, expired, used >>
----------------------------------------------------------------------------
(* Requests of the users: read, then commit                                *)

NoRequest == [op |-> "idle", run |-> NewRun, key |-> None, answers |-> None, version |-> 0]
Done(c)   == client' = [client EXCEPT ![c] = NoRequest]
ReadBy(c) == client[c].run
Begin(c, op) == client' = [client EXCEPT ![c] = [NoRequest EXCEPT !.op = op, !.run = run]]

cancelRun(c) ==
  /\ client[c].op = "idle" /\ ~isTerminalWorkflowState(run.state)
  /\ Begin(c, "cancel")
  /\ UNCHANGED << database, late, lock, worker, sweep, expired, used >>

\* cancelRun, and clarifyRun when it read an expired question.
CommitCancel(c) ==
  /\ client[c].op = "cancel"
  /\ run' = IF MayTransition(ReadBy(c).stateVersion, "CANCELLED", run)
            THEN Committed("CANCELLED", run) ELSE run
  /\ Done(c)
  /\ UNCHANGED << manifests, artifacts, shown, acked, late, lock, worker, sweep, expired, used >>

confirmRun(c, version) ==
  /\ client[c].op = "idle"
  /\ ~(run.manifestConfirmedVersion = version /\ run.manifestVersion = version)
  /\ client' = [client EXCEPT ![c] =
       [NoRequest EXCEPT !.op = "confirm", !.run = run, !.version = version]]
  /\ UNCHANGED << database, late, lock, worker, sweep, expired, used >>

CommitConfirm(c) ==
  /\ client[c].op = "confirm"
  /\ LET version   == client[c].version
         candidate == [run EXCEPT !.manifestConfirmedVersion = version]
     IN  run' = IF /\ run.state = "MANIFEST_VALIDATING"
                   /\ run.manifestVersion = version
                   /\ run.manifestValidatedVersion = version
                   /\ MayTransition(ReadBy(c).stateVersion, "IAC_GENERATING", candidate)
                THEN Committed("IAC_GENERATING", candidate) ELSE run
  /\ Done(c)
  /\ UNCHANGED << manifests, artifacts, shown, acked, late, lock, worker, sweep, expired, used >>

\* Mutant of reviseRun: a run whose manifest is confirmed accepts a revision.
reviseRunConfirmed(c) ==
  /\ client[c].op = "idle" /\ used.revisions < MaxRevisions
  /\ \/ run.state = "IAC_GENERATING"
     \/ run.state \in {"MANIFEST_CREATING", "MANIFEST_VALIDATING"} /\ ~run.agentTurnPending
  /\ Begin(c, "revise")
  /\ UNCHANGED << database, late, lock, worker, sweep, expired, used >>

reviseRun(c) ==
  /\ client[c].op = "idle" /\ used.revisions < MaxRevisions
  /\ run.state \in {"MANIFEST_CREATING", "MANIFEST_VALIDATING"} /\ ~run.agentTurnPending
  /\ Begin(c, "revise")
  /\ UNCHANGED << database, late, lock, worker, sweep, expired, used >>

\* The closure decides from the row it READ whether the state changes.
CommitRevise(c) ==
  /\ client[c].op = "revise"
  /\ LET candidate == [run EXCEPT !.agentTurnPending = TRUE,
                                  !.manifestConfirmedVersion = 0,
                                  !.manifestValidatedVersion = 0,
                                  !.manifestValidationAttempts = 0]
         version   == ReadBy(c).stateVersion
         changes   == ReadBy(c).state = "MANIFEST_VALIDATING"
         accepted  == IF changes THEN MayTransition(version, "MANIFEST_CREATING", candidate)
                                 ELSE MayTouch(version)
     IN  /\ run' = IF ~accepted THEN run
                   ELSE Committed(IF changes THEN "MANIFEST_CREATING" ELSE run.state, candidate)
         /\ used' = IF accepted THEN [used EXCEPT !.revisions = @ + 1, !.invalid = 0] ELSE used
  /\ Done(c)
  /\ UNCHANGED << manifests, artifacts, shown, acked, late, lock, worker, sweep, expired >>

\* The entry of the history that carries an idempotency key.
Entries(row, key) == { i \in DOMAIN row.answersHistory : row.answersHistory[i].key = key }
Replays(row, key, answers) ==
  \E i \in Entries(row, key) : row.answersHistory[i].answers = answers

\* Mutant of clarifyRun: the history is not searched for the key.
clarifyRunAlways(c, key, answers) ==
  /\ client[c].op = "idle"
  /\ run.state = "CLARIFYING" /\ run.currentQuestion # 0
  /\ client' = [client EXCEPT ![c] =
       [NoRequest EXCEPT !.op = IF expired THEN "cancel" ELSE "clarify",
                         !.run = run, !.key = key, !.answers = answers]]
  /\ UNCHANGED << database, late, lock, worker, sweep, expired, used >>

\* clarifyRun up to its commit: a replay is answered from the history, an
\* expired question is cancelled, anything else waits for the row lock.
clarifyRun(c, key, answers) ==
  /\ client[c].op = "idle"
  /\ IF Entries(run, key) # {}
     THEN /\ Replays(run, key, answers)
          /\ acked' = acked \cup {[key |-> key, answers |-> answers]}
          /\ UNCHANGED client
     ELSE /\ run.state = "CLARIFYING" /\ run.currentQuestion # 0
          /\ client' = [client EXCEPT ![c] =
               [NoRequest EXCEPT !.op = IF expired THEN "cancel" ELSE "clarify",
                                 !.run = run, !.key = key, !.answers = answers]]
          /\ UNCHANGED acked
  /\ UNCHANGED << run, manifests, artifacts, shown, late, lock, worker, sweep, expired, used >>

CommitClarify(c) ==
  /\ client[c].op = "clarify"
  /\ LET key       == client[c].key
         answers   == client[c].answers
         entry     == [question |-> run.currentQuestion, key |-> key, answers |-> answers]
         candidate == [run EXCEPT !.currentQuestion = 0,
                                  !.answersHistory = Append(@, entry),
                                  !.agentTurnPending = TRUE]
     IN  IF /\ run.state = "CLARIFYING" /\ ~expired
            /\ MayTransition(ReadBy(c).stateVersion, "MANIFEST_CREATING", candidate)
         THEN /\ run' = Committed("MANIFEST_CREATING", candidate)
              /\ acked' = acked \cup {[key |-> key, answers |-> answers]}
              /\ Done(c)
         ELSE /\ client' = [client EXCEPT ![c].op = "reread", ![c].run = NewRun]
              /\ UNCHANGED << run, acked >>
  /\ UNCHANGED << manifests, artifacts, shown, late, lock, worker, sweep, expired, used >>

\* A conflict may mean that a concurrent retry of the same answer committed.
RecognizeReplay(c) ==
  /\ client[c].op = "reread"
  /\ acked' = IF Replays(run, client[c].key, client[c].answers)
              THEN acked \cup {[key |-> client[c].key, answers |-> client[c].answers]}
              ELSE acked
  /\ Done(c)
  /\ UNCHANGED << run, manifests, artifacts, shown, late, lock, worker, sweep, expired, used >>

\* The caller has lost its role in the workspace since the run was read, or
\* the transaction is rolled back: the request ends with nothing written.
RequestFails(c) ==
  /\ client[c].op # "idle"
  /\ Done(c)
  /\ UNCHANGED << database, late, lock, worker, sweep, expired, used >>
----------------------------------------------------------------------------
Init ==
  /\ run = NewRun /\ expired = FALSE
  /\ manifests = << >> /\ artifacts = {} /\ shown = {}
  /\ late = {} /\ lock = None /\ sweep = 0 /\ acked = {}
  /\ worker = [w \in Workers |-> Resting("idle")]
  /\ client = [c \in Clients |-> NoRequest]
  /\ used = [asks |-> 0, says |-> 0, revisions |-> 0, faults |-> 0, invalid |-> 0]

\* What a live worker does by itself.
WorkerStep(w) ==
  \/ SelectPending(w) \/ TryLock(w) \/ ReadRun(w)
  \/ StartPolicyLoad(w) \/ (\E mode \in PolicyModes : LoadPolicy(w, mode)) \/ LoadCloudContext(w)
  \/ LinkAgentSession(w) \/ AgentAsks(w) \/ AgentSays(w)
  \/ (\E draft \in Drafts : AgentDrafts(w, draft)) \/ RejectDraft(w) \/ StoreDraft(w)
  \/ CommitManifest(w)
  \/ StartGeneration(w) \/ GenerateIac(w) \/ ReportValidation(w) \/ CommitPlan(w)
  \/ StepFails(w) \/ Recheck(w) \/ FailRun(w) \/ ExpireInPass(w) \/ Unlock(w)

ClientStep(c) ==
  \/ cancelRun(c) \/ CommitCancel(c)
  \/ (\E version \in DOMAIN manifests : confirmRun(c, version)) \/ CommitConfirm(c)
  \/ reviseRun(c) \/ CommitRevise(c)
  \/ (\E key \in Keys, answers \in Answers : clarifyRun(c, key, answers))
  \/ CommitClarify(c) \/ RecognizeReplay(c) \/ RequestFails(c)

Sweeper == SweepSelect \/ SweepCommit

Next ==
  \/ \E w \in Workers : WorkerStep(w) \/ Timeout(w) \/ Crash(w) \/ LoseLock(w)
  \/ \E c \in Clients : ClientStep(c)
  \/ \E request \in late : LateRequest(request)
  \/ DeadlinePasses
  \/ Sweeper

Spec == Init /\ [][Next]_vars

\* setInterval keeps polling, every call has a timeout, and time passes.
\* Nothing is assumed of the users, of late requests or of faults.
Fairness ==
  /\ \A w \in Workers : WF_vars(WorkerStep(w))
  /\ WF_vars(Sweeper)
  /\ WF_vars(DeadlinePasses)

FairSpec == Spec /\ Fairness
----------------------------------------------------------------------------
(* Properties                                                              *)

AnswerEntry == [question : Nat, key : Keys, answers : Answers]

Row ==
  [ state                      : WORKFLOW_STATES,
    stateVersion               : Nat,
    policyRequirements         : {"none"} \cup PolicyModes,
    cloudContext               : BOOLEAN,
    agentSession               : BOOLEAN,
    agentTurnPending           : BOOLEAN,
    currentQuestion            : Nat,
    answersHistory             : Seq(AnswerEntry),
    manifestValidationAttempts : Nat,
    manifestVersion            : Nat,
    manifestValidatedVersion   : Nat,
    manifestConfirmedVersion   : Nat,
    iacArtifactId              : Nat ]

WorkerPoints ==
  Working \cup {"idle", "lock", "read", "recheck", "fail", "expire", "unlock"}

WorkerLocal  == [pc : WorkerPoints, run : Row, draft : Drafts \cup {None}, version : Nat]
Requests     == {"idle", "cancel", "confirm", "revise", "clarify", "reread"}
RequestLocal == [op : Requests, run : Row, key : Keys \cup {None},
                 answers : Answers \cup {None}, version : Nat]
ManifestRow  == [key : Nat, draft : Drafts]
LateRequests == [kind : {"manifest"}, key : Nat, draft : Drafts]
                  \cup [kind : {"iac"}, version : Nat]

\* A worker that has a draft to store or to commit holds one.
WorkerOK ==
  /\ worker \in [Workers -> WorkerLocal]
  /\ \A w \in Workers : worker[w].pc \in {"store", "ready"} => worker[w].draft \in Drafts

\* A request that carries answers holds them with their key.
ClientOK ==
  /\ client \in [Clients -> RequestLocal]
  /\ \A c \in Clients : client[c].op \in {"clarify", "reread"}
                          => client[c].key \in Keys /\ client[c].answers \in Answers

\* The type of every variable: the columns of the row (runs.service.ts:16-29),
\* the two stores, and the control points between the awaits of each process.
TypeOK ==
  /\ run \in Row
  /\ expired \in BOOLEAN
  /\ manifests \in Seq(ManifestRow)
  /\ artifacts \subseteq Nat
  /\ shown \subseteq [version : Nat, draft : Drafts]
  /\ late \subseteq LateRequests
  /\ lock \in Workers \cup {None}
  /\ WorkerOK
  /\ sweep \in Nat
  /\ ClientOK
  /\ acked \subseteq [key : Keys, answers : Answers]
  /\ used \in [asks : Nat, says : Nat, revisions : Nat, faults : Nat, invalid : Nat]

\* A row that some handler still holds is the current row whenever its version
\* is: the version comparison of mutate is enough to rule out every write that
\* was computed from anything but the current row (optimistic locking).
Fresh(row) ==
  /\ row.stateVersion <= run.stateVersion
  /\ row.stateVersion = run.stateVersion => row = run

Holding == Working \cup {"recheck", "fail", "expire"}

FreshSnapshots ==
  /\ \A w \in Workers : worker[w].pc \in Holding => Fresh(worker[w].run)
  /\ \A c \in Clients : client[c].op \in {"cancel", "confirm", "revise", "clarify"}
                          => Fresh(client[c].run)

\* What ManifestReadyEvent showed the users under a version is what the
\* manifest store holds under it, although crashed, duplicated and late
\* createManifest calls share one key and may carry different drafts.
ShownIsStored ==
  \A e \in shown : e.version \in DOMAIN manifests /\ manifests[e.version].draft = e.draft

\* A retried createManifest never adds a second version for the same turn.
OneManifestPerTurn ==
  \A u, v \in DOMAIN manifests : manifests[u].key = manifests[v].key => u = v

\* A run has a plan only with an artifact of the active version, which was
\* validated, shown to the users as it is stored, and confirmed by one of them.
PlanHasConsent ==
  run.state = "PLAN_CREATING" =>
    /\ assertConfirmedManifest(run)
    /\ run.iacArtifactId = run.manifestVersion
    /\ run.iacArtifactId \in artifacts
    /\ [version |-> run.manifestVersion,
        draft   |-> manifests[run.manifestVersion].draft] \in shown

\* An acknowledged clarification is in the history with the answers that were
\* acknowledged; no key is recorded twice and no question answered twice.
AnswersKept ==
  /\ \A a \in acked : Replays(run, a.key, a.answers)
  /\ \A i, j \in DOMAIN run.answersHistory :
       i < j => /\ run.answersHistory[i].key # run.answersHistory[j].key
                /\ run.answersHistory[i].question < run.answersHistory[j].question

\* Between two revisions a run records at most three invalid drafts and does not
\* outlive the third, however they are spread over turns, questions and workers
\* whose lock was lost: no commit of another handler and no stale worker loses a
\* count (dispatchAgent adds 1 to the counter it has read).  A revision the users
\* ask for (reviseRun) starts the count again.
ThirdStrikeFails ==
  /\ run.manifestValidationAttempts = used.invalid
  /\ used.invalid <= MaxValidationAttempts
  /\ used.invalid = MaxValidationAttempts => run.state = "FAILED"

\* Nothing moves or edits a run that has failed or was cancelled, whatever
\* results, retries or requests for it are still under way.
TerminalIsFinal == [][isTerminalWorkflowState(run.state) => UNCHANGED run]_run

\* A run the workers must advance is advanced until it ends or waits for a
\* user: no closed gate, stale version or fault leaves it pending for ever.
PendingServed == Pending(run) ~> ~Pending(run)

\* A question is answered, expires or is cancelled; it does not stay open.
QuestionsResolved == run.state = "CLARIFYING" ~> run.state # "CLARIFYING"

\* The contract of the run, through the drafts the versions stand for.
DraftOf(version) == IF version = 0 THEN None ELSE manifests[version].draft

ShownUnder(version) ==
  IF \E e \in shown : e.version = version
  THEN (CHOOSE e \in shown : e.version = version).draft ELSE None

Phase ==
  CASE run.state \in {"RECEIVED", "POLICY_LOADED", "CLOUD_CONTEXT_LOADED",
                      "MANIFEST_CREATING"} -> "planning"
    [] run.state = "CLARIFYING"            -> "asking"
    [] run.state = "MANIFEST_VALIDATING"   -> "review"
    [] run.state = "IAC_GENERATING"        -> "building"
    [] run.state = "PLAN_CREATING"         -> "built"
    [] OTHER                               -> "closed"

Contract == INSTANCE RunContract WITH
  phase     <- Phase,
  presented <- ShownUnder(run.manifestVersion),
  consent   <- DraftOf(run.manifestConfirmedVersion),
  product   <- DraftOf(run.iacArtifactId)

\* The detailed run implements the contract: every step of a worker, sweeper,
\* request or store is a step of the contract or leaves it unchanged.
ImplementsContract == Contract!ContractSpec
============================================================================
