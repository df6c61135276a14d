------------------------- MODULE RunLifecycleProofs -------------------------
(***************************************************************************)
(* Proofs about RunLifecycle, for every number of workers, requests,       *)
(* drafts, keys and answers and for every value of the bounds: types, the  *)
(* optimistic locking, terminal runs, and that what the users of a run     *)
(* saw, what the manifest store holds and what was generated agree.        *)
(***************************************************************************)
EXTENDS RunLifecycle, TLAPS

----------------------------------------------------------------------------
(* What a step does to the row and to the rows that are held               *)

\* A step leaves the row alone, or writes it, one version later, while it is
\* not in a terminal state.
RunAdvances ==
  \/ run' = run
  \/ /\ run'.stateVersion = run.stateVersion + 1
     /\ ~isTerminalWorkflowState(run.state)

\* A step of worker w leaves the other workers alone, and what w holds after
\* it is the current row or the row it already held.
Moved(w) ==
  /\ \A v \in Workers \ {w} : worker'[v] = worker[v]
  /\ worker'[w].pc \in Holding =>
       \/ worker'[w].run = run'
       \/ worker[w].pc \in Holding /\ worker'[w].run = worker[w].run

\* The same for a request, which never keeps a row over its commit.
Asking == {"cancel", "confirm", "revise", "clarify"}
Asked(c) ==
  /\ \A d \in Clients \ {c} : client'[d] = client[d]
  /\ client'[c].op \in Asking => client'[c].run = run'

\* The table has no way out of a terminal state, so neither form of mutate
\* accepts a write to a terminal run.
LEMMA GatesClosed ==
  ASSUME NEW version, NEW to, NEW candidate,
         MayTransition(version, to, candidate) \/ MayTouch(version)
  PROVE  ~isTerminalWorkflowState(run.state)
  <1>1. CASE MayTransition(version, to, candidate)
    <2>1. PICK t \in ALLOWED_TRANSITIONS(run.state) : t.to = to
      BY <1>1 DEF MayTransition, assertTransition
    <2>2. isTerminalWorkflowState(run.state) => ALLOWED_TRANSITIONS(run.state) = {}
      BY DEF ALLOWED_TRANSITIONS, ForwardTransitions, isTerminalWorkflowState,
             TERMINAL_WORKFLOW_STATES
    <2>3. QED BY <2>1, <2>2
  <1>2. CASE MayTouch(version)
    BY <1>2 DEF MayTouch
  <1>3. QED BY <1>1, <1>2
----------------------------------------------------------------------------
(* Types of the building blocks                                            *)

\* A new row is a row.
LEMMA NewRunType == NewRun \in Row
  BY DEF NewRun, Row, WORKFLOW_STATES, MaxValidationAttempts

\* What mutate writes is a row, one version ahead of the current one.
LEMMA CommittedType ==
  ASSUME run \in Row, NEW to \in WORKFLOW_STATES, NEW candidate \in Row
  PROVE  /\ Committed(to, candidate) \in Row
         /\ Committed(to, candidate).stateVersion = run.stateVersion + 1
         /\ Committed(to, candidate).state = to
  <1>1. run.stateVersion + 1 \in Nat
    BY SMTT(30) DEF Row
  <1>2. /\ Committed(to, candidate).stateVersion = run.stateVersion + 1
        /\ Committed(to, candidate).state = to
    BY DEF Committed, Row
  <1>3. ASSUME NEW n \in Nat
        PROVE  [candidate EXCEPT !.state = to, !.stateVersion = n] \in Row
    BY DEF Row
  <1>4. QED BY <1>1, <1>2, <1>3 DEF Committed

\* The local state of a worker that holds nothing.
LEMMA RestingType ==
  ASSUME NEW pc \in WorkerPoints
  PROVE  Resting(pc) \in WorkerLocal /\ Resting(pc).pc = pc
  BY NewRunType DEF Resting, WorkerLocal

\* Replacing the local state of one worker keeps the type of `worker`.
LEMMA WorkerUpdate ==
  ASSUME WorkerOK, NEW w \in Workers, NEW l \in WorkerLocal,
         l.pc \in {"store", "ready"} => l.draft \in Drafts,
         worker' = [worker EXCEPT ![w] = l]
  PROVE  WorkerOK'
  BY DEF WorkerOK

\* Replacing the local state of one request keeps the type of `client`.
LEMMA ClientUpdate ==
  ASSUME ClientOK, NEW c \in Clients, NEW l \in RequestLocal,
         l.op \in {"clarify", "reread"} => l.key \in Keys /\ l.answers \in Answers,
         client' = [client EXCEPT ![c] = l]
  PROVE  ClientOK'
  BY DEF ClientOK

\* A worker that drops what it read and goes to another control point.
LEMMA GotoType ==
  ASSUME WorkerOK, NEW w \in Workers, NEW pc \in WorkerPoints \ Holding, Goto(w, pc)
  PROVE  WorkerOK' /\ Moved(w)
  <1>1. Resting(pc) \in WorkerLocal /\ Resting(pc).pc = pc /\ pc \notin {"store", "ready"}
    BY RestingType DEF Holding, Working
  <1>2. worker' = [worker EXCEPT ![w] = Resting(pc)]
    BY DEF Goto
  <1>3. WorkerOK'
    BY <1>1, <1>2, WorkerUpdate
  <1>4. Moved(w)
    BY <1>1, <1>2 DEF Moved, WorkerOK
  <1>5. QED BY <1>3, <1>4

\* A worker that keeps the row it read while it waits for an answer.
LEMMA AwaitType ==
  ASSUME WorkerOK, NEW w \in Workers, NEW pc \in WorkerPoints,
         NEW draft \in Drafts \cup {None}, NEW version \in Nat,
         pc \in {"store", "ready"} => draft \in Drafts,
         worker[w].pc \in Holding, Await(w, pc, draft, version)
  PROVE  WorkerOK' /\ Moved(w)
  <1> DEFINE l == [pc |-> pc, run |-> Read(w), draft |-> draft, version |-> version]
  <1>1. Read(w) \in Row
    BY DEF Read, WorkerOK, WorkerLocal
  <1>2. l \in WorkerLocal /\ l.pc = pc /\ l.draft = draft
    BY <1>1 DEF WorkerLocal
  <1>3. worker' = [worker EXCEPT ![w] = l]
    BY DEF Await
  <1>4. l.run = worker[w].run
    BY DEF Read
  <1> HIDE DEF l
  <1>5. WorkerOK'
    BY <1>2, <1>3, WorkerUpdate
  <1>6. Moved(w)
    BY <1>3, <1>4 DEF Moved, WorkerOK
  <1>7. QED BY <1>5, <1>6

\* A commit of processRun after which the pass goes on, or ends on a conflict.
LEMMA CommitAtType ==
  ASSUME run \in Row, WorkerOK, NEW w \in Workers, NEW to \in WORKFLOW_STATES,
         NEW candidate \in Row, NEW pc \in WorkerPoints \ {"store", "ready"},
         CommitAt(w, to, candidate, pc)
  PROVE  run' \in Row /\ WorkerOK' /\ RunAdvances /\ Moved(w)
  <1>1. CASE MayTransition(Read(w).stateVersion, to, candidate)
    <2> DEFINE l == [Resting(pc) EXCEPT !.run = Committed(to, candidate)]
    <2>1. l \in WorkerLocal /\ l.pc = pc /\ l.run = Committed(to, candidate)
      BY RestingType, CommittedType DEF WorkerLocal
    <2>2. run' = Committed(to, candidate) /\ worker' = [worker EXCEPT ![w] = l]
      BY <1>1 DEF CommitAt
    <2> HIDE DEF l
    <2>3. run' \in Row /\ WorkerOK'
      BY <2>1, <2>2, WorkerUpdate, CommittedType
    <2>4. RunAdvances
      BY <1>1, <2>2, CommittedType, GatesClosed DEF RunAdvances
    <2>5. Moved(w)
      BY <2>1, <2>2 DEF Moved, WorkerOK
    <2>6. QED BY <2>3, <2>4, <2>5
  <1>2. CASE ~MayTransition(Read(w).stateVersion, to, candidate)
    <2>1. Goto(w, "unlock") /\ run' = run
      BY <1>2 DEF CommitAt
    <2>2. QED BY <2>1, GotoType DEF WorkerPoints, Holding, Working, RunAdvances
  <1>3. QED BY <1>1, <1>2

\* The last commit of a pass, accepted or refused.
LEMMA CommitLastType ==
  ASSUME run \in Row, WorkerOK, NEW w \in Workers, NEW to \in WORKFLOW_STATES,
         NEW candidate \in Row, CommitLast(w, to, candidate)
  PROVE  run' \in Row /\ WorkerOK' /\ RunAdvances /\ Moved(w)
  <1>1. run' \in Row
    BY CommittedType DEF CommitLast
  <1>2. WorkerOK' /\ Moved(w)
    BY GotoType DEF CommitLast, WorkerPoints, Holding, Working
  <1>3. RunAdvances
    BY CommittedType, GatesClosed DEF CommitLast, RunAdvances
  <1>4. QED BY <1>1, <1>2, <1>3

\* A commit that keeps the state (session link, invalid draft, progress event).
LEMMA TouchAtType ==
  ASSUME run \in Row, WorkerOK, NEW w \in Workers, NEW candidate \in Row,
         NEW pc \in WorkerPoints \ {"store", "ready"}, TouchAt(w, candidate, pc)
  PROVE  run' \in Row /\ WorkerOK' /\ RunAdvances /\ Moved(w)
  <1>0. run.state \in WORKFLOW_STATES
    BY DEF Row
  <1>1. CASE MayTouch(Read(w).stateVersion)
    <2> DEFINE l == [worker[w] EXCEPT !.pc = pc, !.run = Committed(run.state, candidate),
                                      !.draft = None]
    <2>1. worker[w] \in WorkerLocal /\ Committed(run.state, candidate) \in Row
      BY <1>0, CommittedType DEF WorkerOK
    <2>2. l \in WorkerLocal /\ l.pc = pc /\ l.run = Committed(run.state, candidate)
      BY <2>1 DEF WorkerLocal
    <2>3. run' = Committed(run.state, candidate) /\ worker' = [worker EXCEPT ![w] = l]
      BY <1>1 DEF TouchAt
    <2> HIDE DEF l
    <2>4. WorkerOK'
      BY <2>2, <2>3, WorkerUpdate
    <2>5. RunAdvances
      BY <1>0, <1>1, <2>3, CommittedType, GatesClosed DEF RunAdvances
    <2>6. Moved(w)
      BY <2>2, <2>3 DEF Moved, WorkerOK
    <2>7. QED BY <2>1, <2>3, <2>4, <2>5, <2>6
  <1>2. CASE ~MayTouch(Read(w).stateVersion)
    <2>1. Goto(w, "unlock") /\ run' = run
      BY <1>2 DEF TouchAt
    <2>2. QED BY <2>1, GotoType DEF WorkerPoints, Holding, Working, RunAdvances
  <1>3. QED BY <1>1, <1>2

\* The manifest store answers with a version, or with 0 for a conflict.
LEMMA StoreType ==
  ASSUME manifests \in Seq(ManifestRow), NEW key \in Nat, NEW draft \in Drafts
  PROVE  /\ StoreResult(key, draft) \in Nat
         /\ StoreManifestVersionWithKey(key, draft) => manifests' \in Seq(ManifestRow)
  <1>1. StoreResult(key, draft) \in Nat
    <2>1. CASE StoredUnder(key) = {}
      BY <2>1 DEF StoreResult
    <2>2. CASE StoredUnder(key) # {}
      <3>1. (CHOOSE v \in StoredUnder(key) : TRUE) \in StoredUnder(key)
        BY <2>2
      <3>2. StoredUnder(key) \subseteq Nat
        BY DEF StoredUnder
      <3>3. QED BY <2>2, <3>1, <3>2 DEF StoreResult
    <2>3. QED BY <2>1, <2>2
  <1>2. [key |-> key, draft |-> draft] \in ManifestRow
    BY DEF ManifestRow
  <1>3. QED BY <1>1, <1>2 DEF StoreManifestVersionWithKey

\* The requests a worker leaves behind when it stops waiting for them.
LEMMA OutstandingType ==
  ASSUME TypeOK, NEW w \in Workers
  PROVE  Outstanding(w) \subseteq LateRequests
  <1>1. worker[w] \in WorkerLocal /\ (At(w, "store") => worker[w].draft \in Drafts)
    BY DEF TypeOK, WorkerOK, At
  <1>2. Read(w).stateVersion \in Nat /\ Read(w).manifestVersion \in Nat
    BY <1>1 DEF Read, WorkerLocal, Row
  <1>3. QED BY <1>1, <1>2 DEF Outstanding, LateRequests

\* The artifact store adds the version it was asked for, or nothing.
LEMMA GenerateType ==
  ASSUME artifacts \subseteq Nat, NEW version \in Nat, Generate(version)
  PROVE  artifacts' \subseteq Nat
  BY DEF Generate
----------------------------------------------------------------------------
(* Every step keeps the types                                              *)

\* Every step of a worker, its faults included, keeps the types, advances the
\* row or leaves it alone, and holds only rows the worker has read or written.
LEMMA WorkerStepType ==
  ASSUME TypeOK, NEW w \in Workers, WorkerStep(w) \/ Timeout(w) \/ Crash(w) \/ LoseLock(w)
  PROVE  TypeOK' /\ RunAdvances /\ Moved(w) /\ client' = client
  <1> USE DEF database, WorkerPoints, Working, Holding
  <1>1. /\ run \in Row /\ WorkerOK /\ worker[w] \in WorkerLocal /\ Read(w) \in Row
        /\ Read(w).stateVersion \in Nat /\ Read(w).manifestVersion \in Nat
        /\ worker[w].version \in Nat
    BY DEF TypeOK, WorkerOK, WorkerLocal, Read, Row
  <1>2. None \in Drafts \cup {None}
    OBVIOUS
  <1>3. {"POLICY_LOADED", "CLOUD_CONTEXT_LOADED", "MANIFEST_CREATING", "CLARIFYING", "FAILED",
         "MANIFEST_VALIDATING", "PLAN_CREATING", "CANCELLED"} \subseteq WORKFLOW_STATES
    BY DEF WORKFLOW_STATES
  <1>4. CASE SelectPending(w)
    BY <1>1, <1>4, GotoType DEF SelectPending, TypeOK, ClientOK, RunAdvances
  <1>5. CASE TryLock(w)
    <2>1. WorkerOK' /\ Moved(w)
      BY <1>1, <1>5, GotoType DEF TryLock
    <2>2. QED BY <1>5, <2>1 DEF TryLock, TypeOK, ClientOK, RunAdvances
  <1>6. CASE ReadRun(w)
    <2> DEFINE l == IF Dispatch(run) = "unlock" THEN Resting("unlock")
                    ELSE [Resting(Dispatch(run)) EXCEPT !.run = run]
    <2>1. Dispatch(run) \in WorkerPoints \ {"store", "ready"}
      BY DEF Dispatch
    <2>2. Resting("unlock") \in WorkerLocal /\ Resting(Dispatch(run)) \in WorkerLocal
          /\ Resting("unlock").pc = "unlock" /\ Resting(Dispatch(run)).pc = Dispatch(run)
      BY <2>1, RestingType
    <2>3. l \in WorkerLocal /\ l.pc \notin {"store", "ready"}
          /\ (l.pc \in Holding => l.run = run)
      BY <1>1, <2>1, <2>2 DEF WorkerLocal
    <2>4. worker' = [worker EXCEPT ![w] = l]
      BY <1>6 DEF ReadRun
    <2> HIDE DEF l
    <2>5. WorkerOK' /\ Moved(w)
      BY <1>1, <1>6, <2>3, <2>4, WorkerUpdate DEF ReadRun, Moved, WorkerOK
    <2>6. QED BY <1>6, <2>5 DEF ReadRun, TypeOK, ClientOK, RunAdvances
  <1>7. CASE StartPolicyLoad(w)
    <2>1. run' \in Row /\ WorkerOK' /\ RunAdvances /\ Moved(w)
      BY <1>1, <1>3, <1>7, CommitAtType DEF StartPolicyLoad
    <2>2. QED BY <1>7, <2>1 DEF StartPolicyLoad, TypeOK, ClientOK
  <1>8. ASSUME NEW mode \in PolicyModes, LoadPolicy(w, mode) PROVE TypeOK' /\ RunAdvances /\ Moved(w) /\ client' = client
    <2>1. [run EXCEPT !.policyRequirements = mode] \in Row
      BY <1>1 DEF Row
    <2>2. run' \in Row /\ WorkerOK' /\ RunAdvances /\ Moved(w)
      BY <1>1, <1>3, <1>8, <2>1, CommitAtType DEF LoadPolicy
    <2>3. QED BY <1>8, <2>2 DEF LoadPolicy, TypeOK, ClientOK
  <1>9. CASE LoadCloudContext(w)
    <2>1. [run EXCEPT !.cloudContext = TRUE] \in Row
      BY <1>1 DEF Row
    <2>2. run' \in Row /\ WorkerOK' /\ RunAdvances /\ Moved(w)
      BY <1>1, <1>3, <1>9, <2>1, CommitAtType DEF LoadCloudContext
    <2>3. QED BY <1>9, <2>2 DEF LoadCloudContext, TypeOK, ClientOK
  <1>10. CASE LinkAgentSession(w)
    <2>1. [run EXCEPT !.agentSession = TRUE] \in Row
      BY <1>1 DEF Row
    <2>2. run' \in Row /\ WorkerOK' /\ RunAdvances /\ Moved(w)
      BY <1>1, <1>10, <2>1, TouchAtType DEF LinkAgentSession
    <2>3. QED BY <1>10, <2>2 DEF LinkAgentSession, TypeOK, ClientOK
  <1>11. CASE AgentAsks(w)
    <2> DEFINE candidate == [run EXCEPT !.currentQuestion = used.asks + 1,
                                        !.agentTurnPending = FALSE]
    <2>1. used.asks + 1 \in Nat
      BY DEF TypeOK
    <2>2. candidate \in Row
      BY <1>1, <2>1 DEF Row
    <2>3. CommitLast(w, "CLARIFYING", candidate)
      BY <1>11 DEF AgentAsks
    <2>4. expired' \in BOOLEAN /\ used' \in [asks : Nat, says : Nat, revisions : Nat, faults : Nat, invalid : Nat]
      BY <1>11, <2>1 DEF AgentAsks, TypeOK
    <2> HIDE DEF candidate
    <2>5. run' \in Row /\ WorkerOK' /\ RunAdvances /\ Moved(w)
      BY <1>1, <1>3, <2>2, <2>3, CommitLastType
    <2>6. QED BY <1>11, <2>4, <2>5 DEF AgentAsks, TypeOK, ClientOK
  <1>12. CASE AgentSays(w)
    <2>1. [run EXCEPT !.agentTurnPending = FALSE] \in Row /\ run.state \in WORKFLOW_STATES
      BY <1>1 DEF Row
    <2>2. run' \in Row
      BY <1>1, <1>12, <2>1, CommittedType DEF AgentSays
    <2>3. WorkerOK' /\ Moved(w)
      BY <1>1, <1>12, GotoType DEF AgentSays
    <2>4. used' \in [asks : Nat, says : Nat, revisions : Nat, faults : Nat, invalid : Nat]
      BY <1>12 DEF AgentSays, TypeOK
    <2>5. RunAdvances
      BY <1>1, <1>12, <2>1, CommittedType, GatesClosed DEF AgentSays, RunAdvances
    <2>6. QED BY <1>12, <2>2, <2>3, <2>4, <2>5 DEF AgentSays, TypeOK, ClientOK
  <1>13. ASSUME NEW draft \in Drafts, AgentDrafts(w, draft) PROVE TypeOK' /\ RunAdvances /\ Moved(w) /\ client' = client
    <2>1. WorkerOK' /\ Moved(w)
      BY <1>1, <1>13, AwaitType DEF AgentDrafts, InTurn, At
    <2>2. QED BY <1>13, <2>1 DEF AgentDrafts, TypeOK, ClientOK, RunAdvances
  <1>14. CASE RejectDraft(w)
    <2> DEFINE attempts  == Read(w).manifestValidationAttempts + 1
               candidate == [run EXCEPT !.manifestValidationAttempts = attempts]
    <2>1. attempts \in Nat
      BY <1>1, SMTT(30) DEF Row
    <2>2. candidate \in Row
      BY <1>1, <2>1 DEF Row
    <2>3. CommitLast(w, "FAILED", candidate) \/ TouchAt(w, candidate, "agent")
      BY <1>14 DEF RejectDraft
    <2> HIDE DEF candidate
    <2>4. run' \in Row /\ WorkerOK' /\ RunAdvances /\ Moved(w)
      BY <1>1, <1>3, <2>2, <2>3, CommitLastType, TouchAtType
    <2>5. used' \in [asks : Nat, says : Nat, revisions : Nat, faults : Nat, invalid : Nat]
      BY <1>14 DEF RejectDraft, TypeOK
    <2>6. QED BY <1>14, <2>4, <2>5 DEF RejectDraft, TypeOK, ClientOK
  <1>15. CASE StoreDraft(w)
    <2> DEFINE key    == Read(w).stateVersion
               draft  == worker[w].draft
               result == StoreResult(key, draft)
    <2>1. draft \in Drafts /\ key \in Nat
      BY <1>1, <1>15 DEF StoreDraft, At, WorkerOK
    <2>2. result \in Nat /\ manifests' \in Seq(ManifestRow)
      BY <1>15, <2>1, StoreType DEF StoreDraft, TypeOK
    <2>3. Await(w, "recheck", None, 0) \/ Await(w, "ready", draft, result)
      BY <1>15 DEF StoreDraft
    <2> HIDE DEF draft, result
    <2>4. WorkerOK' /\ Moved(w)
      BY <1>1, <1>2, <1>15, <2>1, <2>2, <2>3, AwaitType DEF StoreDraft, At
    <2>5. QED BY <1>15, <2>2, <2>4 DEF StoreDraft, TypeOK, ClientOK, RunAdvances
  <1>16. CASE CommitManifest(w)
    <2> DEFINE version   == worker[w].version
               candidate == [run EXCEPT !.manifestVersion = version,
                                        !.manifestValidatedVersion = version,
                                        !.agentTurnPending = FALSE,
                                        !.manifestConfirmedVersion = 0]
    <2>1. candidate \in Row
      BY <1>1 DEF Row
    <2>2. worker[w].draft \in Drafts
      BY <1>1, <1>16 DEF CommitManifest, At, WorkerOK
    <2>3. CommitLast(w, "MANIFEST_VALIDATING", candidate)
          /\ shown' \subseteq shown \cup {[version |-> version, draft |-> worker[w].draft]}
      BY <1>16 DEF CommitManifest
    <2> HIDE DEF candidate
    <2>4. run' \in Row /\ WorkerOK' /\ RunAdvances /\ Moved(w)
      BY <1>1, <1>3, <2>1, <2>3, CommitLastType
    <2>5. QED BY <1>1, <1>16, <2>2, <2>3, <2>4 DEF CommitManifest, TypeOK, ClientOK
  <1>17. CASE StartGeneration(w)
    <2>1. run' \in Row /\ WorkerOK' /\ RunAdvances /\ Moved(w)
      BY <1>1, <1>17, TouchAtType DEF StartGeneration
    <2>2. QED BY <1>17, <2>1 DEF StartGeneration, TypeOK, ClientOK
  <1>18. CASE GenerateIac(w)
    <2>1. artifacts' \subseteq Nat
      BY <1>1, <1>18, GenerateType DEF GenerateIac, TypeOK
    <2>2. WorkerOK' /\ Moved(w)
      BY <1>1, <1>2, <1>18, AwaitType DEF GenerateIac, At
    <2>3. QED BY <1>18, <2>1, <2>2 DEF GenerateIac, TypeOK, ClientOK, RunAdvances
  <1>19. CASE ReportValidation(w)
    <2>1. run' \in Row /\ WorkerOK' /\ RunAdvances /\ Moved(w)
      BY <1>1, <1>19, TouchAtType DEF ReportValidation
    <2>2. QED BY <1>19, <2>1 DEF ReportValidation, TypeOK, ClientOK
  <1>20. CASE CommitPlan(w)
    <2> DEFINE candidate == [run EXCEPT !.iacArtifactId = worker[w].version]
    <2>1. candidate \in Row
      BY <1>1 DEF Row
    <2>2. \/ Await(w, "recheck", None, 0) /\ run' = run
          \/ CommitLast(w, "PLAN_CREATING", candidate)
      BY <1>20 DEF CommitPlan
    <2> HIDE DEF candidate
    <2>3. run' \in Row /\ WorkerOK' /\ RunAdvances /\ Moved(w)
      BY <1>1, <1>2, <1>3, <1>20, <2>1, <2>2, CommitLastType, AwaitType
         DEF CommitPlan, At, RunAdvances
    <2>4. QED BY <1>20, <2>3 DEF CommitPlan, TypeOK, ClientOK
  <1>21. CASE StepFails(w)
    <2>1. WorkerOK' /\ Moved(w)
      BY <1>1, <1>2, <1>21, AwaitType DEF StepFails
    <2>2. QED BY <1>21, <2>1 DEF StepFails, TypeOK, ClientOK, RunAdvances
  <1>22. CASE Recheck(w)
    <2>1. WorkerOK' /\ Moved(w)
      BY <1>1, <1>2, <1>22, AwaitType, GotoType DEF Recheck, At
    <2>2. QED BY <1>22, <2>1 DEF Recheck, TypeOK, ClientOK, RunAdvances
  <1>23. CASE FailRun(w)
    <2>1. run' \in Row /\ WorkerOK' /\ RunAdvances /\ Moved(w)
      BY <1>1, <1>3, <1>23, CommitLastType DEF FailRun
    <2>2. QED BY <1>23, <2>1 DEF FailRun, TypeOK, ClientOK
  <1>24. CASE ExpireInPass(w)
    <2>1. run' \in Row /\ WorkerOK' /\ RunAdvances /\ Moved(w)
      BY <1>1, <1>3, <1>24, CommitLastType DEF ExpireInPass
    <2>2. QED BY <1>24, <2>1 DEF ExpireInPass, TypeOK, ClientOK
  <1>25. CASE Unlock(w)
    <2>1. WorkerOK' /\ Moved(w)
      BY <1>1, <1>25, GotoType DEF Unlock
    <2>2. QED BY <1>25, <2>1 DEF Unlock, TypeOK, ClientOK, RunAdvances
  <1>26. CASE Timeout(w)
    <2>1. WorkerOK' /\ Moved(w)
      BY <1>1, <1>2, <1>26, AwaitType DEF Timeout
    <2>2. late' \subseteq LateRequests
      BY <1>26, OutstandingType DEF Timeout, TypeOK
    <2>3. QED BY <1>26, <2>1, <2>2 DEF Timeout, TypeOK, ClientOK, RunAdvances
  <1>27. CASE Crash(w)
    <2>1. WorkerOK' /\ Moved(w)
      BY <1>1, <1>27, GotoType DEF Crash
    <2>2. late' \subseteq LateRequests
      BY <1>27, OutstandingType DEF Crash, TypeOK
    <2>3. QED BY <1>27, <2>1, <2>2 DEF Crash, TypeOK, ClientOK, RunAdvances
  <1>28. CASE LoseLock(w)
    BY <1>28 DEF LoseLock, TypeOK, ClientOK, WorkerOK, RunAdvances, Moved
  <1>29. QED
    BY <1>4, <1>5, <1>6, <1>7, <1>8, <1>9, <1>10, <1>11, <1>12, <1>13, <1>14, <1>15, <1>16,
       <1>17, <1>18, <1>19, <1>20, <1>21, <1>22, <1>23, <1>24, <1>25, <1>26, <1>27, <1>28
       DEF WorkerStep

\* Every step of a user's request keeps the types, advances the row or leaves
\* it alone, and holds only the row it has just read.
LEMMA ClientStepType ==
  ASSUME TypeOK, NEW c \in Clients, ClientStep(c)
  PROVE  TypeOK' /\ RunAdvances /\ Asked(c) /\ worker' = worker
  <1> USE DEF database, Requests, Asking
  <1>1. /\ run \in Row /\ ClientOK /\ client[c] \in RequestLocal
        /\ ReadBy(c) \in Row /\ client[c].version \in Nat
        /\ run.state \in WORKFLOW_STATES /\ run.currentQuestion \in Nat
        /\ run.answersHistory \in Seq(AnswerEntry)
    BY DEF TypeOK, ClientOK, RequestLocal, ReadBy, Row
  <1>2. NoRequest \in RequestLocal /\ NoRequest.op = "idle"
    BY NewRunType DEF NoRequest, RequestLocal
  <1>3. Done(c) => ClientOK' /\ Asked(c)
    BY <1>1, <1>2, ClientUpdate DEF Done, Asked, ClientOK
  <1>4. {"CANCELLED", "IAC_GENERATING", "MANIFEST_CREATING"} \subseteq WORKFLOW_STATES
    BY DEF WORKFLOW_STATES
  <1>5. ASSUME NEW op \in {"cancel", "revise"}, Begin(c, op), run' = run
        PROVE  ClientOK' /\ Asked(c)
    <2> DEFINE l == [NoRequest EXCEPT !.op = op, !.run = run]
    <2>1. l \in RequestLocal /\ l.op \notin {"clarify", "reread"} /\ l.run = run
      BY <1>1, <1>2 DEF RequestLocal
    <2>2. client' = [client EXCEPT ![c] = l]
      BY <1>5 DEF Begin
    <2> HIDE DEF l
    <2>3. QED BY <1>1, <1>5, <2>1, <2>2, ClientUpdate DEF Asked, ClientOK
  <1>6. CASE cancelRun(c)
    <2>1. ClientOK' /\ Asked(c)
      BY <1>5, <1>6 DEF cancelRun
    <2>2. QED BY <1>6, <2>1 DEF cancelRun, TypeOK, WorkerOK, RunAdvances
  <1>7. CASE CommitCancel(c)
    <2>1. run' \in Row /\ RunAdvances
      BY <1>1, <1>4, <1>7, CommittedType, GatesClosed DEF CommitCancel, RunAdvances
    <2>2. QED BY <1>3, <1>7, <2>1 DEF CommitCancel, TypeOK, WorkerOK
  <1>8. ASSUME NEW version \in DOMAIN manifests, confirmRun(c, version) PROVE TypeOK' /\ RunAdvances /\ Asked(c) /\ worker' = worker
    <2> DEFINE l == [NoRequest EXCEPT !.op = "confirm", !.run = run, !.version = version]
    <2>0. version \in Nat
      BY DEF TypeOK
    <2>1. l \in RequestLocal /\ l.op = "confirm" /\ l.run = run
      BY <1>1, <1>2, <2>0 DEF RequestLocal
    <2>2. client' = [client EXCEPT ![c] = l]
      BY <1>8 DEF confirmRun
    <2> HIDE DEF l
    <2>3. ClientOK' /\ Asked(c)
      BY <1>1, <1>8, <2>1, <2>2, ClientUpdate DEF confirmRun, Asked, ClientOK
    <2>4. QED BY <1>8, <2>3 DEF confirmRun, TypeOK, WorkerOK, RunAdvances
  <1>9. CASE CommitConfirm(c)
    <2> DEFINE candidate == [run EXCEPT !.manifestConfirmedVersion = client[c].version]
    <2>1. candidate \in Row
      BY <1>1 DEF Row
    <2>2. \/ run' = run
          \/ /\ run' = Committed("IAC_GENERATING", candidate)
             /\ MayTransition(ReadBy(c).stateVersion, "IAC_GENERATING", candidate)
      BY <1>9 DEF CommitConfirm
    <2> HIDE DEF candidate
    <2>3. run' \in Row /\ RunAdvances
      BY <1>1, <1>4, <2>1, <2>2, CommittedType, GatesClosed DEF RunAdvances
    <2>4. QED BY <1>3, <1>9, <2>3 DEF CommitConfirm, TypeOK, WorkerOK
  <1>10. CASE reviseRun(c)
    <2>1. ClientOK' /\ Asked(c)
      BY <1>5, <1>10 DEF reviseRun
    <2>2. QED BY <1>10, <2>1 DEF reviseRun, TypeOK, WorkerOK, RunAdvances
  <1>11. CASE CommitRevise(c)
    <2> DEFINE candidate == [run EXCEPT !.agentTurnPending = TRUE,
                                        !.manifestConfirmedVersion = 0,
                                        !.manifestValidatedVersion = 0,
                                        !.manifestValidationAttempts = 0]
    <2>1. candidate \in Row
      BY <1>1 DEF Row
    <2>2. \/ run' = run
          \/ /\ run' = Committed("MANIFEST_CREATING", candidate)
             /\ MayTransition(ReadBy(c).stateVersion, "MANIFEST_CREATING", candidate)
          \/ run' = Committed(run.state, candidate) /\ MayTouch(ReadBy(c).stateVersion)
      BY <1>11 DEF CommitRevise
    <2>3. used' \in [asks : Nat, says : Nat, revisions : Nat, faults : Nat, invalid : Nat]
      <3> DEFINE more == [used EXCEPT !.revisions = @ + 1]
      <3>1. used \in [asks : Nat, says : Nat, revisions : Nat, faults : Nat, invalid : Nat]
        BY DEF TypeOK
      <3>2. more \in [asks : Nat, says : Nat, revisions : Nat, faults : Nat, invalid : Nat]
        BY <3>1
      <3>3. used' = used \/ used' = [more EXCEPT !.invalid = 0]
        BY <1>11, <3>1 DEF CommitRevise
      <3> HIDE DEF more
      <3>4. QED BY <3>1, <3>2, <3>3
    <2> HIDE DEF candidate
    <2>4. run' \in Row /\ RunAdvances
      BY <1>1, <1>4, <2>1, <2>2, CommittedType, GatesClosed DEF RunAdvances
    <2>5. QED BY <1>3, <1>11, <2>3, <2>4 DEF CommitRevise, TypeOK, WorkerOK
  <1>12. ASSUME NEW key \in Keys, NEW answers \in Answers, clarifyRun(c, key, answers)
         PROVE  TypeOK' /\ RunAdvances /\ Asked(c) /\ worker' = worker
    <2>1. CASE Entries(run, key) # {}
      <3>1. acked' \subseteq [key : Keys, answers : Answers] /\ client' = client
        BY <1>12, <2>1 DEF clarifyRun, TypeOK
      <3>2. QED BY <1>12, <3>1 DEF clarifyRun, TypeOK, WorkerOK, ClientOK, RunAdvances, Asked
    <2>2. CASE Entries(run, key) = {}
      <3> DEFINE l == [NoRequest EXCEPT !.op = IF expired THEN "cancel" ELSE "clarify",
                                        !.run = run, !.key = key, !.answers = answers]
      <3>1. l \in RequestLocal /\ l.key = key /\ l.answers = answers /\ l.run = run
        BY <1>1, <1>2 DEF RequestLocal
      <3>2. client' = [client EXCEPT ![c] = l] /\ acked' = acked
        BY <1>12, <2>2 DEF clarifyRun
      <3> HIDE DEF l
      <3>3. ClientOK' /\ Asked(c)
        BY <1>1, <1>12, <3>1, <3>2, ClientUpdate DEF clarifyRun, Asked, ClientOK
      <3>4. QED BY <1>12, <3>2, <3>3 DEF clarifyRun, TypeOK, WorkerOK, RunAdvances
    <2>3. QED BY <2>1, <2>2
  <1>13. CASE CommitClarify(c)
    <2> DEFINE key       == client[c].key
               answers   == client[c].answers
               entry     == [question |-> run.currentQuestion, key |-> key, answers |-> answers]
               candidate == [run EXCEPT !.currentQuestion = 0,
                                        !.answersHistory = Append(@, entry),
                                        !.agentTurnPending = TRUE]
    <2>1. key \in Keys /\ answers \in Answers
      BY <1>1, <1>13 DEF CommitClarify, ClientOK
    <2>2. entry \in AnswerEntry
      BY <1>1, <2>1 DEF AnswerEntry
    <2>3. Append(run.answersHistory, entry) \in Seq(AnswerEntry)
      BY <1>1, <2>2
    <2>4. candidate \in Row
      BY <1>1, <2>3 DEF Row
    <2>5. CASE /\ Done(c) /\ run' = Committed("MANIFEST_CREATING", candidate)
               /\ MayTransition(ReadBy(c).stateVersion, "MANIFEST_CREATING", candidate)
      <3>1. acked' \subseteq acked \cup {[key |-> key, answers |-> answers]}
        BY <1>13 DEF CommitClarify
      <3>2. acked' \subseteq [key : Keys, answers : Answers]
        BY <2>1, <3>1 DEF TypeOK
      <3> HIDE DEF candidate, entry
      <3>3. run' \in Row /\ RunAdvances
        BY <1>1, <1>4, <2>4, <2>5, CommittedType, GatesClosed DEF RunAdvances
      <3>4. QED BY <1>3, <1>13, <2>5, <3>2, <3>3 DEF CommitClarify, TypeOK, WorkerOK
    <2>6. CASE /\ client' = [client EXCEPT ![c].op = "reread", ![c].run = NewRun]
               /\ run' = run /\ acked' = acked
      <3> DEFINE l == [client[c] EXCEPT !.op = "reread", !.run = NewRun]
      <3>1. l \in RequestLocal /\ l.key = key /\ l.answers = answers /\ l.op = "reread"
        BY <1>1, NewRunType DEF RequestLocal
      <3>2. client' = [client EXCEPT ![c] = l]
        BY <1>1, <2>6 DEF ClientOK, RequestLocal
      <3> HIDE DEF l
      <3>3. ClientOK' /\ Asked(c)
        BY <1>1, <2>1, <3>1, <3>2, ClientUpdate DEF Asked, ClientOK
      <3>4. QED BY <1>13, <2>6, <3>3 DEF CommitClarify, TypeOK, WorkerOK, RunAdvances
    <2>7. QED BY <1>13, <2>5, <2>6 DEF CommitClarify
  <1>14. CASE RecognizeReplay(c)
    <2>1. acked' \subseteq [key : Keys, answers : Answers]
      BY <1>1, <1>14 DEF RecognizeReplay, TypeOK, ClientOK
    <2>2. QED BY <1>3, <1>14, <2>1 DEF RecognizeReplay, TypeOK, WorkerOK, RunAdvances
  <1>15. CASE RequestFails(c)
    BY <1>3, <1>15 DEF RequestFails, TypeOK, WorkerOK, RunAdvances
  <1>16. QED
    BY <1>6, <1>7, <1>8, <1>9, <1>10, <1>11, <1>12, <1>13, <1>14, <1>15 DEF ClientStep

\* A deadline, a sweep or a late request keeps the types, advances the row or
\* leaves it alone, and touches no row that is held.
LEMMA OtherStepType ==
  ASSUME TypeOK,
         \/ \E request \in late : LateRequest(request)
         \/ DeadlinePasses \/ Sweeper \/ UNCHANGED vars
  PROVE  TypeOK' /\ RunAdvances /\ worker' = worker /\ client' = client
  <1> USE DEF database, processes
  <1>1. ASSUME NEW request \in late, LateRequest(request)
        PROVE  TypeOK' /\ RunAdvances /\ worker' = worker /\ client' = client
    <2>1. request \in LateRequests /\ late' \subseteq LateRequests
      BY <1>1 DEF LateRequest, TypeOK
    <2>2. manifests' \in Seq(ManifestRow) /\ artifacts' \subseteq Nat
      <3>1. CASE request.kind = "manifest"
        <4>1. request.key \in Nat /\ request.draft \in Drafts
          BY <2>1, <3>1 DEF LateRequests
        <4>2. QED BY <1>1, <3>1, <4>1, StoreType DEF LateRequest, TypeOK
      <3>2. CASE request.kind # "manifest"
        <4>1. request.version \in Nat
          BY <2>1, <3>2 DEF LateRequests
        <4>2. QED BY <1>1, <3>2, <4>1, GenerateType DEF LateRequest, TypeOK
      <3>3. QED BY <3>1, <3>2
    <2>3. QED BY <1>1, <2>1, <2>2 DEF LateRequest, TypeOK, WorkerOK, ClientOK, RunAdvances
  <1>2. CASE DeadlinePasses
    BY <1>2 DEF DeadlinePasses, TypeOK, WorkerOK, ClientOK, RunAdvances
  <1>3. CASE SweepSelect
    BY <1>3 DEF SweepSelect, TypeOK, WorkerOK, ClientOK, Row, RunAdvances
  <1>4. CASE SweepCommit
    <2>1. run' \in Row /\ RunAdvances
      BY <1>4, CommittedType, GatesClosed DEF SweepCommit, TypeOK, WORKFLOW_STATES, RunAdvances
    <2>2. QED BY <1>4, <2>1 DEF SweepCommit, TypeOK, WorkerOK, ClientOK
  <1>5. CASE UNCHANGED vars
    BY <1>5 DEF vars, TypeOK, WorkerOK, ClientOK, RunAdvances
  <1>6. QED BY <1>1, <1>2, <1>3, <1>4, <1>5 DEF Sweeper

\* Every step keeps the types and advances the row or leaves it alone.
LEMMA NextType ==
  ASSUME TypeOK, [Next]_vars
  PROVE  TypeOK' /\ RunAdvances
  BY WorkerStepType, ClientStepType, OtherStepType DEF Next

\* Every initial state is well typed.
LEMMA InitType == Init => TypeOK
  <1> SUFFICES ASSUME Init PROVE TypeOK
    OBVIOUS
  <1>1. WorkerOK
    BY RestingType DEF Init, WorkerOK, WorkerPoints
  <1>2. NoRequest \in RequestLocal /\ NoRequest.op = "idle"
    BY NewRunType DEF NoRequest, RequestLocal, Requests
  <1>3. ClientOK
    BY <1>2 DEF Init, ClientOK
  <1>4. /\ manifests \in Seq(ManifestRow)
        /\ used \in [asks : Nat, says : Nat, revisions : Nat, faults : Nat, invalid : Nat]
    BY DEF Init
  <1>5. QED BY <1>1, <1>3, <1>4, NewRunType DEF Init, TypeOK

\* The variables keep their types in every behaviour of the run's workers,
\* sweeper, users and stores (runs.service.ts:90-499).
THEOREM TypeCorrect == Spec => []TypeOK
  BY InitType, NextType, PTL DEF Spec
----------------------------------------------------------------------------
(* Optimistic locking                                                      *)

\* A row that is fresh against the current row is fresh against its successor.
LEMMA StaysFresh ==
  ASSUME TypeOK, TypeOK', RunAdvances, NEW row \in Row, Fresh(row)
  PROVE  /\ row.stateVersion <= run'.stateVersion
         /\ row.stateVersion = run'.stateVersion => row = run'
  <1>1. run.stateVersion \in Nat /\ run'.stateVersion \in Nat /\ row.stateVersion \in Nat
    BY DEF TypeOK, Row
  <1>2. QED BY <1>1 DEF Fresh, RunAdvances

\* What a worker holds after a step is fresh, if it is the current row or is
\* what the worker held before.
LEMMA WorkerFresh ==
  ASSUME TypeOK, TypeOK', RunAdvances, FreshSnapshots, NEW v \in Workers,
         \/ worker'[v].run = run'
         \/ worker[v].pc \in Holding /\ worker'[v].run = worker[v].run
  PROVE  Fresh(worker[v].run)'
  <1>1. run'.stateVersion \in Nat
    BY DEF TypeOK, Row
  <1>2. CASE worker'[v].run = run'
    BY <1>1, <1>2 DEF Fresh
  <1>3. CASE worker[v].pc \in Holding /\ worker'[v].run = worker[v].run
    <2>1. worker[v].run \in Row /\ Fresh(worker[v].run)
      BY <1>3 DEF TypeOK, WorkerOK, WorkerLocal, FreshSnapshots
    <2>2. QED BY <1>3, <2>1, StaysFresh DEF Fresh
  <1>4. QED BY <1>2, <1>3

\* The same for a request.
LEMMA ClientFresh ==
  ASSUME TypeOK, TypeOK', RunAdvances, FreshSnapshots, NEW c \in Clients,
         client'[c].run = run' \/ (client[c].op \in Asking /\ client'[c].run = client[c].run)
  PROVE  Fresh(client[c].run)'
  <1>1. run'.stateVersion \in Nat
    BY DEF TypeOK, Row
  <1>2. CASE client'[c].run = run'
    BY <1>1, <1>2 DEF Fresh
  <1>3. CASE client[c].op \in Asking /\ client'[c].run = client[c].run
    <2>1. client[c].run \in Row /\ Fresh(client[c].run)
      BY <1>3 DEF TypeOK, ClientOK, RequestLocal, FreshSnapshots, Asking
    <2>2. QED BY <1>3, <2>1, StaysFresh DEF Fresh
  <1>4. QED BY <1>2, <1>3

\* One step keeps every row that a worker or a request holds fresh.
LEMMA NextFresh ==
  ASSUME TypeOK, FreshSnapshots, [Next]_vars
  PROVE  FreshSnapshots'
  <1>1. TypeOK' /\ RunAdvances
    BY NextType
  <1>2. ASSUME NEW w \in Workers, Moved(w), client' = client PROVE FreshSnapshots'
    <2>1. ASSUME NEW v \in Workers, worker'[v].pc \in Holding PROVE Fresh(worker[v].run)'
      BY <1>1, <1>2, <2>1, WorkerFresh DEF Moved
    <2>2. ASSUME NEW c \in Clients, client'[c].op \in Asking PROVE Fresh(client[c].run)'
      BY <1>1, <1>2, <2>2, ClientFresh
    <2>3. QED BY <2>1, <2>2 DEF FreshSnapshots, Asking
  <1>3. ASSUME NEW c \in Clients, Asked(c), worker' = worker PROVE FreshSnapshots'
    <2>1. ASSUME NEW v \in Workers, worker'[v].pc \in Holding PROVE Fresh(worker[v].run)'
      BY <1>1, <1>3, <2>1, WorkerFresh
    <2>2. ASSUME NEW d \in Clients, client'[d].op \in Asking PROVE Fresh(client[d].run)'
      <3>1. CASE d = c
        <4>1. client'[d].run = run'
          BY <1>3, <2>2, <3>1 DEF Asked
        <4>2. run'.stateVersion \in Nat
          BY <1>1 DEF TypeOK, Row
        <4>3. QED BY <4>1, <4>2 DEF Fresh
      <3>2. CASE d # c
        <4>1. client'[d] = client[d]
          BY <1>3, <3>2 DEF Asked
        <4>2. QED BY <1>1, <2>2, <4>1, ClientFresh
      <3>3. QED BY <3>1, <3>2
    <2>3. QED BY <2>1, <2>2 DEF FreshSnapshots, Asking
  <1>4. ASSUME worker' = worker, client' = client PROVE FreshSnapshots'
    <2>1. ASSUME NEW v \in Workers, worker'[v].pc \in Holding PROVE Fresh(worker[v].run)'
      BY <1>1, <1>4, <2>1, WorkerFresh
    <2>2. ASSUME NEW d \in Clients, client'[d].op \in Asking PROVE Fresh(client[d].run)'
      BY <1>1, <1>4, <2>2, ClientFresh
    <2>3. QED BY <2>1, <2>2 DEF FreshSnapshots, Asking
  <1>5. QED
    BY <1>2, <1>3, <1>4, WorkerStepType, ClientStepType, OtherStepType DEF Next

\* Optimistic locking: whatever a worker or a request still holds when it
\* reaches the version check of mutate (runs.service.ts:168) is the current
\* row or an older version, never another row of the same version.
THEOREM SnapshotsFresh == Spec => []FreshSnapshots
  <1>1. Init => FreshSnapshots
    BY DEF Init, FreshSnapshots, Resting, NoRequest, Holding, Working
  <1>2. TypeOK /\ FreshSnapshots /\ [Next]_vars => FreshSnapshots'
    BY NextFresh
  <1>3. QED BY <1>1, <1>2, TypeCorrect, PTL DEF Spec

\* A run in a terminal state is never written again: the table has no
\* transition out of it and mutate refuses the updates that keep the state
\* (runs.service.ts:170-198).
THEOREM TerminalRunsFinal == Spec => TerminalIsFinal
  <1>1. TypeOK /\ [Next]_vars => [isTerminalWorkflowState(run.state) => UNCHANGED run]_run
    BY NextType DEF RunAdvances
  <1>2. QED BY <1>1, TypeCorrect, PTL DEF Spec, TerminalIsFinal

-----------------------------------------------------------------------------
(* What was shown, what is stored and what was generated                   *)

\* A worker that is about to commit a manifest holds the version under which
\* the store has the draft it will publish.
ReadyIsStored ==
  \A w \in Workers : worker[w].pc = "ready" =>
    /\ worker[w].version \in DOMAIN manifests
    /\ manifests[worker[w].version].draft = worker[w].draft

ManifestInv == OneManifestPerTurn /\ ShownIsStored /\ ReadyIsStored

\* A step after which no worker is newly about to commit a manifest.
NoNewReady == \A v \in Workers : worker'[v].pc = "ready" => worker'[v] = worker[v]

Quiet == NoNewReady /\ UNCHANGED << manifests, shown >>
----------------------------------------------------------------------------
(* The manifest store                                                      *)

\* Manifests are only appended: a stored version keeps its key and content.
LEMMA StoreAppends ==
  ASSUME manifests \in Seq(ManifestRow), NEW key \in Nat, NEW draft \in Drafts,
         StoreManifestVersionWithKey(key, draft)
  PROVE  \A v \in DOMAIN manifests : v \in DOMAIN manifests' /\ manifests'[v] = manifests[v]
  BY DEF StoreManifestVersionWithKey, ManifestRow

\* A key that is used gets no second version.
LEMMA StoreOnce ==
  ASSUME manifests \in Seq(ManifestRow), NEW key \in Nat, NEW draft \in Drafts,
         OneManifestPerTurn, StoreManifestVersionWithKey(key, draft)
  PROVE  OneManifestPerTurn'
  <1>1. CASE StoredUnder(key) = {}
    <2>1. /\ DOMAIN manifests = 1..Len(manifests)
          /\ DOMAIN manifests' = 1..(Len(manifests) + 1)
          /\ Len(manifests) \in Nat
          /\ manifests'[Len(manifests) + 1].key = key
          /\ \A v \in 1..Len(manifests) : manifests'[v] = manifests[v]
      BY <1>1 DEF StoreManifestVersionWithKey, ManifestRow
    <2>2. \A v \in 1..Len(manifests) : manifests[v].key # key
      BY <1>1, <2>1 DEF StoredUnder
    <2>3. SUFFICES ASSUME NEW u \in DOMAIN manifests', NEW v \in DOMAIN manifests',
                          manifests'[u].key = manifests'[v].key
                   PROVE  u = v
      BY DEF OneManifestPerTurn
    <2>4. CASE u \in 1..Len(manifests) /\ v \in 1..Len(manifests)
      BY <2>1, <2>3, <2>4 DEF OneManifestPerTurn
    <2>5. CASE u = Len(manifests) + 1 \/ v = Len(manifests) + 1
      BY <2>1, <2>2, <2>3, <2>5
    <2>6. QED BY <2>1, <2>4, <2>5
  <1>2. CASE StoredUnder(key) # {}
    BY <1>2 DEF StoreManifestVersionWithKey, OneManifestPerTurn
  <1>3. QED BY <1>1, <1>2

\* The version in the answer holds the draft that was sent.
LEMMA StoreAnswers ==
  ASSUME manifests \in Seq(ManifestRow), NEW key \in Nat, NEW draft \in Drafts,
         StoreManifestVersionWithKey(key, draft), StoreResult(key, draft) # 0
  PROVE  /\ StoreResult(key, draft) \in DOMAIN manifests'
         /\ manifests'[StoreResult(key, draft)].draft = draft
  <1>1. CASE StoredUnder(key) = {}
    BY <1>1 DEF StoreManifestVersionWithKey, StoreResult, ManifestRow
  <1>2. CASE StoredUnder(key) # {}
    <2> DEFINE v == CHOOSE v \in StoredUnder(key) : TRUE
    <2>1. v \in DOMAIN manifests
      BY <1>2 DEF StoredUnder
    <2>2. StoreResult(key, draft) = v /\ manifests[v].draft = draft
      BY <1>2 DEF StoreResult
    <2>3. QED BY <1>2, <2>1, <2>2 DEF StoreManifestVersionWithKey
  <1>3. QED BY <1>1, <1>2

\* What is stored and what was shown still agree when the store has grown.
LEMMA StoreKeepsShown ==
  ASSUME \A v \in DOMAIN manifests : v \in DOMAIN manifests' /\ manifests'[v] = manifests[v],
         ShownIsStored, shown' = shown
  PROVE  ShownIsStored'
  BY DEF ShownIsStored
----------------------------------------------------------------------------
(* The steps of the workers                                                *)

\* A worker that goes anywhere but "ready" makes no worker newly ready.
LEMMA NotReady ==
  ASSUME WorkerOK, NEW w \in Workers, NEW x, x.pc # "ready",
         worker' = [worker EXCEPT ![w] = x]
  PROVE  NoNewReady
  BY DEF WorkerOK, NoNewReady

\* The forms in which a worker moves on.
LEMMA NotReadySteps ==
  ASSUME WorkerOK, NEW w \in Workers, NEW pc, pc # "ready", NEW draft, NEW version,
         NEW to, NEW candidate,
         \/ Goto(w, pc) \/ Await(w, pc, draft, version)
         \/ CommitAt(w, to, candidate, pc) \/ TouchAt(w, candidate, pc)
  PROVE  NoNewReady
  <1>1. Resting(pc).pc = pc /\ Resting("unlock").pc = "unlock"
    BY DEF Resting
  <1>2. [Resting(pc) EXCEPT !.run = Committed(to, candidate)].pc = pc
    BY DEF Resting
  <1>3. CASE Goto(w, pc)
    BY <1>1, <1>3, NotReady DEF Goto
  <1>4. CASE Await(w, pc, draft, version)
    BY <1>4, NotReady DEF Await
  <1>5. CASE CommitAt(w, to, candidate, pc)
    <2>1. CASE MayTransition(Read(w).stateVersion, to, candidate)
      BY <1>2, <1>5, <2>1, NotReady DEF CommitAt
    <2>2. CASE ~MayTransition(Read(w).stateVersion, to, candidate)
      BY <1>1, <1>5, <2>2, NotReady DEF CommitAt, Goto
    <2>3. QED BY <2>1, <2>2
  <1>6. CASE TouchAt(w, candidate, pc)
    <2>1. CASE MayTouch(Read(w).stateVersion)
      <3> DEFINE x == [worker[w] EXCEPT !.pc = pc, !.run = Committed(run.state, candidate),
                                        !.draft = None]
      <3>1. x.pc = pc
        BY DEF WorkerOK, WorkerLocal
      <3>2. worker' = [worker EXCEPT ![w] = x]
        BY <1>6, <2>1 DEF TouchAt
      <3>3. QED BY <3>1, <3>2, NotReady
    <2>2. CASE ~MayTouch(Read(w).stateVersion)
      BY <1>1, <1>6, <2>2, NotReady DEF TouchAt, Goto
    <2>3. QED BY <2>1, <2>2
  <1>7. QED BY <1>3, <1>4, <1>5, <1>6

\* Only StoreDraft makes a worker ready, and only CommitManifest publishes.
LEMMA WorkerQuiet ==
  ASSUME TypeOK, NEW w \in Workers, ~StoreDraft(w), ~CommitManifest(w),
         WorkerStep(w) \/ Timeout(w) \/ Crash(w) \/ LoseLock(w)
  PROVE  Quiet
  <1> USE DEF database, Quiet
  <1>1. WorkerOK
    BY DEF TypeOK
  <1>2. CASE SelectPending(w)
    BY <1>1, <1>2, NotReadySteps DEF SelectPending
  <1>3. CASE TryLock(w)
    <2>1. Goto(w, "read") \/ Goto(w, "idle")
      BY <1>3 DEF TryLock
    <2>2. QED BY <1>1, <1>3, <2>1, NotReadySteps DEF TryLock
  <1>4. CASE ReadRun(w)
    <2> DEFINE x == IF Dispatch(run) = "unlock" THEN Resting("unlock")
                    ELSE [Resting(Dispatch(run)) EXCEPT !.run = run]
    <2>1. Dispatch(run) # "ready"
      BY DEF Dispatch
    <2>2. x.pc # "ready"
      BY <2>1 DEF Resting
    <2>3. worker' = [worker EXCEPT ![w] = x]
      BY <1>4 DEF ReadRun
    <2> HIDE DEF x
    <2>4. QED BY <1>1, <1>4, <2>2, <2>3, NotReady DEF ReadRun
  <1>5. CASE StartPolicyLoad(w)
    BY <1>1, <1>5, NotReadySteps DEF StartPolicyLoad
  <1>6. CASE \E mode \in PolicyModes : LoadPolicy(w, mode)
    BY <1>1, <1>6, NotReadySteps DEF LoadPolicy
  <1>7. CASE LoadCloudContext(w)
    BY <1>1, <1>7, NotReadySteps DEF LoadCloudContext
  <1>8. CASE LinkAgentSession(w)
    BY <1>1, <1>8, NotReadySteps DEF LinkAgentSession
  <1>9. CASE AgentAsks(w)
    <2>1. Goto(w, "unlock")
      BY <1>9 DEF AgentAsks, CommitLast
    <2>2. QED BY <1>1, <1>9, <2>1, NotReadySteps DEF AgentAsks
  <1>10. CASE AgentSays(w)
    BY <1>1, <1>10, NotReadySteps DEF AgentSays
  <1>11. CASE \E draft \in Drafts : AgentDrafts(w, draft)
    BY <1>1, <1>11, NotReadySteps DEF AgentDrafts
  <1>12. CASE RejectDraft(w)
    <2> DEFINE candidate == [run EXCEPT !.manifestValidationAttempts =
                                          Read(w).manifestValidationAttempts + 1]
    <2>1. Goto(w, "unlock") \/ TouchAt(w, candidate, "agent")
      BY <1>12 DEF RejectDraft, CommitLast
    <2> HIDE DEF candidate
    <2>2. QED BY <1>1, <1>12, <2>1, NotReadySteps DEF RejectDraft
  <1>13. CASE StartGeneration(w)
    BY <1>1, <1>13, NotReadySteps DEF StartGeneration
  <1>14. CASE GenerateIac(w)
    <2>1. Await(w, "validate", None, Read(w).manifestVersion) \/ Await(w, "recheck", None, 0)
      BY <1>14 DEF GenerateIac
    <2>2. QED BY <1>1, <1>14, <2>1, NotReadySteps DEF GenerateIac
  <1>15. CASE ReportValidation(w)
    BY <1>1, <1>15, NotReadySteps DEF ReportValidation
  <1>16. CASE CommitPlan(w)
    <2>1. Await(w, "recheck", None, 0) \/ Goto(w, "unlock")
      BY <1>16 DEF CommitPlan, CommitLast
    <2>2. QED BY <1>1, <1>16, <2>1, NotReadySteps DEF CommitPlan
  <1>17. CASE StepFails(w) \/ Timeout(w)
    BY <1>1, <1>17, NotReadySteps DEF StepFails, Timeout
  <1>18. CASE Recheck(w)
    <2>1. Await(w, "fail", None, 0) \/ Goto(w, "unlock")
      BY <1>18 DEF Recheck
    <2>2. QED BY <1>1, <1>18, <2>1, NotReadySteps DEF Recheck
  <1>19. CASE FailRun(w) \/ ExpireInPass(w)
    <2>1. Goto(w, "unlock")
      BY <1>19 DEF FailRun, ExpireInPass, CommitLast
    <2>2. QED BY <1>1, <1>19, <2>1, NotReadySteps DEF FailRun, ExpireInPass
  <1>20. CASE Unlock(w) \/ Crash(w)
    BY <1>1, <1>20, NotReadySteps DEF Unlock, Crash
  <1>21. CASE LoseLock(w)
    BY <1>21 DEF LoseLock, NoNewReady
  <1>22. QED
    BY <1>2, <1>3, <1>4, <1>5, <1>6, <1>7, <1>8, <1>9, <1>10, <1>11, <1>12, <1>13, <1>14,
       <1>15, <1>16, <1>17, <1>18, <1>19, <1>20, <1>21 DEF WorkerStep

\* Users, deadlines and the sweeper touch neither manifests nor workers.
LEMMA OthersQuiet ==
  ASSUME TypeOK,
         \/ \E c \in Clients : ClientStep(c)
         \/ DeadlinePasses \/ Sweeper \/ UNCHANGED vars
  PROVE  Quiet
  BY DEF Quiet, NoNewReady, ClientStep, cancelRun, CommitCancel, confirmRun, CommitConfirm,
         reviseRun, CommitRevise, clarifyRun, CommitClarify, RecognizeReplay, RequestFails,
         DeadlinePasses, Sweeper, SweepSelect, SweepCommit, database, processes, vars

\* A quiet step keeps the invariant.
LEMMA QuietManifests ==
  ASSUME ManifestInv, Quiet
  PROVE  ManifestInv'
  BY DEF ManifestInv, Quiet, NoNewReady, OneManifestPerTurn, ShownIsStored, ReadyIsStored

\* Every step keeps the invariant of the manifest store.
LEMMA NextManifests ==
  ASSUME TypeOK, ManifestInv, [Next]_vars
  PROVE  ManifestInv'
  <1>1. manifests \in Seq(ManifestRow) /\ WorkerOK
    BY DEF TypeOK
  <1>2. ASSUME NEW w \in Workers, StoreDraft(w) PROVE ManifestInv'
    <2> DEFINE key == Read(w).stateVersion
               draft == worker[w].draft
               result == StoreResult(key, draft)
    <2>1. key \in Nat /\ draft \in Drafts
      BY <1>1, <1>2 DEF StoreDraft, At, WorkerOK, WorkerLocal, Row, Read
    <2>2. /\ StoreManifestVersionWithKey(key, draft)
          /\ result = 0 => Await(w, "recheck", None, 0)
          /\ result # 0 => Await(w, "ready", draft, result)
          /\ shown' = shown
      BY <1>2 DEF StoreDraft
    <2> HIDE DEF key, result
    <2>3. OneManifestPerTurn'
      BY <1>1, <2>1, <2>2, StoreOnce DEF ManifestInv
    <2>4. \A v \in DOMAIN manifests : v \in DOMAIN manifests' /\ manifests'[v] = manifests[v]
      BY <1>1, <2>1, <2>2, StoreAppends
    <2>5. ShownIsStored'
      BY <2>2, <2>4, StoreKeepsShown DEF ManifestInv
    <2>6. ReadyIsStored'
      <3>1. CASE result = 0
        <4>1. NoNewReady
          BY <1>1, <2>2, <3>1, NotReadySteps
        <4>2. QED BY <2>4, <4>1 DEF ReadyIsStored, NoNewReady, ManifestInv
      <3>2. CASE result # 0
        <4>1. result \in DOMAIN manifests' /\ manifests'[result].draft = draft
          BY <1>1, <2>1, <2>2, <3>2, StoreAnswers DEF result
        <4>2. /\ worker'[w].version = result /\ worker'[w].draft = draft
              /\ \A v \in Workers \ {w} : worker'[v] = worker[v]
          BY <1>1, <2>2, <3>2 DEF Await, WorkerOK
        <4>3. QED BY <2>4, <4>1, <4>2 DEF ReadyIsStored, ManifestInv
      <3>3. QED BY <3>1, <3>2
    <2>7. QED BY <2>3, <2>5, <2>6 DEF ManifestInv
  <1>3. ASSUME NEW w \in Workers, CommitManifest(w) PROVE ManifestInv'
    <2>1. /\ worker[w].version \in DOMAIN manifests
          /\ manifests[worker[w].version].draft = worker[w].draft
      BY <1>3 DEF CommitManifest, At, ManifestInv, ReadyIsStored
    <2>2. /\ manifests' = manifests
          /\ shown' \subseteq shown \cup {[version |-> worker[w].version, draft |-> worker[w].draft]}
          /\ Goto(w, "unlock")
      BY <1>3 DEF CommitManifest, CommitLast
    <2>3. NoNewReady
      BY <1>1, <2>2, NotReadySteps
    <2>4. ShownIsStored'
      BY <2>1, <2>2 DEF ShownIsStored, ManifestInv
    <2>5. QED BY <2>2, <2>3, <2>4 DEF ManifestInv, OneManifestPerTurn, ReadyIsStored, NoNewReady
  <1>4. ASSUME NEW request \in late, LateRequest(request) PROVE ManifestInv'
    <2>1. worker' = worker /\ shown' = shown
      BY <1>4 DEF LateRequest
    <2>2. CASE request.kind = "manifest"
      <3>1. request.key \in Nat /\ request.draft \in Drafts
        BY <1>4, <2>2 DEF LateRequests, TypeOK
      <3>2. StoreManifestVersionWithKey(request.key, request.draft)
        BY <1>4, <2>2 DEF LateRequest
      <3>3. OneManifestPerTurn'
        BY <1>1, <3>1, <3>2, StoreOnce DEF ManifestInv
      <3>4. \A v \in DOMAIN manifests : v \in DOMAIN manifests' /\ manifests'[v] = manifests[v]
        BY <1>1, <3>1, <3>2, StoreAppends
      <3>5. ShownIsStored'
        BY <2>1, <3>4, StoreKeepsShown DEF ManifestInv
      <3>6. QED BY <2>1, <3>3, <3>4, <3>5 DEF ManifestInv, ReadyIsStored
    <2>3. CASE request.kind # "manifest"
      <3>1. Quiet
        BY <1>4, <2>1, <2>3 DEF LateRequest, Quiet, NoNewReady
      <3>2. QED BY <3>1, QuietManifests
    <2>4. QED BY <2>2, <2>3
  <1>5. QED
    BY <1>2, <1>3, <1>4, WorkerQuiet, OthersQuiet, QuietManifests DEF Next

\* The invariant of the manifest store holds throughout.
LEMMA ManifestInvHolds == Spec => []ManifestInv
  <1>1. Init => ManifestInv
    BY DEF Init, ManifestInv, OneManifestPerTurn, ShownIsStored, ReadyIsStored, Resting
  <1>2. TypeOK /\ ManifestInv /\ [Next]_vars => ManifestInv'
    BY NextManifests
  <1>3. QED BY <1>1, <1>2, TypeCorrect, PTL DEF Spec

\* A planning turn stores one manifest at most, for every number of workers,
\* crashes, timeouts and late requests (StoreManifestVersionWithKey).
THEOREM TurnsStoreOnce == Spec => []OneManifestPerTurn
  <1>1. ManifestInv => OneManifestPerTurn
    BY DEF ManifestInv
  <1>2. QED BY <1>1, ManifestInvHolds, PTL

\* What the ManifestReadyEvent of a version showed the users is what the store
\* holds under that version (dispatchAgent, runs.service.ts).
THEOREM ShownManifestsStored == Spec => []ShownIsStored
  <1>1. ManifestInv => ShownIsStored
    BY DEF ManifestInv
  <1>2. QED BY <1>1, ManifestInvHolds, PTL
----------------------------------------------------------------------------
(* The consent behind a plan                                               *)

\* The active manifest is one that was shown to the users as it is stored.
ActiveShown ==
  run.manifestVersion # 0 =>
    [version |-> run.manifestVersion, draft |-> manifests[run.manifestVersion].draft] \in shown

\* A plan has its artifact and the confirmation of the active version.
PlanBacked ==
  run.state = "PLAN_CREATING" =>
    /\ assertConfirmedManifest(run)
    /\ run.iacArtifactId = run.manifestVersion
    /\ run.iacArtifactId \in artifacts

\* A revision was accepted for a run that had no plan when it was read.
RevisesNoPlan ==
  \A c \in Clients : client[c].op = "revise" => client[c].run.state # "PLAN_CREATING"

ConsentInv == ActiveShown /\ PlanBacked /\ RevisesNoPlan

\* A row that has the same active version, and a plan only where this row has
\* the same plan.
SamePlan(row) ==
  /\ row.manifestVersion = run.manifestVersion
  /\ row.state = "PLAN_CREATING" =>
       /\ run.state = "PLAN_CREATING"
       /\ row.manifestValidatedVersion = run.manifestValidatedVersion
       /\ row.manifestConfirmedVersion = run.manifestConfirmedVersion
       /\ row.iacArtifactId = run.iacArtifactId

\* A candidate of mutate that carries the versions of the current row.
SameVersions(candidate) ==
  /\ candidate \in Row
  /\ candidate.manifestVersion = run.manifestVersion
  /\ candidate.manifestValidatedVersion = run.manifestValidatedVersion
  /\ candidate.manifestConfirmedVersion = run.manifestConfirmedVersion
  /\ candidate.iacArtifactId = run.iacArtifactId

\* What a write keeps of the candidate.
LEMMA CommittedFields ==
  ASSUME NEW to, NEW candidate \in Row
  PROVE  /\ Committed(to, candidate).state = to
         /\ Committed(to, candidate).manifestVersion = candidate.manifestVersion
         /\ Committed(to, candidate).manifestValidatedVersion = candidate.manifestValidatedVersion
         /\ Committed(to, candidate).manifestConfirmedVersion = candidate.manifestConfirmedVersion
         /\ Committed(to, candidate).iacArtifactId = candidate.iacArtifactId
  BY DEF Committed, Row

\* A worker's write of a candidate that keeps the versions keeps the plan.
LEMMA WritesKeepPlan ==
  ASSUME run \in Row, NEW w \in Workers, NEW candidate, SameVersions(candidate),
         NEW to, NEW pc, to # "PLAN_CREATING",
         \/ CommitAt(w, to, candidate, pc) \/ CommitLast(w, to, candidate)
         \/ TouchAt(w, candidate, pc)
  PROVE  SamePlan(run')
  <1>1. run' \in {run, Committed(to, candidate), Committed(run.state, candidate)}
    BY DEF CommitAt, CommitLast, TouchAt
  <1>2. QED BY <1>1, CommittedFields DEF SamePlan, SameVersions

\* Of the workers' steps only CommitManifest changes the active version and
\* only CommitPlan makes a plan.
LEMMA WorkerKeepsPlan ==
  ASSUME TypeOK, NEW w \in Workers, ~CommitManifest(w), ~CommitPlan(w),
         WorkerStep(w) \/ Timeout(w) \/ Crash(w) \/ LoseLock(w)
  PROVE  SamePlan(run') /\ artifacts \subseteq artifacts'
  <1> USE DEF database
  <1>1. run \in Row /\ worker[w] \in WorkerLocal /\ Read(w) \in Row /\ used.asks \in Nat
        /\ SamePlan(run) /\ SameVersions(run)
    BY DEF TypeOK, WorkerOK, WorkerLocal, Read, SamePlan, SameVersions
  <1>2. CASE StartPolicyLoad(w)
    BY <1>1, <1>2, WritesKeepPlan DEF StartPolicyLoad
  <1>3. ASSUME NEW mode \in PolicyModes, LoadPolicy(w, mode)
        PROVE  SamePlan(run') /\ artifacts \subseteq artifacts'
    <2> DEFINE candidate == [run EXCEPT !.policyRequirements = mode]
    <2>1. SameVersions(candidate)
      BY <1>1 DEF Row, SameVersions
    <2>2. QED BY <1>1, <1>3, <2>1, WritesKeepPlan DEF LoadPolicy
  <1>4. CASE LoadCloudContext(w)
    <2> DEFINE candidate == [run EXCEPT !.cloudContext = TRUE]
    <2>1. SameVersions(candidate)
      BY <1>1 DEF Row, SameVersions
    <2>2. QED BY <1>1, <1>4, <2>1, WritesKeepPlan DEF LoadCloudContext
  <1>5. CASE LinkAgentSession(w)
    <2> DEFINE candidate == [run EXCEPT !.agentSession = TRUE]
    <2>1. SameVersions(candidate)
      BY <1>1 DEF Row, SameVersions
    <2>2. QED BY <1>1, <1>5, <2>1, WritesKeepPlan DEF LinkAgentSession
  <1>6. CASE AgentAsks(w)
    <2> DEFINE candidate == [run EXCEPT !.currentQuestion = used.asks + 1,
                                        !.agentTurnPending = FALSE]
    <2>1. used.asks + 1 \in Nat
      BY <1>1
    <2>2. SameVersions(candidate)
      BY <1>1, <2>1 DEF Row, SameVersions
    <2>3. CommitLast(w, "CLARIFYING", candidate) /\ artifacts' = artifacts
      BY <1>6 DEF AgentAsks
    <2> HIDE DEF candidate
    <2>4. QED BY <1>1, <2>2, <2>3, WritesKeepPlan
  <1>7. CASE AgentSays(w)
    <2> DEFINE candidate == [run EXCEPT !.agentTurnPending = FALSE]
    <2>1. SameVersions(candidate)
      BY <1>1 DEF Row, SameVersions
    <2>2. run' \in {run, Committed(run.state, candidate)} /\ artifacts' = artifacts
      BY <1>7 DEF AgentSays
    <2> HIDE DEF candidate
    <2>3. QED BY <1>1, <2>1, <2>2, CommittedFields DEF SamePlan, SameVersions
  <1>8. CASE RejectDraft(w)
    <2> DEFINE attempts  == Read(w).manifestValidationAttempts + 1
               candidate == [run EXCEPT !.manifestValidationAttempts = attempts]
    <2>1. attempts \in Nat
      BY <1>1, SMTT(30) DEF Row
    <2>2. SameVersions(candidate)
      BY <1>1, <2>1 DEF Row, SameVersions
    <2>3. /\ CommitLast(w, "FAILED", candidate) \/ TouchAt(w, candidate, "agent")
          /\ artifacts' = artifacts
      BY <1>8 DEF RejectDraft
    <2> HIDE DEF candidate
    <2>4. QED BY <1>1, <2>2, <2>3, WritesKeepPlan, SMTT(30)
  <1>9. CASE StartGeneration(w) \/ ReportValidation(w)
    BY <1>1, <1>9, WritesKeepPlan DEF StartGeneration, ReportValidation
  <1>10. CASE FailRun(w) \/ ExpireInPass(w)
    BY <1>1, <1>10, WritesKeepPlan DEF FailRun, ExpireInPass
  <1>11. CASE GenerateIac(w)
    BY <1>1, <1>11 DEF GenerateIac, Generate
  <1>12. CASE \/ SelectPending(w) \/ TryLock(w) \/ ReadRun(w) \/ StoreDraft(w)
              \/ \E draft \in Drafts : AgentDrafts(w, draft)
              \/ StepFails(w) \/ Recheck(w) \/ Unlock(w)
              \/ Timeout(w) \/ Crash(w) \/ LoseLock(w)
    BY <1>1, <1>12 DEF SelectPending, TryLock, ReadRun, StoreDraft, AgentDrafts, StepFails,
       Recheck, Unlock, Timeout, Crash, LoseLock
  <1>13. QED
    BY <1>2, <1>3, <1>4, <1>5, <1>6, <1>7, <1>8, <1>9, <1>10, <1>11, <1>12 DEF WorkerStep

\* No request makes a plan or changes the active version; the revision, which
\* clears the confirmation, is refused unless the row it read is current.
LEMMA ClientKeepsPlan ==
  ASSUME TypeOK, FreshSnapshots, RevisesNoPlan, NEW c \in Clients, ClientStep(c)
  PROVE  SamePlan(run') /\ artifacts' = artifacts /\ RevisesNoPlan'
  <1> USE DEF database
  <1>1. run \in Row /\ client[c] \in RequestLocal /\ client \in [Clients -> RequestLocal]
        /\ SamePlan(run)
    BY DEF TypeOK, ClientOK, SamePlan
  <1>2. NoRequest.op = "idle"
    BY DEF NoRequest
  <1>3. Done(c) => RevisesNoPlan'
    BY <1>1, <1>2 DEF Done, RevisesNoPlan
  <1>4. CASE cancelRun(c)
    <2>1. [NoRequest EXCEPT !.op = "cancel", !.run = run].op = "cancel"
      BY DEF NoRequest
    <2>2. RevisesNoPlan'
      BY <1>1, <1>4, <2>1 DEF cancelRun, Begin, RevisesNoPlan
    <2>3. QED BY <1>1, <1>4, <2>2 DEF cancelRun
  <1>5. CASE CommitCancel(c)
    <2>1. run' \in {run, Committed("CANCELLED", run)}
      BY <1>5 DEF CommitCancel
    <2>2. QED BY <1>1, <1>3, <1>5, <2>1, CommittedFields DEF CommitCancel, SamePlan
  <1>6. ASSUME NEW version \in DOMAIN manifests, confirmRun(c, version)
        PROVE  SamePlan(run') /\ artifacts' = artifacts /\ RevisesNoPlan'
    <2>1. [NoRequest EXCEPT !.op = "confirm", !.run = run, !.version = version].op = "confirm"
      BY DEF NoRequest
    <2>2. RevisesNoPlan'
      BY <1>1, <1>6, <2>1 DEF confirmRun, RevisesNoPlan
    <2>3. QED BY <1>1, <1>6, <2>2 DEF confirmRun
  <1>7. CASE CommitConfirm(c)
    <2> DEFINE candidate == [run EXCEPT !.manifestConfirmedVersion = client[c].version]
    <2>1. candidate \in Row /\ candidate.manifestVersion = run.manifestVersion
      BY <1>1 DEF Row, RequestLocal
    <2>2. run' \in {run, Committed("IAC_GENERATING", candidate)}
      BY <1>7 DEF CommitConfirm
    <2> HIDE DEF candidate
    <2>3. SamePlan(run')
      BY <1>1, <2>1, <2>2, CommittedFields DEF SamePlan
    <2>4. QED BY <1>3, <1>7, <2>3 DEF CommitConfirm
  <1>8. CASE reviseRun(c)
    <2>1. /\ [NoRequest EXCEPT !.op = "revise", !.run = run].run = run
          /\ run.state # "PLAN_CREATING"
      BY <1>8 DEF NoRequest, reviseRun
    <2>2. RevisesNoPlan'
      BY <1>1, <1>8, <2>1 DEF reviseRun, Begin, RevisesNoPlan
    <2>3. QED BY <1>1, <1>8, <2>2 DEF reviseRun
  <1>9. CASE CommitRevise(c)
    <2> DEFINE candidate == [run EXCEPT !.agentTurnPending = TRUE,
                                        !.manifestConfirmedVersion = 0,
                                        !.manifestValidatedVersion = 0,
                                        !.manifestValidationAttempts = 0]
    <2>1. candidate \in Row /\ candidate.manifestVersion = run.manifestVersion
      BY <1>1 DEF Row
    <2>2. \/ run' = run
          \/ /\ run.stateVersion = ReadBy(c).stateVersion
             /\ run' \in {Committed("MANIFEST_CREATING", candidate),
                          Committed(run.state, candidate)}
      BY <1>9 DEF CommitRevise, MayTransition, MayTouch
    <2>3. run.stateVersion = ReadBy(c).stateVersion => run.state # "PLAN_CREATING"
      BY <1>9 DEF CommitRevise, FreshSnapshots, Fresh, ReadBy, RevisesNoPlan
    <2> HIDE DEF candidate
    <2>4. SamePlan(run')
      BY <1>1, <2>1, <2>2, <2>3, CommittedFields DEF SamePlan
    <2>5. QED BY <1>3, <1>9, <2>4 DEF CommitRevise
  <1>10. ASSUME NEW key \in Keys, NEW answers \in Answers, clarifyRun(c, key, answers)
         PROVE  SamePlan(run') /\ artifacts' = artifacts /\ RevisesNoPlan'
    <2> DEFINE r == [NoRequest EXCEPT !.op = IF expired THEN "cancel" ELSE "clarify",
                                      !.run = run, !.key = key, !.answers = answers]
    <2>1. r.op # "revise"
      BY DEF NoRequest
    <2>2. client' = client \/ client' = [client EXCEPT ![c] = r]
      BY <1>10 DEF clarifyRun
    <2> HIDE DEF r
    <2>3. RevisesNoPlan'
      BY <1>1, <2>1, <2>2 DEF RevisesNoPlan
    <2>4. QED BY <1>1, <1>10, <2>3 DEF clarifyRun
  <1>11. CASE CommitClarify(c)
    <2> DEFINE entry == [question |-> run.currentQuestion, key |-> client[c].key,
                         answers |-> client[c].answers]
               candidate == [run EXCEPT !.currentQuestion = 0,
                                        !.answersHistory = Append(@, entry),
                                        !.agentTurnPending = TRUE]
    <2>1. entry \in AnswerEntry
      BY <1>11 DEF CommitClarify, AnswerEntry, TypeOK, ClientOK, Row
    <2>2. Append(run.answersHistory, entry) \in Seq(AnswerEntry)
      BY <1>1, <2>1 DEF Row
    <2>3. candidate \in Row /\ candidate.manifestVersion = run.manifestVersion
      BY <1>1, <2>2 DEF Row
    <2>4. run' \in {run, Committed("MANIFEST_CREATING", candidate)}
      BY <1>11 DEF CommitClarify
    <2> HIDE DEF candidate
    <2>5. SamePlan(run')
      BY <1>1, <2>3, <2>4, CommittedFields DEF SamePlan
    <2>6. RevisesNoPlan'
      BY <1>1, <1>3, <1>11 DEF CommitClarify, RevisesNoPlan, RequestLocal
    <2>7. QED BY <1>11, <2>5, <2>6 DEF CommitClarify
  <1>12. CASE RecognizeReplay(c) \/ RequestFails(c)
    BY <1>1, <1>3, <1>12 DEF RecognizeReplay, RequestFails
  <1>13. QED
    BY <1>4, <1>5, <1>6, <1>7, <1>8, <1>9, <1>10, <1>11, <1>12 DEF ClientStep

\* Nothing that was stored, shown or generated is taken back.
Grows ==
  /\ \A v \in DOMAIN manifests : v \in DOMAIN manifests' /\ manifests'[v] = manifests[v]
  /\ shown \subseteq shown'
  /\ artifacts \subseteq artifacts'

\* A step that keeps the plan of the row keeps the consent behind it.
LEMMA PlanKept ==
  ASSUME TypeOK, ShownIsStored, ConsentInv, SamePlan(run'), Grows, RevisesNoPlan'
  PROVE  ConsentInv'
  <1>1. ActiveShown'
    BY DEF ActiveShown, ConsentInv, SamePlan, Grows, ShownIsStored
  <1>2. PlanBacked'
    BY DEF PlanBacked, ConsentInv, SamePlan, Grows, assertConfirmedManifest
  <1>3. QED BY <1>1, <1>2 DEF ConsentInv

\* CommitManifest publishes what it makes active, and leaves no plan.
LEMMA ManifestCommitConsent ==
  ASSUME TypeOK, ManifestInv, ConsentInv, NEW w \in Workers, CommitManifest(w)
  PROVE  ConsentInv'
  <1> DEFINE version   == worker[w].version
             entry     == [version |-> version, draft |-> worker[w].draft]
             candidate == [run EXCEPT !.manifestVersion = version,
                                      !.manifestValidatedVersion = version,
                                      !.agentTurnPending = FALSE,
                                      !.manifestConfirmedVersion = 0]
  <1>1. version \in Nat /\ run \in Row
    BY DEF TypeOK, WorkerOK, WorkerLocal
  <1>2. candidate \in Row /\ candidate.manifestVersion = version
    BY <1>1 DEF Row
  <1>3. manifests[version].draft = worker[w].draft
    BY DEF CommitManifest, At, ManifestInv, ReadyIsStored
  <1>4. manifests' = manifests /\ artifacts' = artifacts /\ client' = client
    BY DEF CommitManifest
  <1>5. \/ run' = run /\ shown' = shown
        \/ run' = Committed("MANIFEST_VALIDATING", candidate) /\ shown' = shown \cup {entry}
    BY DEF CommitManifest, CommitLast
  <1> HIDE DEF candidate
  <1>6. CASE run' = run /\ shown' = shown
    BY <1>4, <1>6 DEF ConsentInv, ActiveShown, PlanBacked, RevisesNoPlan
  <1>7. CASE run' = Committed("MANIFEST_VALIDATING", candidate) /\ shown' = shown \cup {entry}
    <2>1. run'.state = "MANIFEST_VALIDATING" /\ run'.manifestVersion = version
      BY <1>2, <1>7, CommittedFields
    <2>2. QED BY <1>3, <1>4, <1>7, <2>1 DEF ConsentInv, ActiveShown, PlanBacked, RevisesNoPlan
  <1>8. QED BY <1>5, <1>6, <1>7

\* CommitPlan makes a plan only with the evidence that the query of mutate finds.
LEMMA PlanCommitConsent ==
  ASSUME TypeOK, ConsentInv, NEW w \in Workers, CommitPlan(w)
  PROVE  ConsentInv'
  <1> DEFINE candidate == [run EXCEPT !.iacArtifactId = worker[w].version]
  <1>1. run \in Row /\ worker[w].version \in Nat
    BY DEF TypeOK, WorkerOK, WorkerLocal
  <1>2. candidate \in Row /\ candidate.manifestVersion = run.manifestVersion
    BY <1>1 DEF Row
  <1>3. UNCHANGED << manifests, artifacts, shown, client >>
    BY DEF CommitPlan
  <1>4. run' = run \/ (run' = Committed("PLAN_CREATING", candidate) /\ IacEvidence(candidate))
    BY DEF CommitPlan, CommitLast, MayTransition
  <1> HIDE DEF candidate
  <1>5. CASE run' = run
    BY <1>3, <1>5 DEF ConsentInv, ActiveShown, PlanBacked, RevisesNoPlan
  <1>6. CASE run' = Committed("PLAN_CREATING", candidate) /\ IacEvidence(candidate)
    <2>1. /\ run'.manifestVersion = candidate.manifestVersion
          /\ run'.manifestValidatedVersion = candidate.manifestValidatedVersion
          /\ run'.manifestConfirmedVersion = candidate.manifestConfirmedVersion
          /\ run'.iacArtifactId = candidate.iacArtifactId
      BY <1>2, <1>6, CommittedFields
    <2>2. ActiveShown' /\ RevisesNoPlan'
      BY <1>2, <1>3, <2>1 DEF ConsentInv, ActiveShown, RevisesNoPlan
    <2>3. PlanBacked'
      BY <1>3, <1>6, <2>1 DEF PlanBacked, IacEvidence, assertConfirmedManifest
    <2>4. QED BY <2>2, <2>3 DEF ConsentInv
  <1>7. QED BY <1>4, <1>5, <1>6

\* Every step keeps the consent behind the plan.
LEMMA NextConsent ==
  ASSUME TypeOK, FreshSnapshots, ManifestInv, ConsentInv, [Next]_vars
  PROVE  ConsentInv'
  <1> USE DEF database, processes
  <1>1. run \in Row /\ manifests \in Seq(ManifestRow) /\ ShownIsStored /\ RevisesNoPlan
    BY DEF TypeOK, ManifestInv, ConsentInv
  <1>2. ASSUME NEW w \in Workers, WorkerStep(w) \/ Timeout(w) \/ Crash(w) \/ LoseLock(w)
        PROVE  ConsentInv'
    <2>1. CASE CommitManifest(w)
      BY <2>1, ManifestCommitConsent
    <2>2. CASE CommitPlan(w)
      BY <2>2, PlanCommitConsent
    <2>3. CASE ~CommitManifest(w) /\ ~CommitPlan(w)
      <3>1. SamePlan(run') /\ artifacts \subseteq artifacts'
        BY <1>2, <2>3, WorkerKeepsPlan
      <3>2. RevisesNoPlan'
        BY <1>1, <1>2, WorkerStepType DEF RevisesNoPlan
      <3>3. Grows
        <4>1. CASE StoreDraft(w)
          <5>1. Read(w).stateVersion \in Nat /\ worker[w].draft \in Drafts
            BY <4>1 DEF StoreDraft, At, TypeOK, WorkerOK, WorkerLocal, Row, Read
          <5>2. StoreManifestVersionWithKey(Read(w).stateVersion, worker[w].draft)
                /\ shown' = shown
            BY <4>1 DEF StoreDraft
          <5>3. QED BY <1>1, <3>1, <5>1, <5>2, StoreAppends DEF Grows
        <4>2. CASE ~StoreDraft(w)
          BY <1>2, <2>3, <3>1, <4>2, WorkerQuiet DEF Quiet, Grows
        <4>3. QED BY <4>1, <4>2
      <3>4. QED BY <1>1, <3>1, <3>2, <3>3, PlanKept
    <2>4. QED BY <2>1, <2>2, <2>3
  <1>3. ASSUME NEW c \in Clients, ClientStep(c) PROVE ConsentInv'
    <2>1. SamePlan(run') /\ artifacts' = artifacts /\ RevisesNoPlan'
      BY <1>1, <1>3, ClientKeepsPlan
    <2>2. Grows
      BY <1>3, <2>1, OthersQuiet DEF Quiet, Grows
    <2>3. QED BY <1>1, <2>1, <2>2, PlanKept
  <1>4. ASSUME NEW request \in late, LateRequest(request) PROVE ConsentInv'
    <2>1. UNCHANGED << run, shown, client >>
      BY <1>4 DEF LateRequest
    <2>2. SamePlan(run') /\ RevisesNoPlan'
      BY <1>1, <2>1 DEF SamePlan, RevisesNoPlan
    <2>3. Grows
      <3>1. CASE request.kind = "manifest"
        <4>1. request.key \in Nat /\ request.draft \in Drafts
          BY <1>4, <3>1 DEF LateRequests, TypeOK
        <4>2. StoreManifestVersionWithKey(request.key, request.draft) /\ artifacts' = artifacts
          BY <1>4, <3>1 DEF LateRequest
        <4>3. QED BY <1>1, <2>1, <4>1, <4>2, StoreAppends DEF Grows
      <3>2. CASE request.kind # "manifest"
        BY <1>4, <2>1, <3>2 DEF LateRequest, Generate, Grows
      <3>3. QED BY <3>1, <3>2
    <2>4. QED BY <1>1, <2>2, <2>3, PlanKept
  <1>5. CASE DeadlinePasses \/ Sweeper \/ UNCHANGED vars
    <2>1. /\ run' \in {run, Committed("CANCELLED", run)}
          /\ artifacts' = artifacts /\ client' = client
      BY <1>5 DEF DeadlinePasses, Sweeper, SweepSelect, SweepCommit, vars
    <2>2. SamePlan(run') /\ RevisesNoPlan'
      BY <1>1, <2>1, CommittedFields DEF SamePlan, RevisesNoPlan
    <2>3. Grows
      BY <1>5, <2>1, OthersQuiet DEF Quiet, Grows
    <2>4. QED BY <1>1, <2>2, <2>3, PlanKept
  <1>6. QED BY <1>2, <1>3, <1>4, <1>5 DEF Next

\* Whatever crashes, late replies, revisions and confirmations happen, a run
\* has a plan only with an artifact of the version that was validated, shown
\* as it is stored, and confirmed (mutate's evidence query, runs.service.ts).
THEOREM PlansHaveConsent == Spec => []PlanHasConsent
  <1>1. Init => ConsentInv
    BY DEF Init, ConsentInv, ActiveShown, PlanBacked, RevisesNoPlan, NewRun, NoRequest
  <1>2. TypeOK /\ FreshSnapshots /\ ManifestInv /\ ConsentInv /\ [Next]_vars => ConsentInv'
    BY NextConsent
  <1>3. ConsentInv => PlanHasConsent
    BY DEF ConsentInv, ActiveShown, PlanBacked, PlanHasConsent, assertConfirmedManifest
  <1>4. QED BY <1>1, <1>2, <1>3, TypeCorrect, SnapshotsFresh, ManifestInvHolds, PTL DEF Spec
=============================================================================
