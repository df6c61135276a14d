------------------------- MODULE RunContractProofs --------------------------
(***************************************************************************)
(* RunLifecycle implements RunContract, keeps the answers it acknowledges  *)
(* and fails at the third invalid draft.  The three results rest on one    *)
(* list of what a step may do to the row (Writes), which every action is   *)
(* shown to follow.                                                        *)
(***************************************************************************)
EXTENDS RunLifecycleProofs

Planning == {"RECEIVED", "POLICY_LOADED", "CLOUD_CONTEXT_LOADED", "MANIFEST_CREATING"}

SameConsent ==
  /\ run'.manifestVersion = run.manifestVersion
  /\ run'.manifestConfirmedVersion = run.manifestConfirmedVersion
  /\ run'.iacArtifactId = run.iacArtifactId

SameAnswers ==
  /\ run'.answersHistory = run.answersHistory
  /\ run'.currentQuestion = run.currentQuestion
  /\ used'.asks = used.asks

\* The row keeps its state, or moves on within planning.
Stays == SameConsent /\ SameAnswers /\ run'.state = run.state
Plans == SameConsent /\ SameAnswers /\ {run.state, run'.state} \subseteq Planning
Ends  == SameConsent /\ SameAnswers /\ run'.state \in {"FAILED", "CANCELLED"}

\* A question, with the next number.
Asks ==
  /\ SameConsent /\ run'.answersHistory = run.answersHistory
  /\ run.state \in Planning \cup {"CLARIFYING"} /\ run'.state = "CLARIFYING"
  /\ run'.currentQuestion = used.asks + 1 /\ used'.asks = used.asks + 1

\* A manifest is presented, confirmed, revised, built.
Presents ==
  /\ SameAnswers /\ run'.iacArtifactId = run.iacArtifactId
  /\ run.state = "MANIFEST_CREATING" /\ run'.state = "MANIFEST_VALIDATING"
  /\ run'.manifestVersion # 0 /\ run'.manifestConfirmedVersion = 0
  /\ run'.manifestVersion \in DOMAIN manifests
  /\ shown' = shown \cup {[version |-> run'.manifestVersion,
                           draft   |-> manifests[run'.manifestVersion].draft]}
  /\ UNCHANGED manifests

Confirms ==
  /\ SameAnswers
  /\ run.state = "MANIFEST_VALIDATING" /\ run'.state = "IAC_GENERATING"
  /\ run'.manifestVersion = run.manifestVersion /\ run'.manifestConfirmedVersion = run.manifestVersion
  /\ run'.iacArtifactId = run.iacArtifactId

Revises ==
  /\ SameAnswers
  /\ run.state \in {"MANIFEST_CREATING", "MANIFEST_VALIDATING"} /\ run'.state = "MANIFEST_CREATING"
  /\ run'.manifestVersion = run.manifestVersion /\ run'.manifestConfirmedVersion = 0
  /\ run'.iacArtifactId = run.iacArtifactId

Builds ==
  /\ SameAnswers
  /\ run.state = "IAC_GENERATING" /\ run'.state = "PLAN_CREATING"
  /\ run'.manifestVersion = run.manifestVersion
  /\ run'.manifestConfirmedVersion = run.manifestConfirmedVersion
  /\ run'.iacArtifactId = run.manifestVersion /\ run.manifestConfirmedVersion = run.manifestVersion

\* The current question is answered under a key that the history does not have.
Answered ==
  /\ SameConsent /\ used'.asks = used.asks
  /\ run.state = "CLARIFYING" /\ run'.state = "MANIFEST_CREATING"
  /\ run'.currentQuestion = 0
  /\ \E key \in Keys, answers \in Answers :
       /\ Entries(run, key) = {}
       /\ run'.answersHistory =
            Append(run.answersHistory,
                   [question |-> run.currentQuestion, key |-> key, answers |-> answers])

Writes ==
  \/ Presents
  \/ shown' = shown /\ (Stays \/ Plans \/ Ends \/ Asks \/ Confirms \/ Revises \/ Builds \/ Answered)

\* How a step counts invalid drafts: not at all, from the start after a
\* revision, or one more, and then the third one fails the run.
Counts ==
  \/ /\ used'.invalid = used.invalid
     /\ run'.manifestValidationAttempts = run.manifestValidationAttempts
  \/ used'.invalid = 0 /\ run'.manifestValidationAttempts = 0
  \/ /\ used'.invalid = used.invalid + 1
     /\ run'.manifestValidationAttempts = run.manifestValidationAttempts + 1
     /\ run'.manifestValidationAttempts < MaxValidationAttempts \/ run'.state = "FAILED"

\* A step acknowledges only answers that the history has afterwards.
Acks == \A a \in acked' : a \in acked \/ Replays(run', a.key, a.answers)

\* Requests hold what they have checked.
RequestsChecked ==
  \A c \in Clients :
    /\ client[c].op = "revise" =>
         client[c].run.state \in {"MANIFEST_CREATING", "MANIFEST_VALIDATING"}
    /\ client[c].op = "clarify" => Entries(client[c].run, client[c].key) = {}

WInv == TypeOK /\ FreshSnapshots /\ ManifestInv /\ ConsentInv /\ RequestsChecked
----------------------------------------------------------------------------
(* The table and the row                                                   *)

\* Where a transition may come from.
LEMMA Sources ==
  ASSUME NEW from, NEW to, NEW held, assertTransition(from, to, held)
  PROVE  /\ to = "POLICY_LOADED" => from = "RECEIVED"
         /\ to = "CLOUD_CONTEXT_LOADED" => from \in {"RECEIVED", "POLICY_LOADED"}
         /\ to = "CLARIFYING" => from \in {"CLOUD_CONTEXT_LOADED", "MANIFEST_CREATING", "CLARIFYING"}
         /\ to = "MANIFEST_VALIDATING" => from = "MANIFEST_CREATING" /\ "manifestCreated" \in held
         /\ to = "IAC_GENERATING" => from = "MANIFEST_VALIDATING"
         /\ to = "PLAN_CREATING" => from = "IAC_GENERATING" /\ "iacGenerated" \in held
<1>1. PICK t \in ALLOWED_TRANSITIONS(from) : t.to = to /\ t.requiredConditions \subseteq held
  BY DEF assertTransition
<1>2. CASE t \in EXIT_TO_FAILURE_OR_CANCELLATION
  BY <1>1, <1>2 DEF EXIT_TO_FAILURE_OR_CANCELLATION, To
<1>3. CASE t \in ForwardTransitions(from)
  <2>1. CASE from \in {"RECEIVED", "POLICY_LOADED", "CLOUD_CONTEXT_LOADED", "CLARIFYING"}
    BY <1>1, <1>3, <2>1 DEF ForwardTransitions, To
  <2>2. CASE from \in {"MANIFEST_CREATING", "MANIFEST_VALIDATING", "IAC_GENERATING"}
    BY <1>1, <1>3, <2>2 DEF ForwardTransitions, To
  <2>3. CASE from \in {"PLAN_CREATING", "POLICY_CHECKING", "CONFIRMING", "APPROVING", "EXECUTING"}
    BY <1>1, <1>3, <2>3 DEF ForwardTransitions, To
  <2>4. CASE from \notin {"RECEIVED", "POLICY_LOADED", "CLOUD_CONTEXT_LOADED", "CLARIFYING",
                          "MANIFEST_CREATING", "MANIFEST_VALIDATING", "IAC_GENERATING",
                          "PLAN_CREATING", "POLICY_CHECKING", "CONFIRMING", "APPROVING", "EXECUTING"}
    BY <1>3, <2>4 DEF ForwardTransitions
  <2> QED
    BY <2>1, <2>2, <2>3, <2>4
<1> QED
  BY <1>1, <1>2, <1>3 DEF ALLOWED_TRANSITIONS

\* What a write keeps of its candidate.
LEMMA CommittedRest ==
  ASSUME NEW to, NEW candidate \in Row
  PROVE  /\ Committed(to, candidate).currentQuestion = candidate.currentQuestion
         /\ Committed(to, candidate).answersHistory = candidate.answersHistory
         /\ Committed(to, candidate).manifestValidationAttempts = candidate.manifestValidationAttempts
  BY DEF Committed, Row

\* A candidate that differs from the row in nothing the contract sees.
Same(candidate) ==
  /\ SameVersions(candidate)
  /\ candidate.currentQuestion = run.currentQuestion
  /\ candidate.answersHistory = run.answersHistory

LEMMA WritesSame ==
  ASSUME run \in Row, NEW to, NEW candidate, Same(candidate), run' = Committed(to, candidate),
         used'.asks = used.asks
  PROVE  /\ SameConsent /\ SameAnswers /\ run'.state = to
         /\ run'.manifestValidationAttempts = candidate.manifestValidationAttempts
  BY CommittedFields, CommittedRest DEF Same, SameVersions, SameConsent, SameAnswers

\* A step that does not write the row.
LEMMA Unwritten ==
  ASSUME TypeOK, run' = run, used'.asks = used.asks, used'.invalid = used.invalid, shown' = shown
  PROVE  Writes /\ Counts
  BY DEF Writes, Stays, SameConsent, SameAnswers, Counts

\* A worker's commit is refused, or writes the candidate over the row it read.
LEMMA Commits ==
  ASSUME TypeOK, FreshSnapshots, NEW w \in Workers, worker[w].pc \in Holding,
         NEW to, NEW candidate, NEW pc,
         CommitAt(w, to, candidate, pc) \/ CommitLast(w, to, candidate), run' # run
  PROVE  /\ run' = Committed(to, candidate) /\ Read(w) = run
         /\ assertTransition(run.state, to, conditions(candidate))
<1>1. run' = Committed(to, candidate) /\ MayTransition(Read(w).stateVersion, to, candidate)
  BY DEF CommitAt, CommitLast
<1>2. Fresh(Read(w))
  BY DEF FreshSnapshots, Read
<1> QED
  BY <1>1, <1>2 DEF MayTransition, Fresh

LEMMA Touches ==
  ASSUME NEW w \in Workers, NEW candidate, NEW pc, TouchAt(w, candidate, pc), run' # run
  PROVE  run' = Committed(run.state, candidate)
  BY DEF TouchAt
----------------------------------------------------------------------------
(* The steps                                                               *)

LEMMA WorkerWrites ==
  ASSUME WInv, NEW w \in Workers, WorkerStep(w) \/ Timeout(w) \/ Crash(w) \/ LoseLock(w)
  PROVE  Writes /\ Counts /\ Acks
<1> USE DEF database
<1>1. /\ run \in Row /\ worker[w] \in WorkerLocal /\ Read(w) \in Row /\ used.asks \in Nat
      /\ TypeOK /\ FreshSnapshots /\ Same(run)
      /\ used \in [asks : Nat, says : Nat, revisions : Nat, faults : Nat, invalid : Nat]
  BY DEF WInv, TypeOK, WorkerOK, WorkerLocal, Read, Same, SameVersions
<1>2. run.manifestValidationAttempts \in Nat /\ Read(w).manifestValidationAttempts \in Nat
  BY <1>1 DEF Row
<1>3. acked' = acked => Acks
  BY DEF Acks
<1>4. ASSUME NEW candidate, Same(candidate), NEW to \in {"FAILED", "CANCELLED"},
             CommitLast(w, to, candidate), worker[w].pc \in Holding,
             candidate.manifestValidationAttempts = run.manifestValidationAttempts,
             UNCHANGED << used, shown, acked >>
      PROVE  Writes /\ Counts /\ Acks
  <2>1. CASE run' = run
    BY <1>1, <1>3, <1>4, <2>1, Unwritten
  <2>2. CASE run' # run
    <3>1. run' = Committed(to, candidate)
      BY <1>1, <1>4, <2>2, Commits
    <3>2. /\ SameConsent /\ SameAnswers /\ run'.state = to
          /\ run'.manifestValidationAttempts = candidate.manifestValidationAttempts
      BY <1>1, <1>4, <3>1, WritesSame
    <3> QED
      BY <1>3, <1>4, <3>2 DEF Writes, Ends, Counts
  <2> QED
    BY <2>1, <2>2
<1>5. ASSUME NEW candidate, Same(candidate), NEW pc, TouchAt(w, candidate, pc),
             candidate.manifestValidationAttempts = run.manifestValidationAttempts,
             UNCHANGED << used, shown, acked >>
      PROVE  Writes /\ Counts /\ Acks
  <2>1. CASE run' = run
    BY <1>1, <1>3, <1>5, <2>1, Unwritten
  <2>2. CASE run' # run
    <3>1. run' = Committed(run.state, candidate)
      BY <1>5, <2>2, Touches
    <3>2. /\ SameConsent /\ SameAnswers /\ run'.state = run.state
          /\ run'.manifestValidationAttempts = candidate.manifestValidationAttempts
      BY <1>1, <1>5, <3>1, WritesSame
    <3> QED
      BY <1>3, <1>5, <3>2 DEF Writes, Stays, Counts
  <2> QED
    BY <2>1, <2>2
<1>6. ASSUME NEW candidate, Same(candidate), NEW pc, NEW to \in Planning,
             CommitAt(w, to, candidate, pc), At(w, "load_context"), Read(w).state \in Planning,
             candidate.manifestValidationAttempts = run.manifestValidationAttempts,
             UNCHANGED << used, shown, acked >>
      PROVE  Writes /\ Counts /\ Acks
  <2>1. CASE run' = run
    BY <1>1, <1>3, <1>6, <2>1, Unwritten
  <2>2. CASE run' # run
    <3>1. run' = Committed(to, candidate) /\ Read(w) = run
      BY <1>1, <1>6, <2>2, Commits DEF At, Holding, Working
    <3>2. /\ SameConsent /\ SameAnswers /\ run'.state = to
          /\ run'.manifestValidationAttempts = candidate.manifestValidationAttempts
      BY <1>1, <1>6, <3>1, WritesSame
    <3> QED
      BY <1>3, <1>6, <3>1, <3>2 DEF Writes, Plans, Counts
  <2> QED
    BY <2>1, <2>2
<1>7. CASE StartPolicyLoad(w)
  BY <1>1, <1>6, <1>7 DEF StartPolicyLoad, Planning
<1>8. ASSUME NEW mode \in PolicyModes, LoadPolicy(w, mode)
      PROVE  Writes /\ Counts /\ Acks
  <2> DEFINE candidate == [run EXCEPT !.policyRequirements = mode]
  <2>1. Same(candidate) /\ candidate.manifestValidationAttempts = run.manifestValidationAttempts
    BY <1>1 DEF Row, Same, SameVersions
  <2> QED
    BY <1>6, <1>8, <2>1 DEF LoadPolicy, Planning
<1>9. CASE LoadCloudContext(w)
  <2> DEFINE candidate == [run EXCEPT !.cloudContext = TRUE]
  <2>1. Same(candidate) /\ candidate.manifestValidationAttempts = run.manifestValidationAttempts
    BY <1>1 DEF Row, Same, SameVersions
  <2> QED
    BY <1>6, <1>9, <2>1 DEF LoadCloudContext, Planning
<1>10. CASE LinkAgentSession(w)
  <2> DEFINE candidate == [run EXCEPT !.agentSession = TRUE]
  <2>1. Same(candidate) /\ candidate.manifestValidationAttempts = run.manifestValidationAttempts
    BY <1>1 DEF Row, Same, SameVersions
  <2> QED
    BY <1>5, <1>10, <2>1 DEF LinkAgentSession
<1>11. CASE AgentAsks(w)
  <2> DEFINE candidate == [run EXCEPT !.currentQuestion = used.asks + 1, !.agentTurnPending = FALSE]
  <2>1. PICK n \in Nat : n = used.asks + 1
    BY <1>1
  <2>2. /\ SameVersions(candidate) /\ candidate.currentQuestion = n
        /\ candidate.answersHistory = run.answersHistory
        /\ candidate.manifestValidationAttempts = run.manifestValidationAttempts
    BY <1>1, <2>1 DEF Row, SameVersions
  <2>3. /\ CommitLast(w, "CLARIFYING", candidate) /\ UNCHANGED << shown, acked >>
        /\ used' = IF MayTransition(Read(w).stateVersion, "CLARIFYING", candidate)
                   THEN [used EXCEPT !.asks = n] ELSE used
    BY <1>11, <2>1 DEF AgentAsks
  <2>4. worker[w].pc \in Holding
    BY <1>11 DEF AgentAsks, InTurn, At, Holding, Working
  <2> HIDE DEF candidate
  <2>5. CASE ~MayTransition(Read(w).stateVersion, "CLARIFYING", candidate)
    BY <1>1, <1>3, <2>3, <2>5, Unwritten DEF CommitLast
  <2>6. CASE MayTransition(Read(w).stateVersion, "CLARIFYING", candidate)
    <3>1. run' = Committed("CLARIFYING", candidate) /\ used'.asks = n /\ used'.invalid = used.invalid
      BY <1>1, <2>3, <2>6 DEF CommitLast
    <3>2. run.state \in Planning \cup {"CLARIFYING"}
      BY <2>6, Sources DEF MayTransition, Planning
    <3>3. /\ SameConsent /\ run'.answersHistory = run.answersHistory
          /\ run'.state = "CLARIFYING" /\ run'.currentQuestion = n
          /\ run'.manifestValidationAttempts = run.manifestValidationAttempts
      BY <2>2, <3>1, CommittedFields, CommittedRest DEF SameVersions, SameConsent
    <3> QED
      BY <1>3, <2>1, <2>3, <3>1, <3>2, <3>3 DEF Writes, Asks, Counts
  <2> QED
    BY <2>5, <2>6
<1>12. CASE AgentSays(w)
  <2> DEFINE candidate == [run EXCEPT !.agentTurnPending = FALSE]
  <2>1. Same(candidate) /\ candidate.manifestValidationAttempts = run.manifestValidationAttempts
    BY <1>1 DEF Row, Same, SameVersions
  <2>2. /\ run' = run \/ run' = Committed(run.state, candidate)
        /\ UNCHANGED << shown, acked >>
        /\ used'.asks = used.asks /\ used'.invalid = used.invalid
    BY <1>1, <1>12 DEF AgentSays
  <2> HIDE DEF candidate
  <2>3. CASE run' = run
    BY <1>1, <1>3, <2>2, <2>3, Unwritten
  <2>4. CASE run' = Committed(run.state, candidate)
    <3>1. /\ SameConsent /\ SameAnswers /\ run'.state = run.state
          /\ run'.manifestValidationAttempts = candidate.manifestValidationAttempts
      BY <1>1, <2>1, <2>2, <2>4, WritesSame
    <3> QED
      BY <1>3, <2>1, <2>2, <3>1 DEF Writes, Stays, Counts
  <2> QED
    BY <2>2, <2>3, <2>4
<1>13. CASE RejectDraft(w)
  <2> DEFINE attempts  == Read(w).manifestValidationAttempts + 1
             candidate == [run EXCEPT !.manifestValidationAttempts = attempts]
  <2>1. PICK n \in Nat : n = attempts
    BY <1>2
  <2>2. Same(candidate) /\ candidate.manifestValidationAttempts = n
    BY <1>1, <2>1 DEF Row, Same, SameVersions
  <2>3. /\ UNCHANGED << shown, acked >>
        /\ \/ run' = run /\ used' = used
           \/ /\ run.stateVersion = Read(w).stateVersion
              /\ used' = [used EXCEPT !.invalid = @ + 1]
              /\ \/ run' = Committed("FAILED", candidate)
                 \/ run' = Committed(run.state, candidate) /\ n < MaxValidationAttempts
    BY <1>13, <2>1 DEF RejectDraft, MaxValidationAttempts, CommitLast, TouchAt, MayTransition, MayTouch
  <2>4. worker[w].pc \in Holding
    BY <1>13 DEF RejectDraft, At, Holding, Working
  <2> HIDE DEF candidate
  <2>5. CASE run' = run /\ used' = used
    BY <1>1, <1>3, <2>3, <2>5, Unwritten
  <2>6. ASSUME NEW to, run' = Committed(to, candidate), to \in {"FAILED", run.state},
               to = "FAILED" \/ n < MaxValidationAttempts,
               run.stateVersion = Read(w).stateVersion, used' = [used EXCEPT !.invalid = @ + 1]
        PROVE  Writes /\ Counts /\ Acks
    <3>1. Read(w) = run
      BY <1>1, <2>4, <2>6 DEF FreshSnapshots, Fresh, Read
    <3>2. n = run.manifestValidationAttempts + 1
      BY <2>1, <3>1
    <3>3. used'.asks = used.asks /\ used'.invalid = used.invalid + 1
      BY <1>1, <2>6
    <3>4. /\ SameConsent /\ SameAnswers /\ run'.state = to /\ run'.manifestValidationAttempts = n
      BY <1>1, <2>2, <2>6, <3>3, WritesSame
    <3>5. Counts
      BY <2>6, <3>2, <3>3, <3>4 DEF Counts
    <3>6. Writes
      BY <2>3, <2>6, <3>4 DEF Writes, Stays, Ends
    <3> QED
      BY <1>3, <2>3, <3>5, <3>6
  <2> QED
    BY <2>3, <2>5, <2>6
<1>14. CASE CommitManifest(w)
  <2> DEFINE version   == worker[w].version
             candidate == [run EXCEPT !.manifestVersion = version,
                                      !.manifestValidatedVersion = version,
                                      !.agentTurnPending = FALSE,
                                      !.manifestConfirmedVersion = 0]
             entry     == [version |-> version, draft |-> worker[w].draft]
  <2>1. /\ version \in DOMAIN manifests /\ manifests[version].draft = worker[w].draft
        /\ version \in Nat /\ worker[w].pc \in Holding
    BY <1>1, <1>14 DEF CommitManifest, At, WInv, ManifestInv, ReadyIsStored, Holding, Working, WorkerLocal
  <2>2. /\ candidate \in Row /\ candidate.manifestVersion = version
        /\ candidate.manifestConfirmedVersion = 0 /\ candidate.iacArtifactId = run.iacArtifactId
        /\ candidate.currentQuestion = run.currentQuestion /\ candidate.answersHistory = run.answersHistory
        /\ candidate.manifestValidationAttempts = run.manifestValidationAttempts
    BY <1>1, <2>1 DEF Row
  <2>3. /\ UNCHANGED << manifests, acked, used >>
        /\ \/ run' = run /\ shown' = shown
           \/ /\ MayTransition(Read(w).stateVersion, "MANIFEST_VALIDATING", candidate)
              /\ run' = Committed("MANIFEST_VALIDATING", candidate) /\ shown' = shown \cup {entry}
    BY <1>14 DEF CommitManifest, CommitLast
  <2> HIDE DEF candidate
  <2>4. CASE run' = run /\ shown' = shown
    BY <1>1, <1>3, <2>3, <2>4, Unwritten
  <2>5. CASE /\ MayTransition(Read(w).stateVersion, "MANIFEST_VALIDATING", candidate)
             /\ run' = Committed("MANIFEST_VALIDATING", candidate) /\ shown' = shown \cup {entry}
    <3>1. run.state = "MANIFEST_CREATING"
      BY <2>5, Sources DEF MayTransition
    <3>2. /\ run'.state = "MANIFEST_VALIDATING" /\ run'.manifestVersion = version
          /\ run'.manifestConfirmedVersion = 0 /\ run'.iacArtifactId = run.iacArtifactId
          /\ SameAnswers /\ run'.manifestValidationAttempts = run.manifestValidationAttempts
      BY <2>2, <2>3, <2>5, CommittedFields, CommittedRest DEF SameAnswers
    <3>3. version # 0
      BY <1>1, <2>1 DEF TypeOK
    <3> QED
      BY <1>3, <2>1, <2>3, <2>5, <3>1, <3>2, <3>3 DEF Writes, Presents, Counts
  <2> QED
    BY <2>3, <2>4, <2>5
<1>15. CASE StartGeneration(w) \/ ReportValidation(w)
  BY <1>1, <1>5, <1>15 DEF StartGeneration, ReportValidation
<1>16. CASE CommitPlan(w)
  <2> DEFINE candidate == [run EXCEPT !.iacArtifactId = worker[w].version]
  <2>1. /\ candidate \in Row /\ candidate.manifestVersion = run.manifestVersion
        /\ candidate.manifestConfirmedVersion = run.manifestConfirmedVersion
        /\ candidate.currentQuestion = run.currentQuestion /\ candidate.answersHistory = run.answersHistory
        /\ candidate.manifestValidationAttempts = run.manifestValidationAttempts
    BY <1>1 DEF Row, WorkerLocal
  <2>2. /\ UNCHANGED << shown, acked, used >>
        /\ \/ run' = run
           \/ /\ MayTransition(Read(w).stateVersion, "PLAN_CREATING", candidate) /\ IacEvidence(candidate)
              /\ run' = Committed("PLAN_CREATING", candidate)
    BY <1>16 DEF CommitPlan, CommitLast, MayTransition
  <2> HIDE DEF candidate
  <2>3. CASE run' = run
    BY <1>1, <1>3, <2>2, <2>3, Unwritten
  <2>4. CASE /\ MayTransition(Read(w).stateVersion, "PLAN_CREATING", candidate) /\ IacEvidence(candidate)
             /\ run' = Committed("PLAN_CREATING", candidate)
    <3>1. run.state = "IAC_GENERATING"
      BY <2>4, Sources DEF MayTransition
    <3>2. /\ candidate.iacArtifactId = candidate.manifestVersion
          /\ candidate.manifestConfirmedVersion = candidate.manifestVersion
      BY <2>4 DEF IacEvidence, assertConfirmedManifest
    <3>3. /\ run'.state = "PLAN_CREATING" /\ run'.manifestVersion = run.manifestVersion
          /\ run'.manifestConfirmedVersion = run.manifestConfirmedVersion
          /\ run'.iacArtifactId = candidate.iacArtifactId
          /\ SameAnswers /\ run'.manifestValidationAttempts = run.manifestValidationAttempts
      BY <2>1, <2>2, <2>4, CommittedFields, CommittedRest DEF SameAnswers
    <3> QED
      BY <1>3, <2>1, <2>2, <3>1, <3>2, <3>3 DEF Writes, Builds, Counts
  <2> QED
    BY <2>2, <2>3, <2>4
<1>17. CASE FailRun(w) \/ ExpireInPass(w)
  BY <1>1, <1>4, <1>17 DEF FailRun, ExpireInPass, At, Holding, Working
<1>18. CASE \/ SelectPending(w) \/ TryLock(w) \/ ReadRun(w) \/ StoreDraft(w)
            \/ \E draft \in Drafts : AgentDrafts(w, draft)
            \/ GenerateIac(w) \/ StepFails(w) \/ Recheck(w) \/ Unlock(w)
  <2>1. UNCHANGED << run, used, shown, acked >>
    BY <1>18 DEF SelectPending, TryLock, ReadRun, StoreDraft, AgentDrafts, GenerateIac, StepFails,
       Recheck, Unlock
  <2> QED
    BY <1>1, <1>3, <2>1, Unwritten
<1>19. CASE Timeout(w) \/ Crash(w) \/ LoseLock(w)
  <2>1. UNCHANGED << run, shown, acked >> /\ used'.asks = used.asks /\ used'.invalid = used.invalid
    BY <1>1, <1>19 DEF Timeout, Crash, LoseLock
  <2> QED
    BY <1>1, <1>3, <2>1, Unwritten
<1> QED
  BY <1>7, <1>8, <1>9, <1>10, <1>11, <1>12, <1>13, <1>14, <1>15, <1>16, <1>17, <1>18, <1>19
  DEF WorkerStep

LEMMA ClientWrites ==
  ASSUME WInv, NEW c \in Clients, ClientStep(c)
  PROVE  Writes /\ Counts /\ Acks
<1> USE DEF database
<1>1. /\ run \in Row /\ client[c] \in RequestLocal /\ ReadBy(c) \in Row /\ used.asks \in Nat
      /\ TypeOK /\ Same(run)
      /\ used \in [asks : Nat, says : Nat, revisions : Nat, faults : Nat, invalid : Nat]
  BY DEF WInv, TypeOK, ClientOK, RequestLocal, ReadBy, Same, SameVersions
<1>2. client[c].op \in Asking /\ run.stateVersion = ReadBy(c).stateVersion => ReadBy(c) = run
  BY DEF WInv, FreshSnapshots, Fresh, ReadBy, Asking
<1>3. acked' = acked => Acks
  BY DEF Acks
<1>4. CASE CommitCancel(c)
  <2>1. UNCHANGED << used, shown, acked >> /\ (run' = run \/ run' = Committed("CANCELLED", run))
    BY <1>4 DEF CommitCancel
  <2>2. CASE run' = run
    BY <1>1, <1>3, <2>1, <2>2, Unwritten
  <2>3. CASE run' = Committed("CANCELLED", run)
    BY <1>1, <1>3, <2>1, <2>3, WritesSame DEF Writes, Ends, Counts
  <2> QED
    BY <2>1, <2>2, <2>3
<1>5. CASE CommitConfirm(c)
  <2> DEFINE version == client[c].version
             candidate == [run EXCEPT !.manifestConfirmedVersion = version]
  <2>1. /\ candidate \in Row /\ candidate.manifestVersion = run.manifestVersion
        /\ candidate.manifestConfirmedVersion = version /\ candidate.iacArtifactId = run.iacArtifactId
        /\ candidate.currentQuestion = run.currentQuestion /\ candidate.answersHistory = run.answersHistory
        /\ candidate.manifestValidationAttempts = run.manifestValidationAttempts
    BY <1>1 DEF Row, RequestLocal
  <2>2. /\ UNCHANGED << used, shown, acked >>
        /\ \/ run' = run
           \/ /\ run.state = "MANIFEST_VALIDATING" /\ run.manifestVersion = version
              /\ run' = Committed("IAC_GENERATING", candidate)
    BY <1>5 DEF CommitConfirm
  <2> HIDE DEF candidate
  <2>3. CASE run' = run
    BY <1>1, <1>3, <2>2, <2>3, Unwritten
  <2>4. CASE /\ run.state = "MANIFEST_VALIDATING" /\ run.manifestVersion = version
             /\ run' = Committed("IAC_GENERATING", candidate)
    <3>1. /\ run'.state = "IAC_GENERATING" /\ run'.manifestVersion = run.manifestVersion
          /\ run'.manifestConfirmedVersion = run.manifestVersion /\ run'.iacArtifactId = run.iacArtifactId
          /\ SameAnswers /\ run'.manifestValidationAttempts = run.manifestValidationAttempts
      BY <2>1, <2>2, <2>4, CommittedFields, CommittedRest DEF SameAnswers
    <3> QED
      BY <1>3, <2>2, <2>4, <3>1 DEF Writes, Confirms, Counts
  <2> QED
    BY <2>2, <2>3, <2>4
<1>6. CASE CommitRevise(c)
  <2> DEFINE candidate == [run EXCEPT !.agentTurnPending = TRUE,
                                      !.manifestConfirmedVersion = 0,
                                      !.manifestValidatedVersion = 0,
                                      !.manifestValidationAttempts = 0]
  <2>1. /\ candidate \in Row /\ candidate.manifestVersion = run.manifestVersion
        /\ candidate.manifestConfirmedVersion = 0 /\ candidate.iacArtifactId = run.iacArtifactId
        /\ candidate.currentQuestion = run.currentQuestion /\ candidate.answersHistory = run.answersHistory
        /\ candidate.manifestValidationAttempts = 0
    BY <1>1 DEF Row
  <2>2. /\ UNCHANGED << shown, acked >> /\ used'.asks = used.asks
        /\ \/ run' = run /\ used' = used
           \/ /\ run.stateVersion = ReadBy(c).stateVersion /\ used'.invalid = 0
              /\ run' = Committed(IF ReadBy(c).state = "MANIFEST_VALIDATING"
                                  THEN "MANIFEST_CREATING" ELSE run.state, candidate)
    BY <1>1, <1>6 DEF CommitRevise, MayTransition, MayTouch
  <2> HIDE DEF candidate
  <2>3. CASE run' = run /\ used' = used
    BY <1>1, <1>3, <2>2, <2>3, Unwritten
  <2>4. CASE /\ run.stateVersion = ReadBy(c).stateVersion /\ used'.invalid = 0
             /\ run' = Committed(IF ReadBy(c).state = "MANIFEST_VALIDATING"
                                 THEN "MANIFEST_CREATING" ELSE run.state, candidate)
    <3>1. client[c].op = "revise" /\ ReadBy(c) = run
      BY <1>2, <1>6, <2>4 DEF CommitRevise, Asking
    <3>2. run.state \in {"MANIFEST_CREATING", "MANIFEST_VALIDATING"}
      BY <3>1 DEF WInv, RequestsChecked, ReadBy
    <3>3. run' = Committed("MANIFEST_CREATING", candidate)
      BY <2>4, <3>1, <3>2
    <3>4. /\ run'.state = "MANIFEST_CREATING" /\ run'.manifestVersion = run.manifestVersion
          /\ run'.manifestConfirmedVersion = 0 /\ run'.iacArtifactId = run.iacArtifactId
          /\ SameAnswers /\ run'.manifestValidationAttempts = 0
      BY <2>1, <2>2, <3>3, CommittedFields, CommittedRest DEF SameAnswers
    <3> QED
      BY <1>3, <2>2, <2>4, <3>2, <3>4 DEF Writes, Revises, Counts
  <2> QED
    BY <2>2, <2>3, <2>4
<1>7. CASE CommitClarify(c)
  <2> DEFINE key       == client[c].key
             answers   == client[c].answers
             entry     == [question |-> run.currentQuestion, key |-> key, answers |-> answers]
             candidate == [run EXCEPT !.currentQuestion = 0,
                                      !.answersHistory = Append(@, entry),
                                      !.agentTurnPending = TRUE]
  <2>1. key \in Keys /\ answers \in Answers /\ client[c].op = "clarify"
    BY <1>7 DEF CommitClarify, WInv, TypeOK, ClientOK
  <2>2. entry \in AnswerEntry /\ entry.key = key /\ entry.answers = answers
    BY <1>1, <2>1 DEF AnswerEntry, Row
  <2>3. Append(run.answersHistory, entry) \in Seq(AnswerEntry)
    BY <1>1, <2>2 DEF Row
  <2>4. /\ candidate \in Row /\ SameVersions(candidate) /\ candidate.currentQuestion = 0
        /\ candidate.answersHistory = Append(run.answersHistory, entry)
        /\ candidate.manifestValidationAttempts = run.manifestValidationAttempts
    BY <1>1, <2>3 DEF Row, SameVersions
  <2>5. /\ UNCHANGED << used, shown >>
        /\ \/ run' = run /\ acked' = acked
           \/ /\ run.state = "CLARIFYING" /\ run.stateVersion = ReadBy(c).stateVersion
              /\ run' = Committed("MANIFEST_CREATING", candidate)
              /\ acked' = acked \cup {[key |-> key, answers |-> answers]}
    BY <1>7 DEF CommitClarify, MayTransition
  <2>6. CASE run' = run /\ acked' = acked
    BY <1>1, <1>3, <2>5, <2>6, Unwritten
  <2>7. CASE /\ run.state = "CLARIFYING" /\ run.stateVersion = ReadBy(c).stateVersion
             /\ run' = Committed("MANIFEST_CREATING", candidate)
             /\ acked' = acked \cup {[key |-> key, answers |-> answers]}
    <3> HIDE DEF candidate
    <3>1. /\ run'.state = "MANIFEST_CREATING" /\ SameConsent /\ run'.currentQuestion = 0
          /\ run'.answersHistory = Append(run.answersHistory, entry)
          /\ run'.manifestValidationAttempts = run.manifestValidationAttempts
      BY <2>4, <2>7, CommittedFields, CommittedRest DEF SameConsent, SameVersions
    <3>2. Entries(run, key) = {}
      BY <1>2, <2>1, <2>7 DEF WInv, RequestsChecked, ReadBy, Asking
    <3>3. Answered
      BY <2>1, <2>5, <2>7, <3>1, <3>2 DEF Answered
    <3>4. Replays(run', key, answers)
      <4>1. PICK h \in Seq(AnswerEntry) : h = run.answersHistory
        BY <1>1 DEF Row
      <4> HIDE DEF entry
      <4>2. /\ Len(h) + 1 \in DOMAIN run'.answersHistory
            /\ run'.answersHistory[Len(h) + 1] = entry
        BY <2>2, <3>1, <4>1
      <4> QED
        BY <2>2, <4>2 DEF Replays, Entries
    <3>5. Acks
      BY <2>7, <3>4 DEF Acks
    <3> QED
      BY <2>5, <3>1, <3>3, <3>5 DEF Writes, Counts
  <2> QED
    BY <2>5, <2>6, <2>7
<1>8. CASE RecognizeReplay(c) \/ \E key \in Keys, answers \in Answers : clarifyRun(c, key, answers)
  <2>1. UNCHANGED << run, used, shown >>
    BY <1>8 DEF RecognizeReplay, clarifyRun
  <2>2. ASSUME NEW key, NEW answers, Replays(run, key, answers),
               acked' \subseteq acked \cup {[key |-> key, answers |-> answers]}
        PROVE  Acks
    BY <2>1, <2>2 DEF Acks
  <2>3. RecognizeReplay(c) => Acks
    BY <1>3, <2>2 DEF RecognizeReplay
  <2>4. ASSUME \E key \in Keys, answers \in Answers : clarifyRun(c, key, answers)
        PROVE  Acks
    <3>1. PICK key \in Keys, answers \in Answers : clarifyRun(c, key, answers)
      BY <2>4
    <3> QED
      BY <1>3, <2>2, <3>1 DEF clarifyRun
  <2> QED
    BY <1>1, <1>8, <2>1, <2>3, <2>4, Unwritten
<1>9. CASE \/ cancelRun(c) \/ reviseRun(c) \/ RequestFails(c)
           \/ \E version \in DOMAIN manifests : confirmRun(c, version)
  <2>1. UNCHANGED << run, used, shown, acked >>
    BY <1>9 DEF cancelRun, reviseRun, RequestFails, confirmRun
  <2> QED
    BY <1>1, <1>3, <2>1, Unwritten
<1> QED
  BY <1>4, <1>5, <1>6, <1>7, <1>8, <1>9 DEF ClientStep

LEMMA OtherWrites ==
  ASSUME WInv,
         \/ \E request \in late : LateRequest(request)
         \/ DeadlinePasses \/ Sweeper \/ UNCHANGED vars
  PROVE  Writes /\ Counts /\ Acks
<1> USE DEF database, processes
<1>1. TypeOK /\ run \in Row /\ Same(run)
  BY DEF WInv, TypeOK, Same, SameVersions
<1>2. /\ UNCHANGED << used, shown, acked >>
      /\ run' = run \/ run' = Committed("CANCELLED", run)
  BY DEF LateRequest, DeadlinePasses, Sweeper, SweepSelect, SweepCommit, vars
<1>3. Acks
  BY <1>2 DEF Acks
<1>4. CASE run' = run
  BY <1>1, <1>2, <1>3, <1>4, Unwritten
<1>5. CASE run' = Committed("CANCELLED", run)
  BY <1>1, <1>2, <1>3, <1>5, WritesSame DEF Writes, Ends, Counts
<1> QED
  BY <1>2, <1>4, <1>5

\* What a request has checked before it waits for the row.
LEMMA ChecksKept ==
  ASSUME WInv, [Next]_vars
  PROVE  RequestsChecked'
<1>1. ASSUME NEW c \in Clients, ClientStep(c)
      PROVE  RequestsChecked'
  <2> DEFINE ok(l) ==
        /\ l.op = "revise" => l.run.state \in {"MANIFEST_CREATING", "MANIFEST_VALIDATING"}
        /\ l.op = "clarify" => Entries(l.run, l.key) = {}
  <2>1. client \in [Clients -> RequestLocal] /\ \A d \in Clients : ok(client[d])
    BY DEF WInv, TypeOK, ClientOK, RequestsChecked
  <2>2. ASSUME NEW l, client' = [client EXCEPT ![c] = l], ok(l)
        PROVE  RequestsChecked'
    BY <2>1, <2>2 DEF RequestsChecked
  <2>3. ASSUME Done(c)
        PROVE  RequestsChecked'
    <3>1. NoRequest.op = "idle"
      BY DEF NoRequest
    <3> QED
      BY <2>2, <2>3, <3>1 DEF Done
  <2>4. CASE cancelRun(c) \/ reviseRun(c)
    <3>1. ASSUME NEW op \in {"cancel", "revise"}, Begin(c, op),
                 op = "revise" => run.state \in {"MANIFEST_CREATING", "MANIFEST_VALIDATING"}
          PROVE  RequestsChecked'
      <4> DEFINE l == [NoRequest EXCEPT !.op = op, !.run = run]
      <4>1. l.op = op /\ l.run = run
        BY DEF NoRequest
      <4>2. client' = [client EXCEPT ![c] = l]
        BY <3>1 DEF Begin
      <4> HIDE DEF l
      <4> QED
        BY <2>2, <3>1, <4>1, <4>2
    <3> QED
      BY <2>4, <3>1 DEF cancelRun, reviseRun
  <2>5. CASE \E version \in DOMAIN manifests : confirmRun(c, version)
    <3>1. PICK version \in DOMAIN manifests : confirmRun(c, version)
      BY <2>5
    <3> DEFINE l == [NoRequest EXCEPT !.op = "confirm", !.run = run, !.version = version]
    <3>2. l.op = "confirm"
      BY DEF NoRequest
    <3>3. client' = [client EXCEPT ![c] = l]
      BY <3>1 DEF confirmRun
    <3> HIDE DEF l
    <3> QED
      BY <2>2, <3>2, <3>3
  <2>6. CASE \E key \in Keys, answers \in Answers : clarifyRun(c, key, answers)
    <3>1. PICK key \in Keys, answers \in Answers : clarifyRun(c, key, answers)
      BY <2>6
    <3> DEFINE l == [NoRequest EXCEPT !.op = IF expired THEN "cancel" ELSE "clarify",
                                      !.run = run, !.key = key, !.answers = answers]
    <3>2. l.op \in {"cancel", "clarify"} /\ l.run = run /\ l.key = key
      BY DEF NoRequest
    <3>3. client' = client \/ (client' = [client EXCEPT ![c] = l] /\ Entries(run, key) = {})
      BY <3>1 DEF clarifyRun
    <3> HIDE DEF l
    <3>4. CASE client' = client
      BY <3>4 DEF WInv, RequestsChecked
    <3> QED
      BY <2>2, <3>2, <3>3, <3>4
  <2>7. CASE CommitClarify(c)
    <3> DEFINE l == [client[c] EXCEPT !.op = "reread", !.run = NewRun]
    <3>1. l.op = "reread"
      BY <2>1 DEF RequestLocal
    <3>2. Done(c) \/ client' = [client EXCEPT ![c] = l]
      BY <2>1, <2>7 DEF CommitClarify, RequestLocal
    <3> HIDE DEF l
    <3> QED
      BY <2>2, <2>3, <3>1, <3>2
  <2> QED
    BY <1>1, <2>3, <2>4, <2>5, <2>6, <2>7
    DEF ClientStep, CommitCancel, CommitConfirm, CommitRevise, RecognizeReplay, RequestFails
<1>2. CASE client' = client
  BY <1>2 DEF WInv, RequestsChecked
<1> QED
  BY <1>1, <1>2, WorkerStepType, OtherStepType DEF Next, WInv

\* Every step is on the list.
LEMMA NextWrites ==
  ASSUME WInv, [Next]_vars
  PROVE  Writes /\ Counts /\ Acks
  BY WorkerWrites, ClientWrites, OtherWrites DEF Next

LEMMA WInvHolds == Spec => []WInv
<1>1. Init => RequestsChecked
  BY DEF Init, RequestsChecked, NoRequest
<1>2. TypeOK /\ FreshSnapshots /\ ManifestInv /\ ConsentInv /\ RequestsChecked /\ [Next]_vars
        => RequestsChecked'
  BY ChecksKept DEF WInv
<1>3. Spec => []ConsentInv
  <2>1. Init => ConsentInv
    BY DEF Init, ConsentInv, ActiveShown, PlanBacked, RevisesNoPlan, NewRun, NoRequest
  <2>2. TypeOK /\ FreshSnapshots /\ ManifestInv /\ ConsentInv /\ [Next]_vars => ConsentInv'
    BY NextConsent
  <2> QED
    BY <2>1, <2>2, TypeCorrect, SnapshotsFresh, ManifestInvHolds, PTL DEF Spec
<1>4. TypeOK /\ FreshSnapshots /\ ManifestInv /\ ConsentInv /\ RequestsChecked => WInv
  BY DEF WInv
<1> QED
  BY <1>1, <1>2, <1>3, <1>4, TypeCorrect, SnapshotsFresh, ManifestInvHolds, PTL DEF Spec
----------------------------------------------------------------------------
(* The results                                                             *)

\* Between two revisions a run records at most three invalid drafts and does
\* not outlive the third: every write that records one was computed from the
\* current row (dispatchAgent, mutate), nothing else but a revision touches the
\* counter, and nothing writes a failed run.
THEOREM FailsAtThirdStrike == Spec => []ThirdStrikeFails
<1>1. Init => ThirdStrikeFails
  BY DEF Init, ThirdStrikeFails, NewRun, MaxValidationAttempts
<1>2. ASSUME WInv, ThirdStrikeFails, [Next]_vars
      PROVE  ThirdStrikeFails'
  <2>1. /\ Counts /\ RunAdvances
        /\ used.invalid \in Nat /\ used'.invalid \in Nat
    <3>1. Counts /\ RunAdvances /\ TypeOK /\ TypeOK'
      BY <1>2, NextWrites, NextType DEF WInv
    <3> QED
      BY <3>1 DEF TypeOK
  <2>2. run' = run \/ used.invalid < MaxValidationAttempts
    BY <1>2, <2>1 DEF RunAdvances, ThirdStrikeFails, MaxValidationAttempts, isTerminalWorkflowState,
       TERMINAL_WORKFLOW_STATES
  <2>3. CASE run' = run
    BY <1>2, <2>1, <2>3 DEF Counts, ThirdStrikeFails, MaxValidationAttempts
  <2>4. CASE used.invalid < MaxValidationAttempts
    BY <1>2, <2>1, <2>4 DEF Counts, ThirdStrikeFails, MaxValidationAttempts
  <2> QED
    BY <2>2, <2>3, <2>4
<1> QED
  BY <1>1, <1>2, WInvHolds, PTL DEF Spec

\* Questions are numbered as they are asked: the history answers earlier ones
\* than the one that is open.
QuestionsNumbered ==
  /\ run.currentQuestion <= used.asks
  /\ \A i \in DOMAIN run.answersHistory :
       /\ run.answersHistory[i].question <= used.asks
       /\ run.state = "CLARIFYING" => run.answersHistory[i].question < run.currentQuestion

AnswersInv == AnswersKept /\ QuestionsNumbered

\* The history after an answer: the old entries and one for the open question.
LEMMA AnsweredHistory ==
  ASSUME TypeOK, Answered
  PROVE  \E n \in Nat :
           /\ DOMAIN run.answersHistory = 1..n /\ DOMAIN run'.answersHistory = 1..(n + 1)
           /\ \A i \in 1..n : run'.answersHistory[i] = run.answersHistory[i]
           /\ run'.answersHistory[n + 1].question = run.currentQuestion
           /\ \A i \in 1..n : run.answersHistory[i].key # run'.answersHistory[n + 1].key
<1>1. PICK key \in Keys, answers \in Answers :
         /\ Entries(run, key) = {}
         /\ run'.answersHistory =
              Append(run.answersHistory,
                     [question |-> run.currentQuestion, key |-> key, answers |-> answers])
  BY DEF Answered
<1> DEFINE entry == [question |-> run.currentQuestion, key |-> key, answers |-> answers]
<1>2. /\ entry \in AnswerEntry /\ entry.question = run.currentQuestion /\ entry.key = key
      /\ run'.answersHistory = Append(run.answersHistory, entry)
  BY <1>1 DEF TypeOK, Row, AnswerEntry
<1>3. PICK h \in Seq(AnswerEntry) : h = run.answersHistory
  BY DEF TypeOK, Row
<1> HIDE DEF entry
<1>4. /\ Len(h) \in Nat /\ DOMAIN h = 1..Len(h)
      /\ DOMAIN Append(h, entry) = 1..(Len(h) + 1)
      /\ \A i \in 1..Len(h) : Append(h, entry)[i] = h[i]
      /\ Append(h, entry)[Len(h) + 1] = entry
  BY <1>2, <1>3
<1>5. \A i \in 1..Len(h) : h[i].key # key
  BY <1>1, <1>3, <1>4 DEF Entries
<1> QED
  BY <1>2, <1>3, <1>4, <1>5

\* A step keeps the history or answers the open question.
LEMMA HistoryKept ==
  ASSUME Writes, ~Answered
  PROVE  run'.answersHistory = run.answersHistory
  BY DEF Writes, Presents, Stays, Plans, Ends, Asks, Confirms, Revises, Builds, SameAnswers

LEMMA NumbersKept ==
  ASSUME TypeOK, TypeOK', Writes, QuestionsNumbered
  PROVE  QuestionsNumbered'
<1>1. /\ run.currentQuestion \in Nat /\ run'.currentQuestion \in Nat
      /\ used.asks \in Nat /\ used'.asks \in Nat
  BY DEF TypeOK, Row
<1>2. \A i \in DOMAIN run.answersHistory : run.answersHistory[i].question \in Nat
  <2>1. PICK h \in Seq(AnswerEntry) : h = run.answersHistory
    BY DEF TypeOK, Row
  <2>2. \A i \in DOMAIN h : h[i] \in AnswerEntry
    OBVIOUS
  <2>3. \A e \in AnswerEntry : e.question \in Nat
    BY DEF AnswerEntry
  <2> QED
    BY <2>1, <2>2, <2>3
<1>3. CASE Answered
  <2>1. PICK n \in Nat :
           /\ DOMAIN run.answersHistory = 1..n /\ DOMAIN run'.answersHistory = 1..(n + 1)
           /\ \A i \in 1..n : run'.answersHistory[i] = run.answersHistory[i]
           /\ run'.answersHistory[n + 1].question = run.currentQuestion
    BY <1>3, AnsweredHistory
  <2>2. run'.currentQuestion = 0 /\ used'.asks = used.asks /\ run'.state = "MANIFEST_CREATING"
    BY <1>3 DEF Answered
  <2> QED
    BY <1>1, <1>2, <2>1, <2>2 DEF QuestionsNumbered
<1>4. CASE ~Answered
  <2>1. run'.answersHistory = run.answersHistory
    BY <1>4, HistoryKept
  <2>2. \/ /\ run'.currentQuestion = run.currentQuestion /\ used'.asks = used.asks
           /\ run'.state = "CLARIFYING" => run.state = "CLARIFYING"
        \/ /\ run'.currentQuestion = used.asks + 1 /\ used'.asks = used.asks + 1
    BY <1>4 DEF Writes, Presents, Stays, Plans, Ends, Asks, Confirms, Revises, Builds, SameAnswers,
       Planning
  <2> QED
    BY <1>1, <1>2, <2>1, <2>2 DEF QuestionsNumbered
<1> QED
  BY <1>3, <1>4

\* An acknowledged answer stays in the history with its key, which no later
\* answer takes, and questions are answered in the order they were asked:
\* clarifyRun searches the history, and mutate refuses a stale search.
THEOREM AnswersStay == Spec => []AnswersKept
<1>1. Init => AnswersInv
  BY DEF Init, AnswersInv, AnswersKept, QuestionsNumbered, NewRun
<1>2. ASSUME WInv, AnswersInv, [Next]_vars
      PROVE  AnswersInv'
  <2>1. /\ Writes /\ Acks /\ TypeOK /\ TypeOK' /\ AnswersKept /\ QuestionsNumbered
        /\ QuestionsNumbered'
    BY <1>2, NextWrites, NextType, NumbersKept DEF WInv, AnswersInv
  <2>2. CASE Answered
    <3>1. PICK n \in Nat :
             /\ DOMAIN run.answersHistory = 1..n /\ DOMAIN run'.answersHistory = 1..(n + 1)
             /\ \A i \in 1..n : run'.answersHistory[i] = run.answersHistory[i]
             /\ run'.answersHistory[n + 1].question = run.currentQuestion
             /\ \A i \in 1..n : run.answersHistory[i].key # run'.answersHistory[n + 1].key
      BY <2>1, <2>2, AnsweredHistory
    <3>2. \A key, answers : Replays(run, key, answers) => Replays(run', key, answers)
      BY <3>1 DEF Replays, Entries
    <3>3. \A a \in acked' : Replays(run', a.key, a.answers)
      BY <2>1, <3>2 DEF Acks, AnswersKept
    <3>4. \A i \in 1..n : run.answersHistory[i].question < run'.answersHistory[n + 1].question
      BY <2>1, <2>2, <3>1 DEF QuestionsNumbered, Answered
    <3>5. \A i, j \in DOMAIN run'.answersHistory :
             i < j => /\ run'.answersHistory[i].key # run'.answersHistory[j].key
                      /\ run'.answersHistory[i].question < run'.answersHistory[j].question
      <4> SUFFICES ASSUME NEW i \in 1..(n + 1), NEW j \in 1..(n + 1), i < j
                   PROVE  /\ run'.answersHistory[i].key # run'.answersHistory[j].key
                          /\ run'.answersHistory[i].question < run'.answersHistory[j].question
        BY <3>1
      <4>1. CASE j = n + 1
        BY <3>1, <3>4, <4>1
      <4>2. CASE j \in 1..n
        <5>1. i \in 1..n
          BY <4>2
        <5> QED
          BY <2>1, <3>1, <4>2, <5>1 DEF AnswersKept
      <4> QED
        BY <4>1, <4>2
    <3> QED
      BY <2>1, <3>3, <3>5 DEF AnswersInv, AnswersKept
  <2>3. CASE ~Answered
    <3>1. run'.answersHistory = run.answersHistory
      BY <2>1, <2>3, HistoryKept
    <3>2. \A a \in acked' : Replays(run', a.key, a.answers)
      BY <2>1, <3>1 DEF Acks, AnswersKept, Replays, Entries
    <3> QED
      BY <2>1, <3>1, <3>2 DEF AnswersInv, AnswersKept
  <2> QED
    BY <2>2, <2>3
<1>3. AnswersInv => AnswersKept
  BY DEF AnswersInv
<1> QED
  BY <1>1, <1>2, <1>3, WInvHolds, PTL DEF Spec
----------------------------------------------------------------------------
(* The contract                                                            *)

Ended == {"FAILED", "CANCELLED"}

\* What is confirmed or built is the active version, in the states that have it.
VersionsAgree ==
  /\ run.manifestConfirmedVersion \in {0, run.manifestVersion}
  /\ run.iacArtifactId \in {0, run.manifestVersion}
  /\ run.manifestConfirmedVersion # 0 =>
       run.state \in {"IAC_GENERATING", "PLAN_CREATING"} \cup Ended
  /\ run.iacArtifactId # 0 => run.state \in {"PLAN_CREATING"} \cup Ended

LEMMA VersionsKept ==
  ASSUME TypeOK, Writes, RunAdvances, VersionsAgree
  PROVE  VersionsAgree'
<1>1. CASE run' = run
  BY <1>1 DEF VersionsAgree
<1>2. CASE run' # run
  <2>1. run.state \notin Ended
    BY <1>2 DEF RunAdvances, isTerminalWorkflowState, TERMINAL_WORKFLOW_STATES, Ended
  <2>2. CASE Stays \/ Plans \/ Ends \/ Asks \/ Answered
    BY <2>1, <2>2 DEF VersionsAgree, Stays, Plans, Ends, Asks, Answered, SameConsent, Planning, Ended
  <2>3. CASE Presents \/ Confirms \/ Revises \/ Builds
    BY <2>1, <2>3 DEF VersionsAgree, Presents, Confirms, Revises, Builds, Ended
  <2> QED
    BY <2>2, <2>3 DEF Writes
<1> QED
  BY <1>1, <1>2

\* The users were shown what the active version holds.
ShownIsActive ==
  /\ run.manifestVersion # 0 => run.manifestVersion \in DOMAIN manifests
  /\ ShownUnder(run.manifestVersion) = DraftOf(run.manifestVersion)

LEMMA ActiveIsShown ==
  ASSUME TypeOK, ShownIsStored, ActiveShown
  PROVE  ShownIsActive
<1>1. PICK v \in Nat : v = run.manifestVersion
  BY DEF TypeOK, Row
<1>2. 0 \notin DOMAIN manifests
  BY DEF TypeOK
<1>3. CASE v = 0
  BY <1>1, <1>2, <1>3 DEF ShownIsActive, ShownUnder, DraftOf, ShownIsStored
<1>4. CASE v # 0
  <2> DEFINE entry == [version |-> v, draft |-> manifests[v].draft]
  <2>1. entry \in shown /\ entry.version = v
    BY <1>1, <1>4 DEF ActiveShown
  <2>2. \A e \in shown : e.version = v => v \in DOMAIN manifests /\ e.draft = manifests[v].draft
    BY DEF ShownIsStored
  <2> HIDE DEF entry
  <2>3. \E e \in shown : e.version = v
    BY <2>1
  <2>4. v \in DOMAIN manifests
    BY <2>2, <2>3
  <2>5. ShownUnder(v) = manifests[v].draft
    <3> DEFINE e == CHOOSE e \in shown : e.version = v
    <3>1. e \in shown /\ e.version = v
      BY <2>3
    <3>2. ShownUnder(v) = e.draft
      BY <2>3 DEF ShownUnder
    <3> HIDE DEF e
    <3> QED
      BY <2>2, <3>1, <3>2
  <2> QED
    BY <1>1, <1>4, <2>4, <2>5 DEF ShownIsActive, DraftOf
<1> QED
  BY <1>3, <1>4

\* No step changes a stored manifest.
StoreGrows ==
  \A v \in DOMAIN manifests : v \in DOMAIN manifests' /\ manifests'[v] = manifests[v]

LEMMA NextGrows ==
  ASSUME TypeOK, [Next]_vars
  PROVE  StoreGrows
<1>1. manifests \in Seq(ManifestRow)
  BY DEF TypeOK
<1>2. ASSUME NEW w \in Workers, WorkerStep(w) \/ Timeout(w) \/ Crash(w) \/ LoseLock(w)
      PROVE  StoreGrows
  <2>1. CASE StoreDraft(w)
    <3>1. Read(w).stateVersion \in Nat /\ worker[w].draft \in Drafts
      BY <2>1 DEF StoreDraft, At, TypeOK, WorkerOK, WorkerLocal, Row, Read
    <3>2. StoreManifestVersionWithKey(Read(w).stateVersion, worker[w].draft)
      BY <2>1 DEF StoreDraft
    <3> QED
      BY <1>1, <3>1, <3>2, StoreAppends DEF StoreGrows
  <2>2. CASE CommitManifest(w)
    BY <2>2 DEF CommitManifest, StoreGrows
  <2>3. CASE ~StoreDraft(w) /\ ~CommitManifest(w)
    BY <1>2, <2>3, WorkerQuiet DEF Quiet, StoreGrows
  <2> QED
    BY <2>1, <2>2, <2>3
<1>3. ASSUME NEW request \in late, LateRequest(request)
      PROVE  StoreGrows
  <2>1. CASE request.kind = "manifest"
    <3>1. request.key \in Nat /\ request.draft \in Drafts
      BY <1>3, <2>1 DEF LateRequests, TypeOK
    <3>2. StoreManifestVersionWithKey(request.key, request.draft)
      BY <1>3, <2>1 DEF LateRequest
    <3> QED
      BY <1>1, <3>1, <3>2, StoreAppends DEF StoreGrows
  <2>2. CASE request.kind # "manifest"
    BY <1>3, <2>2 DEF LateRequest, StoreGrows
  <2> QED
    BY <2>1, <2>2
<1>4. ASSUME \/ \E c \in Clients : ClientStep(c)
             \/ DeadlinePasses \/ Sweeper \/ UNCHANGED vars
      PROVE  StoreGrows
  BY <1>4, OthersQuiet DEF Quiet, StoreGrows
<1> QED
  BY <1>2, <1>3, <1>4 DEF Next

\* The drafts behind the versions do not change under a step that grows the store.
LEMMA DraftsKept ==
  ASSUME TypeOK, ShownIsActive, VersionsAgree, StoreGrows
  PROVE  \A v \in {0, run.manifestVersion, run.manifestConfirmedVersion, run.iacArtifactId} :
           DraftOf(v)' = DraftOf(v)
  BY DEF ShownIsActive, VersionsAgree, StoreGrows, DraftOf

\* A step of the run is a step of its contract.
LEMMA StepsImplement ==
  ASSUME TypeOK, TypeOK', ShownIsActive, ShownIsActive', VersionsAgree, StoreGrows, Writes
  PROVE  [Contract!ContractNext]_(Contract!contractVars)
<1> DEFINE presented == DraftOf(run.manifestVersion)
           consent   == DraftOf(run.manifestConfirmedVersion)
           product   == DraftOf(run.iacArtifactId)
<1>1. ShownUnder(run.manifestVersion) = presented /\ ShownUnder(run.manifestVersion)' = presented'
  BY DEF ShownIsActive
<1>2. \A v \in {0, run.manifestVersion, run.manifestConfirmedVersion, run.iacArtifactId} :
         DraftOf(v)' = DraftOf(v)
  BY DraftsKept
<1>3. /\ run.state \in Planning => Phase = "planning"
      /\ run.state = "CLARIFYING" => Phase = "asking"
      /\ run.state = "MANIFEST_VALIDATING" => Phase = "review"
      /\ run.state = "IAC_GENERATING" => Phase = "building"
  BY DEF Phase, Planning
<1>4. /\ run'.state \in Planning => Phase' = "planning"
      /\ run'.state = "CLARIFYING" => Phase' = "asking"
      /\ run'.state = "MANIFEST_VALIDATING" => Phase' = "review"
      /\ run'.state = "IAC_GENERATING" => Phase' = "building"
      /\ run'.state = "PLAN_CREATING" => Phase' = "built"
      /\ run'.state \in Ended => Phase' = "closed"
      /\ run'.state = run.state => Phase' = Phase
  BY DEF Phase, Planning, Ended
<1> USE DEF Contract!ContractNext, Contract!contractVars
<1>5. SameConsent => presented' = presented /\ consent' = consent /\ product' = product
  BY <1>2 DEF SameConsent, DraftOf
<1>6. CASE Stays \/ Plans
  BY <1>1, <1>3, <1>4, <1>5, <1>6 DEF Stays, Plans
<1>7. CASE Ends
  BY <1>1, <1>4, <1>5, <1>7 DEF Ends, Ended, Contract!Close
<1>8. CASE Asks
  BY <1>1, <1>3, <1>4, <1>5, <1>8 DEF Asks, Contract!Ask
<1>9. CASE Answered
  BY <1>1, <1>3, <1>4, <1>5, <1>9 DEF Answered, Planning, Contract!Answer
<1>10. CASE Presents
  <2>1. presented' \in Drafts /\ consent' = None /\ product' = product
    BY <1>2, <1>10 DEF Presents, DraftOf, TypeOK, ManifestRow
  <2> QED
    BY <1>1, <1>3, <1>4, <1>10, <2>1 DEF Presents, Planning, Contract!Present
<1>11. CASE Confirms
  <2>1. presented' = presented /\ consent' = presented /\ product' = product
    BY <1>2, <1>11 DEF Confirms, DraftOf
  <2> QED
    BY <1>1, <1>3, <1>4, <1>11, <2>1 DEF Confirms, Contract!Confirm
<1>12. CASE Revises
  <2>1. presented' = presented /\ consent' = None /\ product' = product
    BY <1>2, <1>12 DEF Revises, DraftOf
  <2>2. run.state = "MANIFEST_CREATING" => consent = None
    BY DEF VersionsAgree, DraftOf, Ended
  <2> QED
    BY <1>1, <1>3, <1>4, <1>12, <2>1, <2>2 DEF Revises, Planning, Contract!Revise
<1>13. CASE Builds
  <2>1. presented' = presented /\ consent' = consent /\ product' = consent
    BY <1>2, <1>13 DEF Builds, DraftOf
  <2> QED
    BY <1>1, <1>3, <1>4, <1>13, <2>1 DEF Builds, Contract!Build
<1> QED
  BY <1>6, <1>7, <1>8, <1>9, <1>10, <1>11, <1>12, <1>13 DEF Writes

\* The run keeps its contract: whatever workers, sweepers, users, retries and
\* late replies do, one draft is presented at a time, consent is given to the
\* presented draft only, and only the draft consented to is built.
THEOREM ContractKept == Spec => ImplementsContract
<1>1. Init => Contract!ContractInit /\ VersionsAgree
  BY DEF Init, NewRun, Contract!ContractInit, Phase, ShownUnder, DraftOf, VersionsAgree
<1>2. WInv => ShownIsActive
  BY ActiveIsShown DEF WInv, ManifestInv, ConsentInv
<1>3. WInv /\ VersionsAgree /\ [Next]_vars => VersionsAgree'
  BY NextWrites, NextType, VersionsKept DEF WInv
<1>4. WInv /\ WInv' /\ VersionsAgree /\ ShownIsActive /\ ShownIsActive' /\ [Next]_vars
        => [Contract!ContractNext]_(Contract!contractVars)
  BY NextWrites, NextGrows, StepsImplement DEF WInv
<1> QED
  BY <1>1, <1>2, <1>3, <1>4, WInvHolds, PTL DEF Spec, ImplementsContract, Contract!ContractSpec
============================================================================
